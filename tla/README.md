# A verification development for soulrust

soulrust is a Soulseek client written in Rust. Its core is a set of actors on a
message bus (`crates/soulrust/src/components`), one of which, `peer_net`, runs a
single-threaded tokio reactor with a task for every peer connection. This
directory holds TLA+ models of that core, TLC runs that check them on small
instances, and TLAPS proofs of their most important invariants for every
instance. Paths below are relative to `crates/soulrust/src/`.

## 1. The system

### How the parts interact

The bus is a ring buffer: messages are handled in the order they were published,
by one worker thread, and the handlers of one message's route run one after the
other (`wiring.rs`). `peer_net`'s handlers only forward to its reactor through an
unbounded command channel. In the reactor one task, `command_loop`, takes the
commands in order; each connection has its own task; and what a task does between
two awaits runs without interruption. Tasks share registries behind mutexes and
atomics (`ConnCtx`). So the interleavings that matter are those of the bus worker,
the command loop, the connection tasks, the server's answers and the peers.

### Inventory

| component | state | operations | hard parts | what makes it correct |
|---|---|---|---|---|
| Upload side of `peer_net` | `Uploads::by_token`, `UploadQueue`, `UploadGate` (waiting, active), `next_token` | offer (on QueueUpload), accept a request (TransferRequest{Download}), verdict, address resolution through `session`, gate, stream, release, eviction at a cap | tokens of two origins in one map; address answers shared by several uploads; two ways the file connection opens; slots released from tasks | an upload is in one place; slots are neither leaked nor lent twice; approved uploads are not forgotten; the queue book follows the registry |
| Upload scheduler (`transfers/uploads.rs`) | per-user queues, active counts, round-robin stamps, privileged users | enqueue, dequeue, activate, finish, privileges, candidate, place | stamps kept by four operations; uploads end between choice and start | one candidate while anybody waits; bounded overtaking; dense places |
| Downloads (`peer_net`, `session`, `api_server`, `transfer_io`) | rows, `pending_downloads`, `Downloads::{pending, by_token}`, partial files | click, resolve, dial, QueueUpload, offer, F connection, append or truncate, rename, cancel, pause | cancel against an attempt under way; a second stream on one partial; failures at every await | finished files are whole; one writer; a cancel sticks; no row stays active with nothing behind it |
| Server link (`net_edge`, `session`) | write half, write-half channel, connector threads, login state | connect, hand over, login, drain, reconnect on a saved configuration | connector threads outlive the configuration that started them | what is written goes to the newest link; logins are fresh; the session's state follows the link |
| Distributed search tree (`peer_net`, `session`) | `distrib_parent`, `DistribState` (branch, attached, children) | adopt a parent, news, end, adopt a child, greet, forward, prune, advertise | children greeted while news arrive; parents overlapping; the server's view across logins | children and server follow our position; one parent |
| `session`: searches, browses, indirect connects | `next_token`, `pending_browses` | StartSearch, BrowseUser, ConnectToPeer | resolutions lost with the link; one answer serves several requests | a card for every search announced; every browse ends |
| Search answers (`peer_net`, `search_response.rs`) | `PendingDeliveries`, `connect_token` | snapshot, match, queue, relay ConnectToPeer, pierce, evict | matchings end in any order; cap and wrapping tokens; the cap applied before or after the rest of the query | a searcher is asked to collect one answer, and finds it; the answer is the right one |
| Share index (`shares`) | files, word index | scan, resolve, search, exclude | two rescans in parallel, a failed one | an answer matches the query and the configuration |
| Transfer streaming (`transfer_io.rs`) | token buckets | copy, throttle, resume offset | no idle timeout in `copy_exact` | exact sizes and offsets |
| Api server (`api_server.rs`) | read models, upload monitor, correlations, saved history | RPCs, `round_trip` with a timeout, row updates | late replies; clients that go away; rows made again by late events; a death while the history is written | a reply reaches its caller or nobody; a replaced card is not lost; what is shown as over survives a restart |
| Configuration store (`config.rs`) | the configuration, a file, its backup and its temporary | set: validate, save, publish | a step of the save fails; a death between two; overlapping changes | file, store, subscribers and answers agree; the file is always whole |
| Updater (`updater.rs`, `github.rs`) | pending update, artifact, executable | check, download, apply | apply fails after the update was taken out; settings change under a check; death anywhere | the executable is whole; the status is true |
| Extractors (`extract`) | none | fetch, parse | - | - |
| Wire protocol (`soulseek-proto`) | none | frames, codecs | partial frames | round trips |
| Messenger libraries | inboxes | send, ask | bounded inbox, cycles of asks | no deadlock |
| Start, wiring, frontend | - | - | - | - |

`PROJECT.json` gives the same list with what is modelled, and the hazards,
with the line where each bites and the properties aimed at it.

## 2. The modules

| module | models | kind |
|---|---|---|
| `Uploads` | upload side: registry, queue book, gate, command loop, bus, session's resolution, link losses | state machine |
| `UploadLifecycle` | what the upload side promises of one upload: offered, approved, waiting, streaming, collected, over, and never back | abstract specification, refined by `Uploads` |
| `MCUploads` | instances of `Uploads` | for TLC |
| `UploadsProofs` | every checked safety property of `Uploads` and the refinement, for every instance | TLAPS |
| `UploadQueue` | the scheduler object | state machine |
| `RoundRobin` | `UploadQueue` with a history of who was picked before whom, and who started past the pick in hand | history variables |
| `MCUploadQueue` | symmetric instance of `RoundRobin` | for TLC |
| `UploadQueueProofs` | invariants of the scheduler, and its fairness (it extends `RoundRobin`) | TLAPS |
| `Downloads`, `MCDownloads` | a download from the click to the finished file | state machine, instances |
| `DownloadsProofs` | every checked property of `Downloads` for every instance | TLAPS |
| `ServerLink` | connector threads, write half, login state, bus | state machine |
| `ServerLinkProofs` | every checked invariant of `ServerLink` for every instance | TLAPS |
| `DistribTree`, `MCDistribTree` | our place in the search tree | state machine, instance |
| `DistribTreeProofs` | every checked property of `DistribTree`, for every instance | TLAPS |
| `ConfigStore` | the configuration file and its copies, saves, login callbacks, deaths | state machine |
| `SearchMatch` | the word index and the matcher, and what an answer ought to be | pure operators |
| `SearchAnswers`, `MCSearchAnswers` | searches of the network from the bus to the delivery, beside rescans | state machine over `SearchMatch`, instance |
| `SearchAnswersProofs` | every checked property of `SearchAnswers`, the matcher's result included, for every instance | TLAPS |
| `ApiBridge`, `MCApiBridge` | calls of the user interface with the components that answer them | composition of api server, extractor, session and browse tasks; instance |
| `TransferRows`, `MCTransferRows` | the lists of transfers, the saved history, restarts | state machine, instance |
| `Updater` | the self-updater, its artifact and the executable | state machine |
| `CoreWorkerProofs` | every checked property of `ConfigStore` and of `Updater` for every instance | TLAPS |
| `ApiServerProofs` | every checked invariant of `ApiBridge` and of `TransferRows` for every instance | TLAPS |

Conventions. A variable has the name of the field it models. An action has the
name of the handler or command it models: `Cmd...` is a branch of `command_loop`,
`Bus...` the handlers of one bus message in the order of its route, `On...` a
branch of a connection's read loop. An action ends where the code awaits or
returns to its loop. Operators marked "Faulty" are variants of the operator that
follows them, with a plausible bug; nothing uses them but the sensitivity
experiments listed under "mutants" in `PROJECT.json`, each of which shows that a
property notices that bug. `Updater` and `TransferRows` give names of their own to what
other modules call `Init`, `Next`, `Spec` and `vars` (`UpdaterInit`, `RowsInit` and so on),
because one proof module extends each of them together with a second model.

### Uploads

An upload is its id in the `UploadQueue`; file names, sizes and monitor events are
left out. `by_token` holds tokens of both origins, as the map does: ours, minted
by `next_token`, and the downloader's own. `cmds` and `bus` are FIFO. `streaming`
are the live `upload_task`s, `serving` the uploads that a downloader collects on a
connection it opened. The server answers address requests in any order and says
online or offline; the link may drop, which loses the answers and keeps
`pending_upload_resolves`, as the code does. The hash map's iteration order in
`CmdUploadConnect` is any order. Peers are honest: they answer what they were
offered and collect what they asked for; whether they do is up to them. A request
under a token of the peer's own is registered whatever that token is: one that the
peer, or another, used before replaces the entry, as the insertion in the code does,
and the replaced upload keeps its place in the queue book. `replaced` remembers
those uploads; no action reads it.

### UploadQueue

The scheduler is exercised as its tests drive it: a candidate is asked for, and
later dequeued and activated (`peer_net` itself uses the queue for places only).
Everything may happen in between, an upload that starts unqueued (`activate_unqueued`)
included. The driver gives up no upload that it has in hand. Ids are ranks of arrival,
so a set of ids stands for a user's list.

### Downloads

One action per await-free section of `download_init_task`, `recv_file` and
`receive_to_disk`; rows as `api_server` sets them. The disk is a sequence of
inodes and files are counted in chunks, chunk `i` having content `i`, so that
appending twice, truncating under a writer or leaving a gap shows in the content.
Get and Resume may be clicked at any moment, whatever the row shows, since
`start_download` looks at no row and the frontend leaves its buttons enabled; cancel and
pause are offered on rows, as the frontend does. Two history variables serve the
properties: `forgotten`, how the last cancel met the attempt, and `again`, whether a
file was asked for while its row showed something under way (`no`, only by Resume of a
paused row, or `any`).

### ServerLink

Connection `g` has a connector thread (`connecting`, `handed`, `reading`, `done`).
The late end of an old connection is on the bus without a name, as in the code;
the model's `conn` field is not read by any handler. Settings are saved at any time,
and each saved configuration starts a connection beside those that are still being made,
alive or ending. The code breaks its own rules in some of these overlaps; four history
variables name them: `missed`, the connections still being made when a change dropped
the link, whose write half arrives after the drain; `drained`, those whose unused half
the change dropped; `rushed`, those started while an older login was on the bus; `late`,
those announced while an older one was alive.

### DistribTree

Parent connections are those we dial, for session or for an indirect request.
A child has the frames it is still to be sent; its greeting is a snapshot put
there when it registers, as the code takes it with no await in between. Relaying
a search matters only for pruning, so `OnSearch` prunes. The three frames of an
advertisement travel as one message; the code publishes them one by one, and a
login's frames could come in between, which is not modelled.

### ConfigStore

`save_config` is four steps (backup, temporary, rename, and the checks before),
each of which may fail where the code looks at the result; the process may die
between any two, and a file whose writing was cut short is `Torn`. A configuration
has what the callers treat differently: a secret, the refresh token, the rest. A
call copies the api server's configuration at one moment and sends a whole one
later; the answers and the news travel on the bus.

### SearchMatch and SearchAnswers

A file is a number and its path sorts as the number does; a scan is the sequence
of the files it found, ids being positions, so that the order of ids and the order
of paths differ, as they do on a disk. `Respond` composes the two functions of
`search_response.rs`; `IsAnswer` says of the paths themselves what an answer is.
Files that share a virtual path, which two shared folders of one name may have, are
ordered in some way among themselves. A scan finds a file once (`IsScan`), as `walk`
enters no folder twice. Sorting and truncating are written by rank (`InOrder`,
`FirstOf`), so that they can be proved about.
`SearchAnswers` reads index, cap and phrases when a search is taken up, as the
branch of `command_loop` does, and matches later; scans end in any order and may
fail. `TokenSpace` stands for 2^32. A searcher connects for any request, late,
twice or never.

### ApiBridge

A call is a sequence of round trips; between the arrival of a reply and its use
anything may happen. The timeout may strike whenever no reply is there, and the
client may leave at any time, which drops the future and leaves the entry.
`Extract` returns any list or error. A card stands for its track, so that
replacing a card twice, or by a list, is told apart; `givenUp` are the tracks the
user removed or replaced by something else. The cards are a set, since no handler looks at
their order; `Given` are the tracks of the cards that are there at the start.

### TransferRows

What transfers do elsewhere is reduced to attempts that end once, and may end after
a cancel or a pause, as `Downloads` shows they do. The history file is `<<content>>`, or
`<<>>` when there is none or its writing was cut short, which a restart reads alike.
`Kept` is what `retain` or `filter` leaves of a list. `scan_disk_downloads` does not look into folders, and knows
no user names: rows found on the disk are names. A restart lists the saved rows
first, then the disk's in any order, up to the cap. Upload rows are those of
`UploadStarted` and its two ends, with the two ways a start is announced.

### Updater

The check is a thread: asking, fetching, writing, over. `artifacts` is the file a
check leaves beside the executable, which may be part of a release. `self_replace`
is a library; from its use it is modelled as one rename of a copy. A death may come
between that rename and the removal of the artifact.

## 3. The runs

| run | question | instance | result |
|---|---|---|---|
| `uploads` | is any upload lost, started twice, or left beside a free slot? | 2 peers, 2 minted tokens, 2 requests under 2 tokens of the peers' own, 1 of them shared, registry of 2, 1 slot, 1 link loss | holds, 278 000 states |
| `upload_queue` | is there always the right candidate, does it stay right, and is the robin fair? | 3 users, 3 uploads, both modes, unqueued starts | holds, 581 000 states (symmetric) |
| `downloads` | are rows tracked, do cancels stick, and are files whole that were only asked for while idle? | 1 file of 2 chunks, 2 clicks at any moment, 2 offers, 1 cancel or pause waiting at a time, 1 link loss | holds, 3.2 million states |
| `downloads_resume` | is the file also whole after a pause and a Resume? | the same, no link loss | violated |
| `server_link` | do writes, logins and session follow the newest link? | 3 connections, 2 saves at any time, 2 hang-ups | holds, 2.7 million states |
| `distrib_tree` | do children and server follow our position? | 2 parent connections, 2 children, capacity 0 or 1, 2 news, 1 link loss | holds, 3.1 million states |
| `config_store` | is the file whole and do copies and answers agree with it? | 3 calls, 1 login, 1 death | holds, 3.2 million states |
| `config_token` | does a save preserve the refresh token? | the same | violated |
| `search_answers` | does each searcher find the one right answer? | 3 searches, 4 files, 3 configurations, 2 deliveries, 8 tokens | holds, 214 000 states |
| `api_bridge` | does every call get its reply, and does no card or browse get lost? | 2 calls, 1 card that is there, 1 removal or 1 link loss | holds, 604 000 states |
| `transfer_rows` | does what was shown as over survive, and do upload rows end? | lists of 2 rows; 3 downloads of 3 files, 2 of one name, and 1 death; or 4 uploads | holds, 4.4 million states |
| `updater` | is the executable whole and the status true? | 3 releases, 3 messages | holds, 500 000 states |

A violated run states what a comment of the code says and shows that the code does
otherwise; the findings in `PROJECT.json` quote the comment.

### Where a property holds only under a condition

Some properties are stated with the condition under which the code keeps them. It
is part of the property, and this is what happens outside it:

- `QueueLockstep`: but for the uploads whose entry a later one under the same token
  replaced. Those are pending no more and keep their place in the queue book, which
  the property says of them and of nothing else. The comment on eviction says that
  the two books stay in lockstep; a token used twice is what it leaves out.
- `ImplementsLifecycle` and `ApprovedIsDrivenWhileLinked`: the instance keeps the tokens
  peers pick apart from those we mint, as the theorems assume (`DisjointTokens`). A
  downloader that picks a token of ours replaces that entry, approved or not.
- `ApprovedIsDrivenWhileLinked`: also, until the link is lost. What was being resolved
  then is asked for by nobody.
- `SlotsAccounted` counts the streams the gate started. Uploads the downloader
  collects itself bypass the gate.
- `CancelOfRecordedSticks`: for attempts the registry knows when the cancel is
  handled. An earlier cancel is lost and the file is downloaded.
- `PickedStillWaits`: the user of the upload in hand stays without an active one, unless
  that very user started another unqueued meanwhile.
- `SockIsLatest`, `LoginIsFresh`, `SessionMatchesLink`, `LoginCompletes`: settings are saved
  at any time, and the properties name the connections for which an overlap breaks
  them. A connection that was still being made at the change (`missed`) hands its write
  half over afterwards, and from then on is what is written to. A connection started
  while an older login was on the bus (`rushed`) may be sent that login, with the old
  credentials. A connection announced while an older one was alive (`late`) may be logged
  in at the server while the older one's end, or its late announcement, leaves the
  session logged out or waiting.
- `PositionIsToldWhileLinked`: until the link is lost. A parent that outlives it
  leaves the server believing we are a root.
- `FinishedIsWhole` and `OneWriter`: of files that were only asked for while their row
  showed nothing under way, which is when a file is new, failed or complete. Every other
  click is in the model. A pause leaves the stream running, so that a resume adds a
  second writer to its partial (the run `downloads_resume`); a second Get on a row that
  is active does the same at once.
- `ActiveIsTracked`: until the link drops, and while no two uploaders use the same token.
  It holds whatever is clicked, resumed or asked for twice.
- `UploadRowsEnd`: but for the rows whose end overtook their start, which the
  property counts.
- `BrowseIsTracked`: a browse that is with the server when the link is lost is over
  without a word.
- `FinishedSurvives`: but for what is still news, and, while the history is being written
  over in place, for the rows that only the history knows: a death in the middle of a
  save loses those. Rows of finished files in the download folder itself are found
  again at every moment.

### Why the bounds are enough

- `uploads`: a registry of two with four offers makes eviction happen in both
  forms; one slot and four uploads make jobs wait; two tokens of ours can be
  approved by one peer before one answer arrives, and their answers can be told
  apart from those of the other peer. Both peers may pick one same token, and one
  peer may use it twice.
- `upload_queue`: overtaking twice needs a waiter, a rival and two of the rival's
  uploads, which is what three uploads leave; three users allow a privileged one
  beside them. Unqueued starts are bounded by `MaxActive` per user, and by `MaxStamps`.
- `downloads`: two requests make a broken stream, a partial that is resumed, a late
  outcome of a former attempt, and two attempts side by side. With one file, two
  uploaders that pick the same token cannot meet: that hazard is listed and has no
  property yet.
- `config_store`: two overlapping changes are needed for one to undo the other, and
  a third call to be merged from the result; one death reaches every point of a
  save.
- `search_answers`: two deliveries and three searches make the cap bite, and the
  counter starts where it wraps and where it does not. Of the searches one is cut
  by the cap, one excludes a word, one names the end of a word.
- `api_bridge`: two calls that replace the same card, or one call whose browse is
  lost while another user's client asks again. `Scenarios` lists what each call
  may ask for; every combination of the two kinds of call is among them.
- `transfer_rows`: in a list of two rows the third must crowd one out; two files of
  one name meet on the disk. `Courses` has downloads with a death, or uploads:
  the two lists share nothing but the bus. `MaxBus` bounds the waiting messages.
- `updater`: three releases allow an update over an update; three messages let
  settings and requests wait before and behind a finished check.
- `server_link`: three connections that overlap in any way, the last two for saved
  settings, with failures and refusals at every point; of the hang-ups there are two,
  so that one connection at least is the server's to keep.
- `distrib_tree`: two parent connections overlap or follow one another; a child
  whose greeting failed blocks the one slot for the next until it is pruned.
  Something new happens only while fewer than `MaxQueued` messages and commands
  wait, which bounds the two channels. Two children that are fed at the same
  time are not covered by this instance.

Deadlock is checked of `updater`, which always has something to do. In the other
runs it is not: those instances stop when their bounds are used up, and the program
rightly rests when nobody asks for anything.

### Fairness

`Uploads`, `ServerLink` and `ApiBridge` have liveness properties (`ApprovedLeaves`,
`LoginCompletes`, `AnsweredInTime`). The first two assume weak fairness of the command loop and of the bus
worker, which are loops over a queue; of a connector thread, which is an operating
system thread; and of the server's answers, without which nothing can be said.
Nothing is assumed of peers: `copy_exact` has no timeout, so a stream need not
end, and a peer need not answer an offer. `ApiBridge` assumes weak fairness of what
the program itself runs: the forwarding task, the core worker, the extract worker,
whose requests give up after fifteen seconds each, and a call whose reply or timeout
has come. It assumes nothing of the clock: a call is answered without it, whatever
the server, the peers and the link do. The other modules state safety only.

## 4. The proofs

Each proof has one lemma per action, or group of actions, that disturbs the
invariant, a lemma that combines them over `Next`, and theorems that cite it. The
assumptions are the named ones on the constants: `UploadQueueAssumption`,
`UploadsAssumption`, `ConfigAssumption`, `DistribTreeAssumption`, `ServerLinkAssumption`,
`UpdaterAssumption`, `DownloadsAssumption`, `BridgeAssumption`, `RowsAssumption`,
`MatchAssumption` and `AnswersAssumption` (sets are finite or inhabited where the code
needs it, bounds are naturals, the cap is positive; a query is words to include, to
exclude and to end with, and a scan finds a file once). The runs evaluate them. A theorem
that holds under a condition only states it after `ASSUME`: `DisjointTokens`, `DistinctTokens`;
section 3 says what happens outside each.

| theorem | states | argument |
|---|---|---|
| `UploadQueueProofs!TypeCorrect` | `[]TypeOK` | inductive with the next two |
| `WaitingAreStamped`, `StampsStayDistinct` | a stamp exactly for who waits; stamps distinct and issued | the four operations that touch `counters`, one lemma each |
| `CandidateIsUnique` | exactly one candidate while a user waits | stamps distinct, so a finite non-empty set of users has one minimum; `LeastIsLeast` gets the minimum of a set of naturals from the well-foundedness of `<` |
| `CandidateStaysGood`, `StampsAreKept` | the candidate in hand stays good; waiting users keep their stamp | the candidate is the least of its user's queue, to which only larger ids are added, and only an unqueued start makes its user active |
| `RoundRobinIsFair` | while a user waits no equal is picked twice | invariant: whoever overtook once has a larger stamp or is not waiting, unless it is the candidate in hand; a picked user is served and gets a newer stamp |
| `UploadsProofs!TypeCorrect`, `EveryUploadHasOneHome`, `SlotsAreAccounted`, `SlotsAreUsed` | `TypeOK`, `OneHome`, `SlotsAccounted`, `NoIdleSlot` | `IInv` below |
| `QueueKeepsLockstep` | `QueueLockstep`, for any tokens | `LInv` below |
| `AnswersTellTheDisk`, `CopiesStayTogether`, `FileIsNeverTorn` | `AnswerTellsTheDisk`, `CopiesAgree`, `FileStaysWhole` | `IInv` of `CoreWorkerProofs`, below |
| `IndexIsNotOlder` | `IndexNotBehindQuiet` | configurations are taken up in the order they were saved, and every scan that runs is of one no older than the last quiet index |
| `AskedSearchersAreServed` | `AskedHasOneAnswer` | `AnswerInv` of `SearchAnswersProofs`, below |
| `AnswersAreAlwaysRight` | `AnswersAreRight` | `RespondIsAnswer` of the matcher for every query and scan, and `ReadInv`, below |
| `UploadsImplementLifecycle` | `ImplementsLifecycle`, if no peer picks a token that we mint | every action maps to one step of each upload or to a stutter, below |
| `ApprovedUploadsAreDriven` | `ApprovedIsDrivenWhileLinked`, under the same condition | an approved upload has its address request, its answer, its job or its stream |
| `PlacesNeverGrow` | `PlaceNeverGrows`, for any tokens | the rank of an id in a queue only loses predecessors |
| `WritesReachTheLatest`, `LoginsAreFresh`, `SessionsMatchTheirLink`, `NobodyIsLoggedInAlone` | the four invariants of the run `server_link` | `IInv` of `ServerLinkProofs`, below |
| `ExecutableIsARelease`, `StatusTellsTheTruth` | `UpdaterTypes`, in which the executable is a whole release; `StatusIsTrue` | `UpdaterInv` of `CoreWorkerProofs`, below |
| `RecordedCancelsStick` | `CancelOfRecordedSticks`, second clicks and equal tokens included | a cancel that found the attempt recorded found nothing else under way, and only a click starts anything |
| `PartialsHaveOneWriter`, `FinishedFilesAreWhole` | `OneWriter`, `FinishedIsWhole` | `Route` and `Whole` of `DownloadsProofs`, below |
| `ActiveRowsAreTracked` | `ActiveIsTracked`, under `DistinctTokens` | `Kept` of `DownloadsProofs`, below |
| `OneParentIsAsked`, `FedIsAttached`, `PlaceHangsTogether`, `ChildrenAreToldInOrder`, `ServerKnowsPosition` | all five properties of the run `distrib_tree` | `IInv` of `DistribTreeProofs`, below |
| `EntriesAreAlwaysOwed`, `BrowseIsAlwaysTracked`, `CardsAlwaysFollow` | `EntriesAreOwed`, `BrowseIsTracked`, `CardsFollow` | `EntriesInv` and `CardsInv` of `ApiServerProofs`, below |
| `FinishedAlwaysSurvives`, `UploadRowsAlwaysEnd` | `FinishedSurvives`, `UploadRowsEnd` | `RowsInv` of `ApiServerProofs`, below |

`IInv` of `UploadsProofs` adds to the checked invariants that entries of the
registry carry distinct ids below `next_id`, that waiting ids were handed out, and
that `streaming` is finite. They are needed because `OneHome` is stated of ids
that move between a function, a sequence and two sets: an action that moves an id
must know that no other place had it, and a fresh id that no place had it.
`NoIdleSlot` is inductive only together with `SlotsAccounted`: that a pump leaves
no free slot beside a job is arithmetic on `active`, that a release keeps a pump
on its way is a fact about `cmds`. `LInv` adds
`QueueLockstep` itself: registration, eviction, rejection, collection and start each
change book and registry by the same ids, and a registration under a token in use moves
one id from the registry to `replaced`, which is why the two are stated to be disjoint.

`IInv` of `CoreWorkerProofs` says of every save in progress that its request is the
first command and its temporary holds that request's settings once written; that a
call has one command, one answer or none under way, according to its state; that
the state tells whether its settings reached the file; and that the last news on the
bus is of the stored settings (or, with no news, that the api server's copy is the
same). A crash empties all queues at once and keeps each part.

`AnswerInv` of `SearchAnswersProofs` says that a search is in one place only - among
the commands, being matched, or waiting under one token - and that a searcher who
was told a token waits under it, was answered, or made room. That tokens wrap does
no harm, because an answer is added to whatever waits under its token.

`RespondIsAnswer` says that what the matcher computes is an answer, for every query, cap,
set of phrases and scan. `InOrderHolds` and `FirstOfOrder` say what sorting and truncating
a finite set of numbers yield; `ResultListHolds` that the ids left by every word are
those of the files that match, unless a query of one word was cut short, in which case
more ids bear that word than the cap allows; and `FileInfoHolds` what capping before
filtering leaves. That different ids are different files is needed for that case, where
ids are counted and files are meant. `ReadInv` then says that every answer which waits
is `AnswerTo` what was read for it, and that this was the index and the cap of some
configuration. It rests on `IndexInv`: a configuration that is applied or scanned for was
saved.

`IInv` of `DistribTreeProofs` has a part for each property. For the children it says
what the last word on each field will be once the frames under way are written: the
last such frame in the channel or, if there is none, what was heard. Appending a frame
changes the last word on its own field, writing one changes none. For the server it
says the same of the advertisements on the bus: unless an order to advertise waits,
the last one under way is true, or if none is, what the server believes. For
`OneParent` a request is on the bus, or among the commands, or dialed, or read, once
in all. `TypeOK` needs a count: connections and requests under way together never
exceed those asked for, so that a free number is left when one is dialed.

The refinement maps an upload's place to its phase in `UploadLifecycle`, and adds to
`LInv` that tokens of the two origins are used apart (`TokensApart`): offers are under
tokens we minted, tickets for collecting under tokens the downloader chose, and only
offers are approved. It needs `DisjointTokens` too: a ticket under a token of ours
could collect an upload that was approved, which the lifecycle does not allow.
`ApprovedUploadsAreDriven` says of each approved entry what drives it: the command
that asks for the address, the question with session or the server, the answer on the
bus, the command it becomes, the job, the slot or the stream. Each step hands over to
the next, and the loss of the link is the one that does not.

`IInv` of `ServerLinkProofs` allows several live connections. `Counted` says that the changes
on the bus are newer than every connection and in order, so the newest connection is of
the newest configuration handled. `Halves` says that the write half in use, and those that
wait to be taken over, are none that was shut or drained. `Fits` ties credentials to
connections: whatever net_edge may write to, or may still be handed, is the newest
connection with session's own credentials, unless the change missed it, and every login
on the bus is of those, unless it was rushed. `Fresh`, `Alone` and `Told` then follow an
answered login: a connection that was not announced late has no older one beside it, so
nothing on the bus behind the answer speaks of another. `Quiet` orders the ends: after
the last connection's end nothing follows that would raise the session again.

`UpdaterInv` of `CoreWorkerProofs` says that an update is in one place: in the check that is
under way, in its news on the bus, held for the user, or installed; and that the last
status on the bus, or the one shown if there is none, is of that place. The type of the
executable alone is inductive: only a whole artifact is ever put in its place.

`Route` of `DownloadsProofs` says that the request for a file is in one of nine places,
once: asked for on the bus, waiting in session, on the bus again, ordered, being
attempted, pending, negotiated, streaming, told. Each action moves one request one
place along or takes none further (`EveryJourney`, which has a lemma for every action),
so one place stays one place. `OnePlace` claims it of the files that were only asked for
while their row showed nothing under way, and `Unstarted` says why such a click is
harmless: an idle row has nothing under way but clicks, as a row fails or completes when
its outcome is handled, and the outcome was the request's only place. `Withdrawn` says
that a cancel or a pause on the bus is of a row the user has let go, which no such click
follows. A Resume after a pause, whose stream lives, is where `OnePlace` ends;
`downloads_resume` shows what comes of it. One writer follows at once. `Whole` adds what
one writer keeps: every partial is a prefix of the file, and a stream that appends
stands exactly at its end; streams of other files touch other partials. `Kept` says
that a row which is active has its request in one of the places (`Tracked`), however
many attempts there are. No action loses one but a cancel; `Renewed` says that a click
the user made after a cancel is behind it on the bus, and `Overruled` that a cancel among
the commands has what was clicked since behind it, as a command or on its way to become
one. `Unplaced` excludes a row made by a queue position nobody
asked for, `AskedFor` says that session waits for an answer that comes. Tokens matter
because the registry is keyed by the token alone: when two uploaders pick the same one
(`DistinctTokens` fails), the second download takes the first one's entry, whose row
stays active with nothing behind it.

`EntriesInv` of `ApiServerProofs` says that every correlation has one message under way
at the most, among the commands, the requests to the extract worker and the bus; that
a correlation which is entered has one, and one not given out yet has none; and that a
caller that waits without a reply has its entry, and one that gave up takes out no other's.
The reply a caller has is of the kind it asked for, which is why a late answer does no
harm: its correlation is given out once.

`BrowseIsTracked` is inductive beside `EntriesInv`, taken by what carries a browse
(`OnItsWay`): the lookup that waits for the server, the browse task, or a message on the
bus. A question for the address counts only while its user is in `pending_browses`, and
the answer to one question serves every browse of that user; it is the answer that takes
the name out, and the same step puts the next carrier on the bus.

`CardsInv` orders the cards by their tokens. `TokensRise`: a card on display is older than
every event under way, and events are published in the order of their tokens, so that a
search sent for later has a later card. `RemovedIsCovered`: a removal that is on its way,
in the commands or on the bus, is of a card whose track was given up or has a later card,
and stays so, since a later card can only be removed in its turn when it is covered by
another. `ToldIsShown`: a token told to a client has, or had, its card, because its event
stands before the answer on the bus. `ReplacedIsFollowed`: when the answer comes to a call
that replaces a card, either it is an error, and the card stays, or the new card of the
same track came before it. That two calls each remove the card which the other counts on
is what the order of tokens excludes.

`RowsInv` has two parts that do not meet. For downloads, `WrittenHolds`: what is being
written holds every row that is over, and the core worker, which writes it, takes no other
message meanwhile, so no row ends between the copy and the end of the save; and
`Recoverable`: with no save under way, every row that is over is in the saved history, on
the disk or still news. A finished file of the download folder itself is there at every
moment, in the middle of a save too, which is part of the types (`Backed`). A click only
makes rows active or takes them away, which never puts the list ahead of the disk, unless
it is followed by a save. For uploads, `Balanced`: of
each file the active rows, the starts on the bus and the starts still with the reactor are
no more than the ends that are to come - on the bus, or of the streams that run - and the
ends that overtook their start. It must be said of every end segment of the bus and not
of the whole alone, because an end that comes when no row is active is lost, and what
follows it must balance by itself.

Model-checked only: the liveness properties `ApprovedLeaves`, `LoginCompletes` and
`AnsweredInTime` (fairness and `ENABLED` are out of the prover's reach), and what the two
violated runs show. Every invariant, action property and refinement that a run checks is
also a theorem. Where a minimum is needed, of a set or of a length, the proofs use
minimal counterexamples (`WFMin`) or count, since the library's induction schemes take
operators, which the installed provers cannot instantiate. The types of
`Uploads`, `UploadQueue`, `ServerLink`, `Updater` and `Downloads` are proved without a
run listing them. No module uses `RECURSIVE` operators.

## 5. What is not modelled, and the plan

To come, the most important first:

1. `Downloads` with two files: equal tokens of two uploaders, and two tasks that find
   the same unique path before either has created it.
2. Session's fan-out of the server's ConnectToPeer for file connections.
3. The merging of search results into rows in the api server.
4. Pure algorithms against reference definitions: frame splitting, the rolling
   average of the upload speed, folder listings.

Left out for good:

- The generated protobuf and RPC code (`soulrust-proto/generated`). It is about 62 000
  of the repository's 82 000 lines of implementation and has no behaviour over time, so
  the share of all lines that the models stand for is small whatever is modelled.
- The actor and the direct messenger: the program does not use them. The bus it runs on
  is an external crate, and is a FIFO queue in every module.
- The wire codecs (field layouts, covered by round-trip tests), the extractors behind
  the extract worker and the GitHub client (stateless HTTP, whose outcomes are in
  `ApiBridge` and `Updater`), walking directories and reading audio tags.
- The token bucket, whose only subject is time, and the wait for the workers at exit.
- Start-up glue and the frontend.
