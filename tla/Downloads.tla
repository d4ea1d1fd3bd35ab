----------------------------- MODULE Downloads -----------------------------
(***************************************************************************)
(* A download from the click to the finished file: the rows api_server     *)
(* keeps, session's address resolution, peer_net's attempt task, the       *)
(* pending and negotiated registries, and the streams that write partials. *)
(*                                                                         *)
(* Actors: the user, the bus worker (one action per message, all the       *)
(* handlers of its route together), the reactor's command loop and its     *)
(* connection tasks (an action ends at an await another task can use), the *)
(* server, and the uploaders.  Uploaders are honest: one offers a file     *)
(* once for each QueueUpload it got, never reuses a token, connects only   *)
(* for an accepted offer and sends the file's own bytes.                   *)
(*                                                                         *)
(* Files are counted in chunks; chunk i of the file is the number i.       *)
(***************************************************************************)
EXTENDS Naturals, Sequences, FiniteSets, Functions

CONSTANTS
  Files,           \* downloads: (user name, virtual path) pairs
  Uploaders,
  UploaderOf,      \* UploaderOf[k]: whose file k is
  UploaderTokens,  \* tokens each uploader picks from
  Size,            \* chunks of a file
  MaxStarts,       \* bound: MaxStarts[k] clicks on Get or Resume
  MaxStops,        \* bound: cancels and pauses of one file waiting on the bus
  MaxDrops         \* bound: losses of the server link

ASSUME DownloadsAssumption ==
  /\ IsFiniteSet(Files)
  /\ UploaderOf \in [Files -> Uploaders]
  /\ UploaderTokens \in [Uploaders -> SUBSET Nat]
  /\ Size \in Nat \ {0} /\ MaxStarts \in [Files -> Nat] /\ MaxStops \in Nat /\ MaxDrops \in Nat

VARIABLES
  row,        \* api_server's row of each file, "none" when there is none
  starts,     \* clicks on Get or Resume so far
  bus,
  logged_in,
  pending_downloads,  \* session: files to ask for once the address is known
  asked,      \* per uploader, unanswered GetPeerAddress requests
  drops,
  cmds,       \* the reactor's command channel
  dialing,    \* per file, attempts still connecting
  writing,    \* per file, attempts that sent QueueUpload, not yet recorded
  pending,    \* Downloads::pending
  by_token,   \* Downloads::by_token, token -> file
  wanted,     \* per file, QueueUploads the uploader has not acted on
  accepted,   \* <<file, token>>: accepted offers the uploader may connect for
  used,       \* <<uploader, token>>: tokens picked so far
  streams,    \* <<file, token>> -> receive_to_disk in progress
  disk,       \* inode -> chunks
  partial,    \* file -> inode at its incomplete path, 0 if none
  finished,   \* <<file, inode>>: files moved to the download folder
  removed,    \* files whose row the user cancelled or paused
  again,      \* history: files asked for again while an attempt may be alive
  forgotten   \* file -> how the latest cancel since the last click met it

ui       == <<row, starts, removed, again>>
session  == <<logged_in, pending_downloads, asked, drops>>
attempt  == <<dialing, writing>>
remote   == <<wanted, accepted, used>>
storage  == <<disk, partial, finished>>
registry == <<pending, by_token>>
vars     == <<ui, bus, session, cmds, attempt, registry, remote, streams, storage, forgotten>>

Rows == {"none", "active", "paused", "completed", "failed"}
Tokens == UNION Range(UploaderTokens)
Msg(kind, k) == [kind |-> kind, file |-> k]

BusKinds == {"StartDownload", "CancelDownload", "PauseDownload", "PeerDownloadConnect",
             "DownloadComplete", "DownloadFailed", "DownloadQueuePosition"}
CmdKinds == {"Download", "CancelDownload", "QueuePosition"}

Init ==
  /\ row = [k \in Files |-> "none"]
  /\ starts = [k \in Files |-> 0]
  /\ bus = <<>>
  /\ logged_in = TRUE
  /\ pending_downloads = [p \in Uploaders |-> <<>>]
  /\ asked = [p \in Uploaders |-> 0]
  /\ drops = 0
  /\ cmds = <<>>
  /\ dialing = [k \in Files |-> 0]
  /\ writing = [k \in Files |-> 0]
  /\ pending = {}
  /\ by_token = [t \in {} |-> {}]
  /\ wanted = [k \in Files |-> 0]
  /\ accepted = {}
  /\ used = {}
  /\ streams = [s \in {} |-> {}]
  /\ disk = <<>>
  /\ partial = [k \in Files |-> 0]
  /\ finished = {}
  /\ removed = {}
  /\ again = [k \in Files |-> "no"]
  /\ forgotten = [k \in Files |-> "no"]

With(f, x, v) == [y \in DOMAIN f \cup {x} |-> IF y = x THEN v ELSE f[y]]
Without(f, S) == Restrict(f, DOMAIN f \ S)

-----------------------------------------------------------------------------
(* The user, through the api server: a click publishes a bus message. *)

Click(kind, k) ==
  /\ bus' = Append(bus, Msg(kind, k))
  /\ UNCHANGED <<row, session, cmds, attempt, registry, remote, streams, storage>>

Clicks(k) == {Msg(c, k) : c \in {"StartDownload", "CancelDownload", "PauseDownload"}}
Stops(k)  == {i \in DOMAIN bus : bus[i] \in {Msg("CancelDownload", k), Msg("PauseDownload", k)}}

\* No click on k waits on the bus.
Quiet(k) == Clicks(k) \cap Range(bus) = {}

\* The row shows that nothing is under way: k was never asked for, or ended.
Idle(k) == row[k] \in {"completed", "failed"} \/ (row[k] = "none" /\ k \notin removed)

\* Get on a search result or a shared file, or Resume on a row: start_download
\* looks at no row, and the buttons stay live whatever the row shows.  again
\* records a Resume of a paused row ("resume") and every other click on a file
\* that is not idle ("any").
ClickDownload(k) ==
  /\ starts[k] < MaxStarts[k]
  /\ starts' = [starts EXCEPT ![k] = @ + 1]
  /\ removed' = removed \ {k}
  /\ again' = [again EXCEPT ![k] = IF Quiet(k) /\ Idle(k) THEN @
                                  ELSE IF Quiet(k) /\ row[k] = "paused" /\ @ # "any"
                                       THEN "resume"
                                  ELSE "any"]
  /\ forgotten' = [forgotten EXCEPT ![k] = "no"]
  /\ Click("StartDownload", k)

ClickCancel(k) ==
  /\ row[k] # "none" /\ Cardinality(Stops(k)) < MaxStops
  /\ removed' = removed \cup {k}
  /\ Click("CancelDownload", k)
  /\ UNCHANGED <<starts, again, forgotten>>

ClickPause(k) ==
  /\ row[k] = "active" /\ Cardinality(Stops(k)) < MaxStops
  /\ removed' = removed \cup {k}
  /\ Click("PauseDownload", k)
  /\ UNCHANGED <<starts, again, forgotten>>

-----------------------------------------------------------------------------
(* The bus. *)

Handled(kind) == bus # <<>> /\ Head(bus).kind = kind

SetRow(k, state) == row' = [row EXCEPT ![k] = state]

\* session asks for the address, or fails the download; api_server shows it
\* queued (the failure, if any, is still behind on the bus).
BusStartDownload ==
  /\ Handled("StartDownload")
  /\ LET k == Head(bus).file
         p == UploaderOf[k]
     IN  /\ SetRow(k, "active")
         /\ \/ /\ logged_in
               /\ asked' = [asked EXCEPT ![p] = @ + 1]
               /\ pending_downloads' = [pending_downloads EXCEPT ![p] = Append(@, k)]
               /\ bus' = Tail(bus)
            \/ /\ ~logged_in
               /\ bus' = Append(Tail(bus), Msg("DownloadFailed", k))
               /\ UNCHANGED <<asked, pending_downloads>>
  /\ UNCHANGED <<starts, removed, again, logged_in, drops, cmds, attempt, registry, remote,
                 streams, storage, forgotten>>

\* peer_net forwards a cancel; api_server removes the row.  A pause is the same
\* to peer_net and keeps the row.
BusCancelOrPause ==
  /\ bus # <<>> /\ Head(bus).kind \in {"CancelDownload", "PauseDownload"}
  /\ bus' = Tail(bus)
  /\ cmds' = Append(cmds, Msg("CancelDownload", Head(bus).file))
  /\ SetRow(Head(bus).file, IF Head(bus).kind = "PauseDownload" THEN "paused" ELSE "none")
  /\ UNCHANGED <<starts, removed, again, session, attempt, registry, remote, streams, storage,
                 forgotten>>

BusPeerDownloadConnect ==
  /\ Handled("PeerDownloadConnect")
  /\ bus' = Tail(bus)
  /\ cmds' = Append(cmds, Msg("Download", Head(bus).file))
  /\ UNCHANGED <<ui, session, attempt, registry, remote, streams, storage, forgotten>>

\* The outcome sets the row, and makes one if there is none.
BusOutcome ==
  /\ bus # <<>> /\ Head(bus).kind \in {"DownloadComplete", "DownloadFailed"}
  /\ bus' = Tail(bus)
  /\ SetRow(Head(bus).file,
            IF Head(bus).kind = "DownloadComplete" THEN "completed" ELSE "failed")
  /\ UNCHANGED <<starts, removed, again, session, cmds, attempt, registry, remote, streams,
                 storage, forgotten>>

BusDownloadQueuePosition ==
  /\ Handled("DownloadQueuePosition")
  /\ bus' = Tail(bus)
  /\ LET k == Head(bus).file
     IN  row' = IF row[k] \in {"none", "active"} THEN [row EXCEPT ![k] = "active"] ELSE row
  /\ UNCHANGED <<starts, removed, again, session, cmds, attempt, registry, remote, streams,
                 storage, forgotten>>

-----------------------------------------------------------------------------
(* The server. *)

\* The address answer drains everything session waits to ask of that user.
GetPeerAddress(p, online) ==
  /\ logged_in /\ asked[p] > 0
  /\ asked' = [asked EXCEPT ![p] = @ - 1]
  /\ pending_downloads' = [pending_downloads EXCEPT ![p] = <<>>]
  /\ bus' = bus \o [i \in DOMAIN pending_downloads[p] |->
                      Msg(IF online THEN "PeerDownloadConnect" ELSE "DownloadFailed",
                          pending_downloads[p][i])]
  /\ UNCHANGED <<ui, logged_in, drops, cmds, attempt, registry, remote, streams, storage,
                 forgotten>>

NetConnClosed ==
  /\ logged_in /\ drops < MaxDrops
  /\ logged_in' = FALSE
  /\ asked' = [p \in Uploaders |-> 0]
  /\ drops' = drops + 1
  /\ UNCHANGED <<ui, bus, pending_downloads, cmds, attempt, registry, remote, streams,
                 storage, forgotten>>

LoginResponse ==
  /\ ~logged_in
  /\ logged_in' = TRUE
  /\ UNCHANGED <<ui, bus, pending_downloads, asked, drops, cmds, attempt, registry, remote,
                 streams, storage, forgotten>>

-----------------------------------------------------------------------------
(* The command loop. *)

NextCmd(kind) == cmds # <<>> /\ Head(cmds).kind = kind /\ cmds' = Tail(cmds)

CmdDownload ==
  /\ NextCmd("Download")
  /\ dialing' = [dialing EXCEPT ![Head(cmds).file] = @ + 1]
  /\ UNCHANGED <<ui, bus, session, writing, registry, remote, streams, storage, forgotten>>

\* Is an attempt at k somewhere before peer_net's registry?
OnItsWay(k) ==
  \/ \E kind \in {"StartDownload", "PeerDownloadConnect"} : Msg(kind, k) \in Range(bus)
  \/ k \in Range(pending_downloads[UploaderOf[k]])
  \/ Msg("Download", k) \in Range(cmds)
  \/ dialing[k] + writing[k] > 0

Forget(k) ==
  forgotten' = [forgotten EXCEPT ![k] = IF OnItsWay(k) THEN "underway" ELSE "recorded"]

\* Faulty: the negotiated token stays.
CmdCancelPendingOnly ==
  /\ NextCmd("CancelDownload")
  /\ pending' = pending \ {Head(cmds).file}
  /\ Forget(Head(cmds).file)
  /\ UNCHANGED <<ui, bus, session, attempt, by_token, remote, streams, storage>>

\* Forget the request and its negotiated tokens; a live stream goes on.
CmdCancelDownload ==
  /\ NextCmd("CancelDownload")
  /\ LET k == Head(cmds).file
     IN  /\ pending' = pending \ {k}
         /\ by_token' = Without(by_token, {t \in DOMAIN by_token : by_token[t] = k})
         /\ Forget(k)
  /\ UNCHANGED <<ui, bus, session, attempt, remote, streams, storage>>

CmdQueuePosition ==
  /\ NextCmd("QueuePosition")
  /\ bus' = Append(bus, Msg("DownloadQueuePosition", Head(cmds).file))
  /\ UNCHANGED <<ui, session, attempt, registry, remote, streams, storage, forgotten>>

-----------------------------------------------------------------------------
(* download_init_task. *)

DialFails(k) ==
  /\ dialing[k] > 0
  /\ dialing' = [dialing EXCEPT ![k] = @ - 1]
  /\ bus' = Append(bus, Msg("DownloadFailed", k))
  /\ UNCHANGED <<ui, session, cmds, writing, registry, remote, streams, storage, forgotten>>

\* Connected; QueueUpload is on the wire before anything is recorded.
SendQueueUpload(k) ==
  /\ dialing[k] > 0
  /\ dialing' = [dialing EXCEPT ![k] = @ - 1]
  /\ writing' = [writing EXCEPT ![k] = @ + 1]
  /\ wanted' = [wanted EXCEPT ![k] = @ + 1]
  /\ UNCHANGED <<ui, bus, session, cmds, registry, accepted, used, streams, storage,
                 forgotten>>

QueueingFails(k) ==
  /\ writing[k] > 0
  /\ writing' = [writing EXCEPT ![k] = @ - 1]
  /\ bus' = Append(bus, Msg("DownloadFailed", k))
  /\ UNCHANGED <<ui, session, cmds, dialing, registry, remote, streams, storage, forgotten>>

RecordPending(k) ==
  /\ writing[k] > 0
  /\ writing' = [writing EXCEPT ![k] = @ - 1]
  /\ pending' = pending \cup {k}
  /\ UNCHANGED <<ui, bus, session, cmds, dialing, by_token, remote, streams, storage,
                 forgotten>>

-----------------------------------------------------------------------------
(* What uploaders send us, on any connection. *)

\* Faulty: an accepted offer leaves the file pending.
AcceptKeepingPending(k, tok) ==
  /\ wanted[k] > 0
  /\ tok \in UploaderTokens[UploaderOf[k]] /\ <<UploaderOf[k], tok>> \notin used
  /\ used' = used \cup {<<UploaderOf[k], tok>>}
  /\ wanted' = [wanted EXCEPT ![k] = @ - 1]
  /\ by_token' = IF k \in pending THEN With(by_token, tok, k) ELSE by_token
  /\ accepted' = IF k \in pending THEN accepted \cup {<<k, tok>>} ELSE accepted
  /\ UNCHANGED <<ui, bus, session, cmds, attempt, pending, streams, storage, forgotten>>

\* TransferRequest{Upload}: accepted iff the file is pending, and then recorded
\* under the uploader's token.  Declined offers are not made again.
OnTransferRequestUpload(k, tok) ==
  /\ wanted[k] > 0
  /\ tok \in UploaderTokens[UploaderOf[k]] /\ <<UploaderOf[k], tok>> \notin used
  /\ used' = used \cup {<<UploaderOf[k], tok>>}
  /\ wanted' = [wanted EXCEPT ![k] = @ - 1]
  /\ \/ /\ k \in pending
        /\ pending' = pending \ {k}
        /\ by_token' = With(by_token, tok, k)
        /\ accepted' = accepted \cup {<<k, tok>>}
     \/ /\ k \notin pending
        /\ UNCHANGED <<registry, accepted>>
  /\ UNCHANGED <<ui, bus, session, cmds, attempt, streams, storage, forgotten>>

\* Faulty: the refusal is not reported.
RefusedSilently(k) ==
  /\ wanted[k] > 0
  /\ wanted' = [wanted EXCEPT ![k] = @ - 1]
  /\ pending' = pending \ {k}
  /\ UNCHANGED <<ui, bus, session, cmds, attempt, by_token, accepted, used, streams,
                 storage, forgotten>>

\* UploadDenied (for a reason other than "Queued") or UploadFailed.
OnRefused(k) ==
  /\ wanted[k] > 0
  /\ wanted' = [wanted EXCEPT ![k] = @ - 1]
  /\ pending' = pending \ {k}
  /\ bus' = IF k \in pending THEN Append(bus, Msg("DownloadFailed", k)) ELSE bus
  /\ UNCHANGED <<ui, session, cmds, attempt, by_token, accepted, used, streams, storage,
                 forgotten>>

\* PlaceInQueueResponse, at most one on its way per file.
OnPlaceInQueueResponse(k) ==
  /\ wanted[k] > 0
  /\ Msg("QueuePosition", k) \notin Range(cmds)
  /\ Msg("DownloadQueuePosition", k) \notin Range(bus)
  /\ cmds' = Append(cmds, Msg("QueuePosition", k))
  /\ UNCHANGED <<ui, bus, session, attempt, registry, remote, streams, storage, forgotten>>

-----------------------------------------------------------------------------
(* recv_file and receive_to_disk. *)

OnDisk(k) == IF partial[k] = 0 THEN 0 ELSE Len(disk[partial[k]])

Negotiated(p, tok) == tok \in DOMAIN by_token /\ UploaderOf[by_token[tok]] = p

\* The uploader connects: token and user name must match a negotiated download;
\* then the resume point is what the partial already holds.
RecvFile(k, tok) ==
  /\ <<k, tok>> \in accepted
  /\ accepted' = accepted \ {<<k, tok>>}
  /\ \/ /\ Negotiated(UploaderOf[k], tok)
        /\ by_token' = Without(by_token, {tok})
        /\ LET f      == by_token[tok]
               offset == IF OnDisk(f) < Size THEN OnDisk(f) ELSE 0
           IN  streams' = With(streams, <<f, tok>>,
                               [offset |-> offset, got |-> offset, inode |-> 0])
     \/ /\ ~Negotiated(UploaderOf[k], tok)
        /\ UNCHANGED <<by_token, streams>>
  /\ UNCHANGED <<ui, bus, session, cmds, attempt, pending, wanted, used, storage, forgotten>>

\* Faulty: a partial that is kept is opened like a fresh one.
OpenTruncating(k, tok) ==
  /\ <<k, tok>> \in DOMAIN streams /\ streams[<<k, tok>>].inode = 0
  /\ LET i == IF partial[k] = 0 THEN Len(disk) + 1 ELSE partial[k]
     IN  /\ partial' = [partial EXCEPT ![k] = i]
         /\ streams' = [streams EXCEPT ![<<k, tok>>].inode = i]
         /\ disk' = IF partial[k] = 0 THEN Append(disk, <<>>) ELSE [disk EXCEPT ![i] = <<>>]
  /\ UNCHANGED <<ui, bus, session, cmds, attempt, registry, remote, finished, forgotten>>

\* Open the partial: append when resuming, create or truncate otherwise.
OpenPartial(k, tok) ==
  /\ <<k, tok>> \in DOMAIN streams /\ streams[<<k, tok>>].inode = 0
  /\ LET i == IF partial[k] = 0 THEN Len(disk) + 1 ELSE partial[k]
     IN  /\ partial' = [partial EXCEPT ![k] = i]
         /\ streams' = [streams EXCEPT ![<<k, tok>>].inode = i]
         /\ disk' = IF partial[k] = 0 THEN Append(disk, <<>>)
                    ELSE IF streams[<<k, tok>>].offset = 0 THEN [disk EXCEPT ![i] = <<>>]
                    ELSE disk
  /\ UNCHANGED <<ui, bus, session, cmds, attempt, registry, remote, finished, forgotten>>

\* Write chunk at position at; a gap before it reads as zeroes.
WriteAt(chunks, at, chunk) ==
  [i \in 1 .. (IF Len(chunks) >= at THEN Len(chunks) ELSE at) |->
     IF i = at THEN chunk ELSE IF i <= Len(chunks) THEN chunks[i] ELSE 0]

\* The next chunk: at the end of the file when appending, else at the stream's
\* own position.
Receive(k, tok) ==
  /\ <<k, tok>> \in DOMAIN streams
  /\ LET s == streams[<<k, tok>>]
     IN  /\ s.inode # 0 /\ s.got < Size
         /\ streams' = [streams EXCEPT ![<<k, tok>>].got = @ + 1]
         /\ disk' = [disk EXCEPT ![s.inode] =
                       IF s.offset > 0 THEN Append(@, s.got + 1)
                       ELSE WriteAt(@, s.got + 1, s.got + 1)]
  /\ UNCHANGED <<ui, bus, session, cmds, attempt, registry, remote, partial, finished,
                 forgotten>>

\* The stream breaks: what was written stays.
StreamFails(k, tok) ==
  /\ <<k, tok>> \in DOMAIN streams
  /\ streams' = Without(streams, {<<k, tok>>})
  /\ bus' = Append(bus, Msg("DownloadFailed", k))
  /\ UNCHANGED <<ui, session, cmds, attempt, registry, remote, storage, forgotten>>

\* All bytes are in: move whatever is at the partial's path into place.
StreamDone(k, tok) ==
  /\ <<k, tok>> \in DOMAIN streams
  /\ streams[<<k, tok>>].inode # 0 /\ streams[<<k, tok>>].got = Size
  /\ streams' = Without(streams, {<<k, tok>>})
  /\ \/ /\ partial[k] # 0
        /\ finished' = finished \cup {<<k, partial[k]>>}
        /\ partial' = [partial EXCEPT ![k] = 0]
        /\ bus' = Append(bus, Msg("DownloadComplete", k))
     \/ /\ partial[k] = 0
        /\ bus' = Append(bus, Msg("DownloadFailed", k))
        /\ UNCHANGED <<finished, partial>>
  /\ UNCHANGED <<ui, session, cmds, attempt, registry, remote, disk, forgotten>>

-----------------------------------------------------------------------------
User == \E k \in Files : ClickDownload(k) \/ ClickCancel(k) \/ ClickPause(k)

BusWorker == \/ BusStartDownload \/ BusCancelOrPause \/ BusPeerDownloadConnect
             \/ BusOutcome \/ BusDownloadQueuePosition

Server == \/ \E p \in Uploaders, online \in BOOLEAN : GetPeerAddress(p, online)
          \/ NetConnClosed \/ LoginResponse

CommandLoop == CmdDownload \/ CmdCancelDownload \/ CmdQueuePosition

Attempt(k) == DialFails(k) \/ SendQueueUpload(k) \/ QueueingFails(k) \/ RecordPending(k)

FromUploader(k) == OnRefused(k) \/ OnPlaceInQueueResponse(k)

FromUploaderUnder(k, tok) == OnTransferRequestUpload(k, tok) \/ RecvFile(k, tok)

Stream(k, tok) ==
  OpenPartial(k, tok) \/ Receive(k, tok) \/ StreamFails(k, tok) \/ StreamDone(k, tok)

Next ==
  \/ User \/ BusWorker \/ Server \/ CommandLoop
  \/ \E k \in Files : Attempt(k) \/ FromUploader(k)
  \/ \E k \in Files, tok \in Tokens : FromUploaderUnder(k, tok) \/ Stream(k, tok)

Spec == Init /\ [][Next]_vars

-----------------------------------------------------------------------------
IsWhole(f) == disk[f[2]] = [i \in 1..Size |-> i]

\* A file moved to the download folder is the file, whole and in order,
\* whatever failures and resumes went before ("a re-queued download picks up
\* exactly where a previous attempt left off"), if it was only ever asked for
\* while its row showed nothing under way.
FinishedIsWhole == \A f \in finished : again[f[1]] = "no" => IsWhole(f)

\* The same also for files that were paused and resumed.
ResumedIsWhole == \A f \in finished : again[f[1]] # "any" => IsWhole(f)

\* At most one stream writes the partial of a file that was only ever asked for
\* while its row showed nothing under way.
OneWriter == \A s, t \in DOMAIN streams : s[1] = t[1] /\ again[s[1]] = "no" => s = t

\* A row the user left alone does not stay active with nothing behind it: the
\* request, the attempt, the negotiated offer, the stream or its outcome is
\* somewhere in the client, as long as the server link has not dropped.
ActiveIsTracked ==
  \A k \in Files : drops = 0 /\ row[k] = "active" /\ k \notin removed =>
    \/ OnItsWay(k) /\ (k \in Range(pending_downloads[UploaderOf[k]]) => asked[UploaderOf[k]] > 0)
    \/ k \in pending \cup Range(by_token)
    \/ \E s \in DOMAIN streams : s[1] = k
    \/ \E kind \in {"DownloadComplete", "DownloadFailed"} : Msg(kind, k) \in Range(bus)

StreamsOf(k) == {s \in DOMAIN streams : s[1] = k}

\* Once the reactor has handled a cancel (or a pause) that found the attempt
\* recorded in the registry, no new stream of the file starts until the user asks
\* for it again ("Drop a pending/active download so it is no longer accepted or
\* continued").  A cancel that comes before the attempt is recorded is lost.
CancelOfRecordedSticks ==
  [][\A k \in Files : forgotten[k] = "recorded" => StreamsOf(k)' \subseteq StreamsOf(k)]_vars
=============================================================================
