------------------------------ MODULE Uploads ------------------------------
(***************************************************************************)
(* The upload side of peer_net: how a file a peer asks for goes from a     *)
(* pending offer, through the peer's verdict and the resolution of its     *)
(* address, to the slot gate and a stream.                                 *)
(*                                                                         *)
(* Actors: the connection tasks of the reactor (QueueUpload ... FinishServe*)
(* FinishUpload), the reactor's command loop (the Cmd... actions, one per  *)
(* command, FIFO), the bus worker that runs the handlers of session and    *)
(* peer_net (the Bus... actions, FIFO), and the server.  The reactor is    *)
(* single threaded, so what a task does between two awaits is one action.  *)
(*                                                                         *)
(* Peers are honest: one answers only the offers it was made and collects  *)
(* only what it asked for.  An upload is named by its id in the            *)
(* UploadQueue, file names and sizes are left out, and so are the events   *)
(* that only feed the user interface.                                      *)
(***************************************************************************)
EXTENDS Naturals, Sequences, FiniteSets, Functions

CONSTANTS
  Peers,                  \* user names
  PeerTokens,             \* PeerTokens[p]: tokens p picks for its own requests
  FirstToken,             \* next_token's initial value (1 in the code)
  MaxOffers,              \* bound: offers we mint a token for
  MaxRequests,            \* bound: requests under tokens of the peers' own
  MAX_PENDING_TRANSFERS,  \* cap on the registry
  Slots,                  \* configured upload slots, 0 = unlimited
  MaxDrops                \* bound: losses of the server link

ASSUME UploadsAssumption ==
  /\ PeerTokens \in [Peers -> SUBSET Nat]
  /\ IsFiniteSet(Peers)
  /\ FirstToken \in Nat /\ MaxOffers \in Nat /\ MaxRequests \in Nat
  /\ Slots \in Nat /\ MaxDrops \in Nat
  /\ MAX_PENDING_TRANSFERS \in Nat \ {0}

VARIABLES
  by_token,    \* Uploads::by_token, token -> pending upload
  next_token,  \* ConnCtx::next_token
  next_id,     \* UploadQueue::usernames.len()
  queued,      \* ids in UploadQueue::queued_users
  waiting,     \* UploadGate::waiting, ids of the jobs
  active,      \* UploadGate::active
  streaming,   \* ids with a live upload_task
  serving,     \* ids streaming on a connection the downloader opened
  cmds,        \* the reactor's command channel
  bus,         \* messages published and not yet handled
  logged_in,   \* Session::state = LoggedIn
  pending_upload_resolves,  \* Session's field of that name
  asked,       \* GetPeerAddress requests the server has not answered, per peer
  offers,      \* <<peer, token>>: offers the peer may still answer
  tickets,     \* <<peer, token>>: accepted requests the peer may still collect
  requests,    \* requests under the peers' own tokens so far
  replaced,    \* history: ids whose entry a later upload under its token replaced
  drops        \* link losses so far

registry == <<by_token, next_token, next_id, queued, replaced>>
gate     == <<waiting, active, streaming>>
session  == <<logged_in, pending_upload_resolves, asked, drops>>
remote   == <<offers, tickets, requests>>
vars     == <<registry, gate, serving, cmds, bus, session, remote>>

Tokens == (FirstToken .. FirstToken + MaxOffers - 1) \cup UNION Range(PeerTokens)

Pending == [username : Peers, approved : BOOLEAN, transfer_id : Nat]
Command == [kind : {"StartUpload"}, username : Peers]
             \cup [kind : {"UploadConnect"}, username : Peers, online : BOOLEAN]
             \cup [kind : {"PumpUploads"}]
BusMessage == [kind : {"ResolveUploadPeer"}, username : Peers]
                \cup [kind : {"PeerUploadConnect"}, username : Peers, online : BOOLEAN]

StartUpload(p)          == [kind |-> "StartUpload", username |-> p]
UploadConnect(p, on)    == [kind |-> "UploadConnect", username |-> p, online |-> on]
PumpUploads             == [kind |-> "PumpUploads"]
ResolveUploadPeer(p)    == [kind |-> "ResolveUploadPeer", username |-> p]
PeerUploadConnect(p, on) ==
  [kind |-> "PeerUploadConnect", username |-> p, online |-> on]

Init ==
  /\ by_token = [t \in {} |-> {}]
  /\ next_token = FirstToken
  /\ next_id = 0
  /\ queued = {}
  /\ waiting = <<>>
  /\ active = 0
  /\ streaming = {}
  /\ serving = {}
  /\ cmds = <<>>
  /\ bus = <<>>
  /\ logged_in = TRUE
  /\ pending_upload_resolves = {}
  /\ asked = [p \in Peers |-> 0]
  /\ offers = {}
  /\ tickets = {}
  /\ requests = 0
  /\ replaced = {}
  /\ drops = 0

-----------------------------------------------------------------------------
(* The registry of pending uploads. *)

Registered == DOMAIN by_token

\* HashMap::insert: an entry already under the token is replaced.
With(reg, tok, up) ==
  [t \in DOMAIN reg \cup {tok} |-> IF t = tok THEN up ELSE reg[t]]

Without(reg, toks) == Restrict(reg, DOMAIN reg \ toks)

IdsOf(reg, toks) == {reg[t].transfer_id : t \in toks}

\* The tokens the eviction loop removes: the lowest ones, until the cap holds.
Overflow(reg) ==
  {t \in DOMAIN reg :
     Cardinality({u \in DOMAIN reg : u >= t}) > MAX_PENDING_TRANSFERS}

Offer(p) == [username |-> p, approved |-> FALSE, transfer_id |-> next_id]

\* Enqueue p's upload, insert it under tok and evict the tokens of gone.  The
\* slot of an entry the insertion replaces is not given back.
Register(p, tok, gone) ==
  LET grown == With(by_token, tok, Offer(p))
  IN  /\ by_token' = Without(grown, gone)
      /\ queued' = (queued \cup {next_id}) \ IdsOf(grown, gone)
      /\ next_id' = next_id + 1
      /\ replaced' = replaced \cup IdsOf(by_token, {tok} \cap Registered)

\* Faulty: the entry goes, its queue slot stays.
DropKeepingSlot(toks) ==
  /\ by_token' = Without(by_token, toks)
  /\ UNCHANGED queued

\* Faulty: the queue slot goes, the entry stays.
DropKeepingEntry(toks) ==
  /\ queued' = queued \ IdsOf(by_token, toks)
  /\ UNCHANGED by_token

\* Remove the uploads under toks together with their queue slots.
Drop(toks) ==
  /\ by_token' = Without(by_token, toks)
  /\ queued' = queued \ IdsOf(by_token, toks)

\* Faulty: counts the uploads queued after this one.
PlaceFromBack(id) ==
  IF id \in queued THEN Cardinality({i \in queued : i > id}) + 1 ELSE 0

PlaceInQueue(id) ==
  IF id \in queued THEN Cardinality({i \in queued : i < id}) + 1 ELSE 0

-----------------------------------------------------------------------------
(* The slot gate. *)

\* Faulty: one more than the slots.
ClaimableAtCap(n, busy) ==
  IF Slots = 0 \/ n + busy <= Slots THEN n
  ELSE IF busy <= Slots THEN Slots + 1 - busy ELSE 0

\* How many of n waiting jobs pump_uploads starts while busy slots are taken.
Claimable(n, busy) ==
  IF Slots = 0 \/ n + busy <= Slots THEN n
  ELSE IF busy < Slots THEN Slots - busy ELSE 0

\* pump_uploads: claim waiting jobs from the front while a slot is free.
Pump(jobs) ==
  LET n == Claimable(Len(jobs), active)
  IN  /\ waiting' = SubSeq(jobs, n + 1, Len(jobs))
      /\ streaming' = streaming \cup {jobs[i] : i \in 1..n}
      /\ active' = active + n

-----------------------------------------------------------------------------
(* Peer connections: negotiation. *)

\* A peer asks for a shared file; we mint a token and send the offer.  (An offer
\* whose write fails is one the peer never answers.)
OnQueueUpload(p) ==
  /\ next_token < FirstToken + MaxOffers
  /\ Register(p, next_token, Overflow(With(by_token, next_token, Offer(p))))
  /\ next_token' = next_token + 1
  /\ offers' = offers \cup {<<p, next_token>>}
  /\ UNCHANGED <<gate, serving, cmds, bus, session, tickets, requests>>

\* A peer asks with a TransferRequest{Download}: registered under the peer's
\* own token, which it or another peer may have used before; eviction stops at
\* that token.
OnTransferRequestDownload(p, tok) ==
  /\ tok \in PeerTokens[p] /\ requests < MaxRequests
  /\ Register(p, tok, {t \in Overflow(With(by_token, tok, Offer(p))) : t < tok})
  /\ requests' = requests + 1
  /\ tickets' = tickets \cup {<<p, tok>>}
  /\ UNCHANGED <<next_token, gate, serving, cmds, bus, session, offers>>

\* The verdict on an offer.  One whose entry is gone is ignored.
OnTransferResponse(p, tok, allowed) ==
  /\ <<p, tok>> \in offers
  /\ offers' = offers \ {<<p, tok>>}
  /\ \/ /\ tok \in Registered /\ allowed
        /\ by_token' = [by_token EXCEPT ![tok].approved = TRUE]
        /\ cmds' = Append(cmds, StartUpload(p))
        /\ UNCHANGED queued
     \/ /\ tok \in Registered /\ ~allowed
        /\ Drop({tok})
        /\ UNCHANGED cmds
     \/ /\ tok \notin Registered
        /\ UNCHANGED <<by_token, queued, cmds>>
  /\ UNCHANGED <<next_token, next_id, replaced, gate, serving, bus, session, tickets,
                 requests>>

Collectable(p, tok) == tok \in Registered /\ by_token[tok].username = p

\* The peer opens the F connection itself (or we pierce to it): recv_file
\* matches token and user name and serves the file there, without the gate.
RecvFile(p, tok) ==
  /\ <<p, tok>> \in tickets
  /\ tickets' = tickets \ {<<p, tok>>}
  /\ \/ /\ Collectable(p, tok)
        /\ Drop({tok})
        /\ serving' = serving \cup {by_token[tok].transfer_id}
     \/ /\ ~Collectable(p, tok)
        /\ UNCHANGED <<by_token, queued, serving>>
  /\ UNCHANGED <<next_token, next_id, replaced, gate, cmds, bus, session, offers,
                 requests>>

\* serve_upload returns, having sent the file or failed.
FinishServe(id) ==
  /\ id \in serving
  /\ serving' = serving \ {id}
  /\ UNCHANGED <<registry, gate, cmds, bus, session, remote>>

\* Faulty: the slot is released and nobody pumps.
FinishUploadSilently(id) ==
  /\ id \in streaming
  /\ streaming' = streaming \ {id}
  /\ active' = active - 1
  /\ UNCHANGED <<registry, waiting, serving, cmds, bus, session, remote>>

\* upload_task ends: it releases its slot and asks for a pump.
FinishUpload(id) ==
  /\ id \in streaming
  /\ streaming' = streaming \ {id}
  /\ active' = active - 1
  /\ cmds' = Append(cmds, PumpUploads)
  /\ UNCHANGED <<registry, waiting, serving, bus, session, remote>>

-----------------------------------------------------------------------------
(* The command loop. *)

NextCmd(kind) == cmds # <<>> /\ Head(cmds).kind = kind /\ cmds' = Tail(cmds)

CmdStartUpload ==
  /\ NextCmd("StartUpload")
  /\ bus' = Append(bus, ResolveUploadPeer(Head(cmds).username))
  /\ UNCHANGED <<registry, gate, serving, session, remote>>

\* Faulty: one upload per address answer.
ApprovedFirst(p) ==
  LET ready == {t \in Registered : by_token[t].username = p /\ by_token[t].approved}
  IN  {t \in ready : \A u \in ready : t <= u}

Approved(p) == {t \in Registered : by_token[t].username = p /\ by_token[t].approved}

\* Every approved upload of the peer leaves the registry, in the hash map's
\* order: it fails when the peer is offline, else it joins the gate's queue.
CmdUploadConnect ==
  /\ NextCmd("UploadConnect")
  /\ LET ready == Approved(Head(cmds).username)
     IN  /\ Drop(ready)
         /\ \/ /\ Head(cmds).online
               /\ \E order \in Bijection(1..Cardinality(ready), ready) :
                    Pump(waiting \o
                           [i \in 1..Cardinality(ready) |-> by_token[order[i]].transfer_id])
            \/ /\ ~Head(cmds).online
               /\ Pump(waiting)
  /\ UNCHANGED <<next_token, next_id, replaced, serving, bus, session, remote>>

CmdPumpUploads ==
  /\ NextCmd("PumpUploads")
  /\ Pump(waiting)
  /\ UNCHANGED <<registry, serving, bus, session, remote>>

-----------------------------------------------------------------------------
(* The bus: session, and peer_net's forwarding handler. *)

NextMessage(kind) == bus # <<>> /\ Head(bus).kind = kind

\* Session asks the server for the address, unless it is not logged in.
BusResolveUploadPeer ==
  /\ NextMessage("ResolveUploadPeer")
  /\ bus' = Tail(bus)
  /\ LET p == Head(bus).username
     IN  \/ /\ logged_in
            /\ pending_upload_resolves' = pending_upload_resolves \cup {p}
            /\ asked' = [asked EXCEPT ![p] = @ + 1]
         \/ /\ ~logged_in
            /\ UNCHANGED <<pending_upload_resolves, asked>>
  /\ UNCHANGED <<registry, gate, serving, cmds, logged_in, drops, remote>>

BusPeerUploadConnect ==
  /\ NextMessage("PeerUploadConnect")
  /\ bus' = Tail(bus)
  /\ cmds' = Append(cmds, UploadConnect(Head(bus).username, Head(bus).online))
  /\ UNCHANGED <<registry, gate, serving, session, remote>>

\* Faulty: an offline answer is not passed on.
GetPeerAddressOnline(p, online) ==
  /\ logged_in /\ asked[p] > 0
  /\ asked' = [asked EXCEPT ![p] = @ - 1]
  /\ pending_upload_resolves' = pending_upload_resolves \ {p}
  /\ bus' = IF p \in pending_upload_resolves /\ online
            THEN Append(bus, PeerUploadConnect(p, online)) ELSE bus
  /\ UNCHANGED <<registry, gate, serving, cmds, logged_in, drops, remote>>

\* The server's GetPeerAddress answer reaches session.
GetPeerAddress(p, online) ==
  /\ logged_in /\ asked[p] > 0
  /\ asked' = [asked EXCEPT ![p] = @ - 1]
  /\ pending_upload_resolves' = pending_upload_resolves \ {p}
  /\ bus' = IF p \in pending_upload_resolves
            THEN Append(bus, PeerUploadConnect(p, online)) ELSE bus
  /\ UNCHANGED <<registry, gate, serving, cmds, logged_in, drops, remote>>

\* The link to the server goes down: the answers under way are lost, the
\* pending resolves stay.
NetConnClosed ==
  /\ logged_in /\ drops < MaxDrops
  /\ logged_in' = FALSE
  /\ asked' = [p \in Peers |-> 0]
  /\ drops' = drops + 1
  /\ UNCHANGED <<registry, gate, serving, cmds, bus, pending_upload_resolves, remote>>

\* A later connection logs in.
LoginResponse ==
  /\ ~logged_in
  /\ logged_in' = TRUE
  /\ UNCHANGED <<registry, gate, serving, cmds, bus, pending_upload_resolves, asked,
                 drops, remote>>

-----------------------------------------------------------------------------
Connection ==
  \/ \E p \in Peers : OnQueueUpload(p)
  \/ \E p \in Peers, tok \in Tokens : OnTransferRequestDownload(p, tok)
  \/ \E p \in Peers, tok \in Tokens, ok \in BOOLEAN : OnTransferResponse(p, tok, ok)
  \/ \E p \in Peers, tok \in Tokens : RecvFile(p, tok)
  \/ \E id \in serving : FinishServe(id)

CommandLoop == CmdStartUpload \/ CmdUploadConnect \/ CmdPumpUploads

BusWorker == BusResolveUploadPeer \/ BusPeerUploadConnect

Answer(p) == \E online \in BOOLEAN : GetPeerAddress(p, online)

Next ==
  \/ Connection
  \/ \E id \in streaming : FinishUpload(id)
  \/ CommandLoop
  \/ BusWorker
  \/ \E p \in Peers : Answer(p)
  \/ NetConnClosed
  \/ LoginResponse

Spec == Init /\ [][Next]_vars

\* The reactor and the bus worker are loops that take what is there, and the
\* server answers.  Peers owe nothing: no stream is bound to end (copy_exact
\* has no timeout), no offer to be answered.
Fairness ==
  /\ WF_vars(CommandLoop)
  /\ WF_vars(BusWorker)
  /\ \A p \in Peers : WF_vars(Answer(p))

FairSpec == Spec /\ Fairness
-----------------------------------------------------------------------------
Ids == 0 .. next_id - 1

\* Every variable keeps its type, and the ids in circulation were handed out.
TypeOK ==
  /\ DOMAIN by_token \subseteq Tokens
  /\ by_token \in [DOMAIN by_token -> Pending]
  /\ next_token \in FirstToken .. FirstToken + MaxOffers
  /\ next_id \in Nat
  /\ queued \subseteq Ids
  /\ waiting \in Seq(Nat)
  /\ active \in Nat
  /\ streaming \subseteq Ids
  /\ serving \subseteq Ids
  /\ cmds \in Seq(Command)
  /\ bus \in Seq(BusMessage)
  /\ logged_in \in BOOLEAN
  /\ pending_upload_resolves \subseteq Peers
  /\ asked \in [Peers -> Nat]
  /\ offers \subseteq Peers \X Tokens
  /\ tickets \subseteq Peers \X Tokens
  /\ requests \in 0 .. MaxRequests
  /\ replaced \subseteq Ids
  /\ drops \in 0 .. MaxDrops

Waiting == Range(waiting)

\* The place-in-queue book follows the registry of offers "in lockstep" (the
\* eviction comment) but for one leak: a slot is held for every pending upload,
\* and for nothing else but the uploads whose entry a later one registered under
\* the same token replaced.  Those are pending no more, and places and the
\* advertised queue length count them for good.
QueueLockstep ==
  /\ queued = IdsOf(by_token, Registered) \cup replaced
  /\ IdsOf(by_token, Registered) \cap replaced = {}

\* An upload is in one place at a time: pending, waiting for a slot, streaming,
\* or being collected.  Nothing is started twice or both offered and started.
OneHome ==
  /\ \A t, u \in Registered :
       by_token[t].transfer_id = by_token[u].transfer_id => t = u
  /\ IsInjective(waiting)
  /\ LET pending == IdsOf(by_token, Registered)
     IN  /\ pending \cap (Waiting \cup streaming \cup serving) = {}
         /\ Waiting \cap (streaming \cup serving) = {}
         /\ streaming \cap serving = {}

\* The busy-slot counter counts the live upload tasks, and never exceeds the
\* configured slots: a slot is neither leaked nor handed out twice.
SlotsAccounted ==
  /\ active = Cardinality(streaming)
  /\ Slots # 0 => active <= Slots

\* A job waits beside a free slot only while a pump is on its way.  A release
\* whose PumpUploads were lost or came first would strand the job.
NoIdleSlot ==
  waiting # <<>> /\ (Slots = 0 \/ active < Slots) => PumpUploads \in Range(cmds)

\* Something in flight will connect to p: the chain from the verdict through
\* the command loop, the bus, session, the server and back.
Driven(p) ==
  \/ StartUpload(p) \in Range(cmds)
  \/ ResolveUploadPeer(p) \in Range(bus)
  \/ p \in pending_upload_resolves /\ asked[p] > 0
  \/ \E on \in BOOLEAN : \/ PeerUploadConnect(p, on) \in Range(bus)
                         \/ UploadConnect(p, on) \in Range(cmds)

\* An approved upload is never forgotten: while it is pending, something in
\* flight will open its file connection ("the file connection is then opened
\* once we resolve the peer's address").
ApprovedIsDriven == \A t \in Registered : by_token[t].approved => Driven(by_token[t].username)

\* The same as long as the link to the server has not dropped.
ApprovedIsDrivenWhileLinked == drops = 0 => ApprovedIsDriven

\* The place a queued upload is told never gets worse.
PlaceNeverGrows ==
  [][\A id \in queued \cap queued' : PlaceInQueue(id)' <= PlaceInQueue(id)]_vars

\* With the link up, an approved upload gets to the gate or fails: it does not
\* stay pending, however the loops and the server's answers interleave.
ApprovedLeaves ==
  \A t \in Tokens :
    t \in Registered /\ by_token[t].approved ~>
      t \notin Registered \/ drops > 0

Stage(id) ==
  LET Entry(ok) == {t \in Registered : by_token[t].transfer_id = id /\ by_token[t].approved = ok}
  IN  CASE id \in streaming    -> "streaming"
        [] id \in serving      -> "collected"
        [] id \in Waiting      -> "waiting"
        [] Entry(TRUE) # {}    -> "approved"
        [] Entry(FALSE) # {}   -> "offered"
        [] id >= next_id       -> "none"
        [] OTHER               -> "over"

\* The ids the bounds allow.
LifecycleIds == 0 .. MaxOffers + MaxRequests - 1

Lifecycle == INSTANCE UploadLifecycle
  WITH UploadIds <- LifecycleIds, UploadSlots <- Slots,
       stage <- [id \in LifecycleIds |-> Stage(id)]

\* The upload side implements the lifecycle: no upload moves back, starts twice,
\* or skips its peer's consent, and streams of ours stay within the slots.
ImplementsLifecycle == Lifecycle!LifecycleSpec
=============================================================================
