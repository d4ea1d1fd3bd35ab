---------------------------- MODULE UploadQueue ----------------------------
(***************************************************************************)
(* UploadQueue of transfers/uploads.rs: which queued upload is served next *)
(* (round robin over the users, or first in first out, privileged users    *)
(* first), and the place in the queue a downloader is told.                *)
(*                                                                         *)
(* An upload's id is its rank of arrival.  A per-user list of ids grows at *)
(* its end and ids increase, so a set of ids stands for it.  The scheduler *)
(* is a pure object: its driver picks a candidate, and in a later step     *)
(* dequeues and activates it, other uploads finishing in between.          *)
(***************************************************************************)
EXTENDS Naturals, Sequences, FiniteSets, Functions

CONSTANTS
  Users,
  MaxUploads,  \* bound: uploads enqueued
  MaxStamps,   \* bound: an upload starts unqueued only before this stamp
  MaxActive    \* bound: and makes no more than this many active for its user

ASSUME UploadQueueAssumption ==
  IsFiniteSet(Users) /\ MaxUploads \in Nat /\ MaxStamps \in Nat /\ MaxActive \in Nat

VARIABLES
  fifo,          \* the mode, set when the queue is made
  privileged,
  usernames,     \* usernames[id + 1]: the owner of upload id
  queued_users,  \* user -> ids queued
  active_users,  \* user -> number of active uploads
  counter,       \* the last stamp given
  counters,      \* waiting user -> stamp
  picked         \* the candidate the driver has in hand, if any

vars == <<fifo, privileged, usernames, queued_users, active_users, counter, counters,
          picked>>

Init ==
  /\ fifo \in BOOLEAN
  /\ privileged = {}
  /\ usernames = <<>>
  /\ queued_users = [u \in Users |-> {}]
  /\ active_users = [u \in Users |-> 0]
  /\ counter = 0
  /\ counters = [u \in {} |-> 0]
  /\ picked = {}

AllQueued == UNION Range(queued_users)

Owner(id) == usernames[id + 1]

Least(S) == CHOOSE i \in S : \A j \in S : i <= j

-----------------------------------------------------------------------------
(* Stamps. *)

\* Faulty: the global counter does not move.
StampStuck(u, files, running, stamps) ==
  IF files[u] # {} /\ running[u] = 0
  THEN /\ counter' = counter
       /\ counters' = [v \in DOMAIN stamps \cup {u} |->
                         IF v = u THEN counter + 1 ELSE stamps[v]]
  ELSE /\ counter' = counter
       /\ counters' = stamps

\* update_user_counter: only a user with queued files and none active waits.
UpdateUserCounter(u, files, running, stamps) ==
  IF files[u] # {} /\ running[u] = 0
  THEN /\ counter' = counter + 1
       /\ counters' = [v \in DOMAIN stamps \cup {u} |->
                         IF v = u THEN counter + 1 ELSE stamps[v]]
  ELSE /\ counter' = counter
       /\ counters' = stamps

Unstamped(u) == Restrict(counters, DOMAIN counters \ {u})

-----------------------------------------------------------------------------
(* The candidate. *)

Eligible ==
  LET vips == privileged \cap DOMAIN counters
  IN  IF vips = {} THEN DOMAIN counters ELSE vips

\* Faulty: the user stamped last.
TargetsNewest ==
  {u \in Eligible : \A v \in Eligible :
     IF fifo THEN Least(queued_users[u]) <= Least(queued_users[v])
             ELSE counters[u] >= counters[v]}

Targets ==
  {u \in Eligible : \A v \in Eligible :
     IF fifo THEN Least(queued_users[u]) <= Least(queued_users[v])
             ELSE counters[u] <= counters[v]}

Candidates == {Least(queued_users[u]) : u \in Targets}

-----------------------------------------------------------------------------
(* Operations. *)

SetPrivileged(S) ==
  /\ privileged' = S
  /\ UNCHANGED <<fifo, usernames, queued_users, active_users, counter, counters, picked>>

\* Faulty: another file of a waiting user stamps it again.
EnqueueRestamping(u) ==
  LET id == Len(usernames)
      files == [queued_users EXCEPT ![u] = @ \cup {id}]
  IN  /\ id < MaxUploads
      /\ usernames' = Append(usernames, u)
      /\ queued_users' = files
      /\ UpdateUserCounter(u, files, active_users, counters)
      /\ UNCHANGED <<fifo, privileged, active_users, picked>>

Enqueue(u) ==
  LET id    == Len(usernames)
      files == [queued_users EXCEPT ![u] = @ \cup {id}]
  IN  /\ id < MaxUploads
      /\ usernames' = Append(usernames, u)
      /\ queued_users' = files
      /\ IF u \in DOMAIN counters
         THEN UNCHANGED <<counter, counters>>
         ELSE UpdateUserCounter(u, files, active_users, counters)
      /\ UNCHANGED <<fifo, privileged, active_users, picked>>

\* An upload that starts without having been queued, at any time: also of the
\* user, or of another, whose upload the driver has in hand.
ActivateUnqueued(u) ==
  /\ active_users[u] < MaxActive /\ counter < MaxStamps
  /\ active_users' = [active_users EXCEPT ![u] = @ + 1]
  /\ counters' = Unstamped(u)
  /\ UNCHANGED <<fifo, privileged, usernames, queued_users, counter, picked>>

\* get_upload_candidate.
Pick ==
  /\ picked = {}
  /\ Candidates # {}
  /\ picked' = Candidates
  /\ UNCHANGED <<fifo, privileged, usernames, queued_users, active_users, counter, counters>>

\* dequeue(id) and activate(id) of the candidate.
Start(id) ==
  LET u == Owner(id)
  IN  /\ id \in picked
      /\ picked' = {}
      /\ queued_users' = [queued_users EXCEPT ![u] = @ \ {id}]
      /\ active_users' = [active_users EXCEPT ![u] = @ + 1]
      /\ counters' = Unstamped(u)
      /\ UNCHANGED <<fifo, privileged, usernames, counter>>

\* Faulty: the user's first upload goes, whichever was given up.
DequeueFirst(id) ==
  LET u == Owner(id)
  IN  /\ id \in AllQueued \ picked
      /\ queued_users' = [queued_users EXCEPT ![u] = @ \ {Least(@)}]
      /\ counters' = IF Cardinality(queued_users[u]) = 1 THEN Unstamped(u) ELSE counters
      /\ UNCHANGED <<fifo, privileged, usernames, active_users, counter, picked>>

\* Faulty: the stamp of a user with nothing left stays.
DequeueKeepingStamp(id) ==
  LET u == Owner(id)
  IN  /\ id \in AllQueued \ picked
      /\ queued_users' = [queued_users EXCEPT ![u] = @ \ {id}]
      /\ counters' = counters
      /\ UNCHANGED <<fifo, privileged, usernames, active_users, counter, picked>>

\* dequeue(id) of an upload that is given up; the driver gives up none it has in hand.
Dequeue(id) ==
  LET u == Owner(id)
  IN  /\ id \in AllQueued \ picked
      /\ queued_users' = [queued_users EXCEPT ![u] = @ \ {id}]
      /\ counters' = IF queued_users[u] = {id} THEN Unstamped(u) ELSE counters
      /\ UNCHANGED <<fifo, privileged, usernames, active_users, counter, picked>>

Finish(u) ==
  /\ active_users[u] > 0
  /\ active_users' = [active_users EXCEPT ![u] = @ - 1]
  /\ UpdateUserCounter(u, queued_users, active_users', counters)
  /\ UNCHANGED <<fifo, privileged, usernames, queued_users, picked>>

Next ==
  \/ \E S \in SUBSET Users : SetPrivileged(S)
  \/ \E u \in Users : Enqueue(u) \/ ActivateUnqueued(u) \/ Finish(u)
  \/ Pick
  \/ \E id \in AllQueued : Start(id) \/ Dequeue(id)

Spec == Init /\ [][Next]_vars

-----------------------------------------------------------------------------
\* Every field keeps its type; a user's list holds its own uploads.
TypeOK ==
  /\ fifo \in BOOLEAN
  /\ privileged \subseteq Users
  /\ usernames \in Seq(Users)
  /\ queued_users \in [Users -> SUBSET Nat]
  /\ \A u \in Users : \A id \in queued_users[u] :
       id < Len(usernames) /\ usernames[id + 1] = u
  /\ active_users \in [Users -> Nat]
  /\ counter \in Nat
  /\ DOMAIN counters \subseteq Users
  /\ counters \in [DOMAIN counters -> Nat]
  /\ picked \subseteq AllQueued

Waits(u) == queued_users[u] # {} /\ active_users[u] = 0

\* The users with a stamp are exactly those that wait for a slot: queued files
\* and no active upload.  A waiting user without a stamp would never be picked,
\* and one with a stamp and nothing to send would stop the scheduler.
StampedIffWaiting == \A u \in Users : u \in DOMAIN counters <=> Waits(u)

\* Stamps are distinct and issued: the round robin has one next user.
StampsDistinct ==
  /\ \A u, v \in DOMAIN counters : counters[u] = counters[v] => u = v
  /\ \A u \in DOMAIN counters : counters[u] \in 1 .. counter

\* There is a candidate, and only one, exactly when some user waits, whatever
\* users finished, were dropped or became privileged before.
OneCandidate ==
  Cardinality(Candidates) = IF \E u \in Users : Waits(u) THEN 1 ELSE 0

\* The upload picked a step earlier is still the first of its user's queue.
PickedIsFirst ==
  \A id \in picked :
    /\ id \in queued_users[Owner(id)]
    /\ \A i \in queued_users[Owner(id)] : id <= i

\* A user that goes on waiting keeps its stamp: "a user enqueuing more files
\* keeps their place".
WaitingKeepsStamp ==
  [][\A u \in DOMAIN counters \cap DOMAIN counters' : counters'[u] = counters[u]]_vars
=============================================================================
