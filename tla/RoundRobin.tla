----------------------------- MODULE RoundRobin -----------------------------
(***************************************************************************)
(* UploadQueue with history variables: who was picked before whom, and who *)
(* started past the pick in hand.  They serve to state what the stamps and *)
(* the two steps of the driver are for.                                    *)
(***************************************************************************)
EXTENDS UploadQueue

VARIABLES
  overtaken,  \* overtaken[u][v]: how often v was picked while u waited as v's
              \* equal or better, since u began to wait
  unqueued    \* users that started an upload unqueued since the pick in hand

Rival(u, v) == u # v /\ (v \in privileged => u \in privileged)

PickedNow(v) == picked = {} /\ \E id \in picked' : Owner(id) = v

RRInit ==
  /\ Init
  /\ overtaken = [u \in Users |-> [v \in Users |-> 0]]
  /\ unqueued = {}

RRNext ==
  /\ Next
  /\ overtaken' =
       [u \in Users |-> [v \in Users |->
          IF ~Waits(u)' THEN 0
          ELSE IF Waits(u) /\ Rival(u, v) /\ PickedNow(v) THEN overtaken[u][v] + 1
          ELSE overtaken[u][v]]]
  /\ unqueued' = IF picked = {} \/ picked' # picked THEN {}
                 ELSE unqueued \cup {u \in Users : active_users'[u] > active_users[u]}

RRSpec == RRInit /\ [][RRNext]_<<vars, overtaken, unqueued>>

\* Round robin is fair: while a user waits, no equal of it is picked twice,
\* whatever either enqueues and finishes, and whoever starts unqueued.
NoneOvertakesTwice == ~fifo => \A u, v \in Users : overtaken[u][v] <= 1

\* The choice made a step earlier is still good when it is carried out, whatever
\* else happens in between: the upload is still the first of its user's queue, and
\* its user still has none active, unless that user itself started one unqueued.
PickedStillWaits ==
  PickedIsFirst /\ \A id \in picked : Waits(Owner(id)) \/ Owner(id) \in unqueued
=============================================================================
