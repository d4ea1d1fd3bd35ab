------------------------- MODULE UploadQueueProofs -------------------------
EXTENDS RoundRobin, TLAPS, WellFoundedInduction, FiniteSetTheorems

\* Natural numbers are well ordered: the least element that Least picks exists.
\* (Strict inclusion of the initial segments 0 .. i is well founded.)
LEMMA LeastIsLeast ==
  ASSUME NEW S \in SUBSET Nat, S # {}
  PROVE  Least(S) \in S /\ \A j \in S : Least(S) <= j
<1> DEFINE segments == {0 .. i : i \in S}
           order    == StrictSubsetOrdering(Nat)
<1>1. segments \subseteq FiniteSubsetsOf(Nat)
  <2>1. \A i \in S : IsFiniteSet(0 .. i) /\ 0 .. i \subseteq Nat
    BY FS_Interval
  <2>2. QED
    BY <2>1 DEF FiniteSubsetsOf
<1>2. segments # {}
  OBVIOUS
<1>3. \E x \in segments : \A y \in segments : ~ (<<y, x>> \in order)
  <2> HIDE DEF segments, order
  <2>1. IsWellFoundedOn(order, FiniteSubsetsOf(Nat))
    BY FS_StrictSubsetOrderingWellFounded DEF order
  <2>2. QED
    BY <1>1, <1>2, <2>1, WFMin
<1>4. PICK m \in S : \A j \in S : ~ (<<0 .. j, 0 .. m>> \in order)
  BY <1>3
<1>5. \A j \in S : m <= j
  <2> SUFFICES ASSUME NEW j \in S, j < m
               PROVE  FALSE
    OBVIOUS
  <2>1. 0 .. j \subseteq 0 .. m /\ m \in 0 .. m /\ m \notin 0 .. j
    OBVIOUS
  <2>2. <<0 .. j, 0 .. m>> \in (SUBSET Nat) \X (SUBSET Nat)
    OBVIOUS
  <2>3. <<0 .. j, 0 .. m>> \in order
    BY <2>1, <2>2 DEF StrictSubsetOrdering
  <2>4. QED
    BY <1>4, <2>3
<1>6. QED
  BY <1>5 DEF Least

-----------------------------------------------------------------------------
(* The stamp table.  Every operation touches the files, the streams and the *)
(* stamp of one user, in one of three ways.                                 *)

StampTable ==
  /\ counter \in Nat
  /\ DOMAIN counters \subseteq Users
  /\ counters \in [DOMAIN counters -> Nat]
  /\ StampedIffWaiting
  /\ StampsDistinct

OthersKeep(u) ==
  \A v \in Users \ {u} : queued_users'[v] = queued_users[v] /\ active_users'[v] = active_users[v]

LEMMA UserCounterUpdated ==
  ASSUME StampTable, NEW u \in Users, OthersKeep(u), u \notin DOMAIN counters,
         UpdateUserCounter(u, queued_users', active_users', counters)
  PROVE  StampTable'
<1>1. CASE Waits(u)'
  <2>1. /\ counter' = counter + 1
        /\ counters' = [v \in DOMAIN counters \cup {u} |->
                          IF v = u THEN counter + 1 ELSE counters[v]]
    BY <1>1 DEF UpdateUserCounter, Waits
  <2>2. /\ DOMAIN counters' = DOMAIN counters \cup {u}
        /\ counters'[u] = counter + 1
        /\ \A v \in DOMAIN counters : counters'[v] = counters[v]
    BY <2>1
  <2>3. StampedIffWaiting'
    BY <1>1, <2>2 DEF StampedIffWaiting, StampTable, Waits, OthersKeep
  <2>4. StampsDistinct'
    BY <2>1, <2>2 DEF StampsDistinct, StampTable
  <2>5. QED
    BY <2>1, <2>2, <2>3, <2>4 DEF StampTable
<1>2. CASE ~Waits(u)'
  <2>1. counter' = counter /\ counters' = counters
    BY <1>2 DEF UpdateUserCounter, Waits
  <2>2. QED
    BY <1>2, <2>1 DEF StampTable, StampedIffWaiting, StampsDistinct, Waits, OthersKeep
<1>3. QED
  BY <1>1, <1>2

LEMMA StampRemoved ==
  ASSUME StampTable, NEW u \in Users, OthersKeep(u), ~Waits(u)',
         counter' = counter, counters' = Unstamped(u)
  PROVE  StampTable'
<1>1. /\ DOMAIN counters' = DOMAIN counters \ {u}
      /\ \A v \in DOMAIN counters' : counters'[v] = counters[v]
      /\ counters' \in [DOMAIN counters' -> Nat]
  BY DEF Unstamped, Restrict, StampTable
<1>2. StampedIffWaiting'
  BY <1>1 DEF StampedIffWaiting, StampTable, Waits, OthersKeep
<1>3. StampsDistinct'
  BY <1>1 DEF StampsDistinct, StampTable
<1>4. QED
  BY <1>1, <1>2, <1>3 DEF StampTable

LEMMA StampsUntouched ==
  ASSUME StampTable, NEW u \in Users, OthersKeep(u), Waits(u)' <=> Waits(u),
         counter' = counter, counters' = counters
  PROVE  StampTable'
BY DEF StampTable, StampedIffWaiting, StampsDistinct, Waits, OthersKeep

-----------------------------------------------------------------------------
(* The inductive invariant.  A candidate is an id of its user only because *)
(* whoever has a stamp has a queued file; a picked id stays the first of   *)
(* its user's because ids grow and the driver drops none it has in hand.   *)

IInv == TypeOK /\ StampTable /\ PickedIsFirst

LEMMA InitIInv == Init => IInv
<1> SUFFICES ASSUME Init
             PROVE  IInv
  OBVIOUS
<1>1. DOMAIN counters = {} /\ counters \in [DOMAIN counters -> Nat]
  BY DEF Init
<1>2. TypeOK
  BY <1>1 DEF Init, TypeOK
<1>3. StampTable
  BY <1>1 DEF Init, StampTable, StampedIffWaiting, StampsDistinct, Waits
<1>4. PickedIsFirst
  BY DEF Init, PickedIsFirst
<1>5. QED
  BY <1>2, <1>3, <1>4 DEF IInv

\* An id is queued at its owner, and only there.
LEMMA QueuedAtOwner ==
  ASSUME TypeOK, NEW id \in AllQueued
  PROVE  /\ id \in Nat /\ id < Len(usernames)
         /\ Owner(id) \in Users /\ id \in queued_users[Owner(id)]
         /\ \A v \in Users : id \in queued_users[v] => v = Owner(id)
<1>1. PICK u \in Users : id \in queued_users[u]
  BY DEF AllQueued, Range, TypeOK
<1>2. QED
  BY <1>1 DEF TypeOK, Owner

\* A candidate is the first queued file of a user that waits.
LEMMA CandidateWaits ==
  ASSUME IInv, NEW id \in Candidates
  PROVE  /\ id \in AllQueued /\ Waits(Owner(id))
         /\ \A j \in queued_users[Owner(id)] : id <= j
<1>1. PICK u \in DOMAIN counters : id = Least(queued_users[u])
  BY DEF Candidates, Targets, Eligible, IInv, StampTable
<1>2. u \in Users /\ Waits(u)
  BY DEF IInv, StampTable, StampedIffWaiting
<1>3. id \in queued_users[u] /\ \A j \in queued_users[u] : id <= j
  BY <1>1, <1>2, LeastIsLeast DEF IInv, TypeOK, Waits
<1>4. id \in AllQueued /\ Owner(id) = u
  BY <1>2, <1>3 DEF AllQueued, Range, IInv, TypeOK, Owner
<1>5. QED
  BY <1>2, <1>3, <1>4

LEMMA NextIInv == IInv /\ [Next]_vars => IInv'
<1> SUFFICES ASSUME IInv, [Next]_vars
             PROVE  IInv'
  OBVIOUS
<1> USE DEF IInv
<1>1. ASSUME NEW S \in SUBSET Users, SetPrivileged(S)
      PROVE  IInv'
  BY <1>1 DEF SetPrivileged, TypeOK, AllQueued, Owner, StampTable, StampedIffWaiting,
              StampsDistinct, PickedIsFirst, Waits
<1>2. ASSUME NEW u \in Users, Enqueue(u)
      PROVE  IInv'
  <2> DEFINE id == Len(usernames)
  <2>1. /\ id \in Nat /\ usernames' = Append(usernames, u)
        /\ Len(usernames') = id + 1 /\ usernames'[id + 1] = u
        /\ \A i \in 0 .. id - 1 : usernames'[i + 1] = usernames[i + 1]
        /\ usernames' \in Seq(Users)
    BY <1>2 DEF Enqueue, TypeOK
  <2>2. /\ queued_users' \in [Users -> SUBSET Nat]
        /\ queued_users'[u] = queued_users[u] \cup {id}
        /\ \A v \in Users \ {u} : queued_users'[v] = queued_users[v]
    BY <1>2, <2>1 DEF Enqueue, TypeOK
  <2>3. OthersKeep(u)
    BY <1>2, <2>2 DEF Enqueue, OthersKeep
  <2>4. StampTable'
    <3>1. CASE u \in DOMAIN counters
      <4>1. Waits(u)' /\ Waits(u)
        BY <1>2, <2>2, <3>1 DEF Enqueue, StampTable, StampedIffWaiting, Waits
      <4>2. QED
        BY <1>2, <2>3, <3>1, <4>1, StampsUntouched DEF Enqueue
    <3>2. CASE u \notin DOMAIN counters
      <4>1. UpdateUserCounter(u, queued_users', active_users', counters)
        BY <1>2, <3>2 DEF Enqueue, UpdateUserCounter
      <4>2. QED
        BY <2>3, <3>2, <4>1, UserCounterUpdated
    <3>3. QED
      BY <3>1, <3>2
  <2>5. AllQueued \subseteq AllQueued'
    <3> SUFFICES ASSUME NEW i \in AllQueued
                 PROVE  i \in AllQueued'
      OBVIOUS
    <3>1. PICK v \in Users : i \in queued_users[v]
      BY DEF AllQueued, Range, TypeOK
    <3>2. i \in queued_users'[v] /\ DOMAIN queued_users' = Users
      BY <2>2, <3>1
    <3>3. QED
      BY <3>2 DEF AllQueued, Range
  <2>6. TypeOK'
    <3>1. \A v \in Users : \A i \in queued_users'[v] :
            i < Len(usernames') /\ usernames'[i + 1] = v
      <4> SUFFICES ASSUME NEW v \in Users, NEW i \in queued_users'[v]
                   PROVE  i < id + 1 /\ usernames'[i + 1] = v
        BY <2>1
      <4>1. CASE i \in queued_users[v]
        <5>1. i \in Nat /\ i < id /\ usernames[i + 1] = v
          BY <4>1 DEF TypeOK
        <5>2. QED
          BY <2>1, <5>1
      <4>2. CASE i \notin queued_users[v]
        <5>1. i = id /\ v = u
          BY <2>2, <4>2
        <5>2. QED
          BY <2>1, <5>1
      <4>3. QED
        BY <4>1, <4>2
    <3>2. QED
      BY <1>2, <2>1, <2>2, <2>4, <2>5, <3>1 DEF Enqueue, TypeOK, StampTable
  <2>7. PickedIsFirst'
    <3> SUFFICES ASSUME NEW i \in picked
                 PROVE  /\ i \in queued_users'[Owner(i)']
                        /\ \A j \in queued_users'[Owner(i)'] : i <= j
      BY <1>2 DEF Enqueue, PickedIsFirst
    <3>1. i \in AllQueued /\ i \in queued_users[Owner(i)]
          /\ \A j \in queued_users[Owner(i)] : i <= j
      BY DEF TypeOK, PickedIsFirst
    <3>2. i \in 0 .. id - 1 /\ Owner(i) \in Users
      BY <2>1, <3>1, QueuedAtOwner
    <3>3. Owner(i)' = Owner(i)
      BY <2>1, <3>2 DEF Owner
    <3>4. i <= id
      BY <2>1, <3>2
    <3>5. queued_users'[Owner(i)] \subseteq queued_users[Owner(i)] \cup {id}
          /\ queued_users[Owner(i)] \subseteq queued_users'[Owner(i)]
      BY <2>2, <3>2
    <3>6. QED
      BY <3>1, <3>3, <3>4, <3>5
  <2>8. QED
    BY <2>4, <2>6, <2>7
<1>3. ASSUME NEW u \in Users, ActivateUnqueued(u)
      PROVE  IInv'
  <2>1. active_users' \in [Users -> Nat] /\ active_users'[u] = active_users[u] + 1
    BY <1>3 DEF ActivateUnqueued, TypeOK
  <2>2. OthersKeep(u) /\ ~Waits(u)'
    BY <1>3, <2>1 DEF ActivateUnqueued, OthersKeep, Waits, TypeOK
  <2>3. StampTable'
    BY <1>3, <2>2, StampRemoved DEF ActivateUnqueued
  <2>4. TypeOK'
    BY <1>3, <2>1, <2>3 DEF ActivateUnqueued, TypeOK, AllQueued, StampTable
  <2>5. PickedIsFirst'
    BY <1>3 DEF ActivateUnqueued, PickedIsFirst, Owner
  <2>6. QED
    BY <2>3, <2>4, <2>5
<1>4. ASSUME NEW u \in Users, Finish(u)
      PROVE  IInv'
  <2>1. /\ active_users' \in [Users -> Nat]
        /\ \A v \in Users \ {u} : active_users'[v] = active_users[v]
    BY <1>4 DEF Finish, TypeOK
  <2>2. OthersKeep(u) /\ u \notin DOMAIN counters
    BY <1>4, <2>1 DEF Finish, OthersKeep, StampTable, StampedIffWaiting, Waits
  <2>3. StampTable'
    <3>1. UpdateUserCounter(u, queued_users', active_users', counters)
      BY <1>4 DEF Finish
    <3>2. QED
      BY <2>2, <3>1, UserCounterUpdated
  <2>4. TypeOK'
    BY <1>4, <2>1, <2>3 DEF Finish, TypeOK, AllQueued, StampTable
  <2>5. PickedIsFirst'
    BY <1>4 DEF Finish, PickedIsFirst, Owner
  <2>6. QED
    BY <2>3, <2>4, <2>5
<1>5. ASSUME Pick
      PROVE  IInv'
  <2>1. \A i \in picked' : /\ i \in AllQueued
                            /\ \A j \in queued_users[Owner(i)] : i <= j
    BY <1>5, CandidateWaits DEF Pick
  <2>2. TypeOK' /\ StampTable'
    BY <1>5, <2>1 DEF Pick, TypeOK, AllQueued, StampTable, StampedIffWaiting,
                      StampsDistinct, Waits
  <2>3. PickedIsFirst'
    <3>1. \A i \in picked' : i \in queued_users[Owner(i)]
      BY <2>1, QueuedAtOwner
    <3>2. QED
      BY <1>5, <2>1, <3>1 DEF Pick, PickedIsFirst, Owner
  <2>4. QED
    BY <2>2, <2>3
<1>6. ASSUME NEW id \in AllQueued, Start(id)
      PROVE  IInv'
  <2>1. PICK u \in Users : u = Owner(id)
    BY QueuedAtOwner
  <2>2. /\ queued_users' \in [Users -> SUBSET Nat]
        /\ active_users' \in [Users -> Nat]
        /\ active_users'[u] = active_users[u] + 1
        /\ queued_users'[u] = queued_users[u] \ {id}
        /\ \A v \in Users \ {u} : queued_users'[v] = queued_users[v]
                                  /\ active_users'[v] = active_users[v]
    BY <1>6, <2>1 DEF Start, TypeOK
  <2>3. OthersKeep(u) /\ ~Waits(u)'
    BY <2>1, <2>2 DEF OthersKeep, Waits, TypeOK
  <2>4. StampTable'
    BY <1>6, <2>1, <2>3, StampRemoved DEF Start
  <2>5. TypeOK'
    <3>1. \A v \in Users : \A i \in queued_users'[v] :
            i < Len(usernames) /\ usernames[i + 1] = v
      BY <2>2 DEF TypeOK
    <3>2. QED
      BY <1>6, <2>2, <2>4, <3>1 DEF Start, TypeOK, StampTable
  <2>6. PickedIsFirst'
    BY <1>6 DEF Start, PickedIsFirst
  <2>7. QED
    BY <2>4, <2>5, <2>6
<1>7. ASSUME NEW id \in AllQueued, Dequeue(id)
      PROVE  IInv'
  <2>1. PICK u \in Users : u = Owner(id) /\ id \in queued_users[u]
    BY QueuedAtOwner
  <2>2. /\ queued_users' \in [Users -> SUBSET Nat]
        /\ active_users' = active_users /\ usernames' = usernames /\ picked' = picked
        /\ queued_users'[u] = queued_users[u] \ {id}
        /\ \A v \in Users \ {u} : queued_users'[v] = queued_users[v]
    BY <1>7, <2>1 DEF Dequeue, TypeOK
  <2>3. OthersKeep(u)
    BY <2>2 DEF OthersKeep
  <2>4. StampTable'
    <3>1. CASE queued_users[u] = {id}
      <4>1. ~Waits(u)'
        BY <2>2, <3>1 DEF Waits
      <4>2. QED
        BY <1>7, <2>1, <2>3, <3>1, <4>1, StampRemoved DEF Dequeue
    <3>2. CASE queued_users[u] # {id}
      <4>1. Waits(u)' <=> Waits(u)
        BY <2>1, <2>2, <3>2 DEF Waits
      <4>2. QED
        BY <1>7, <2>1, <2>3, <3>2, <4>1, StampsUntouched DEF Dequeue
    <3>3. QED
      BY <3>1, <3>2
  <2>5. \A i \in picked : i \in queued_users'[Owner(i)]
                          /\ Owner(i)' = Owner(i) /\ Owner(i) \in Users
    <3> SUFFICES ASSUME NEW i \in picked
                 PROVE  i \in queued_users'[Owner(i)]
                        /\ Owner(i)' = Owner(i) /\ Owner(i) \in Users
      OBVIOUS
    <3>1. i # id /\ i \in queued_users[Owner(i)] /\ Owner(i) \in Users
      BY <1>7, QueuedAtOwner DEF Dequeue, TypeOK
    <3>2. QED
      BY <2>2, <3>1 DEF Owner
  <2>6. TypeOK'
    <3>1. \A v \in Users : \A i \in queued_users'[v] :
            i < Len(usernames) /\ usernames[i + 1] = v
      BY <2>2 DEF TypeOK
    <3>2. picked' \subseteq AllQueued'
      BY <2>2, <2>5 DEF AllQueued, Range
    <3>3. QED
      BY <1>7, <2>2, <2>4, <3>1, <3>2 DEF Dequeue, TypeOK, StampTable
  <2>7. PickedIsFirst'
    <3> SUFFICES ASSUME NEW i \in picked
                 PROVE  /\ i \in queued_users'[Owner(i)]
                        /\ \A j \in queued_users'[Owner(i)] : i <= j
      BY <2>2, <2>5 DEF PickedIsFirst
    <3>1. queued_users'[Owner(i)] \subseteq queued_users[Owner(i)]
      BY <2>2, <2>5
    <3>2. QED
      BY <2>5, <3>1 DEF PickedIsFirst
  <2>8. QED
    BY <2>4, <2>6, <2>7
<1>8. CASE UNCHANGED vars
  BY <1>8 DEF vars, TypeOK, AllQueued, Owner, StampTable, StampedIffWaiting,
              StampsDistinct, PickedIsFirst, Waits
<1>9. QED
  BY <1>1, <1>2, <1>3, <1>4, <1>5, <1>6, <1>7, <1>8 DEF Next

-----------------------------------------------------------------------------
(* The candidate. *)

\* The rank the mode compares users by.
Rank(u) == IF fifo THEN Least(queued_users[u]) ELSE counters[u]

LEMMA CandidateOrNone ==
  ASSUME IInv
  PROVE  IF \E u \in Users : Waits(u) THEN \E id : Candidates = {id} ELSE Candidates = {}
<1>1. /\ Eligible \subseteq DOMAIN counters
      /\ DOMAIN counters \subseteq Users
      /\ DOMAIN counters # {} => Eligible # {}
  BY DEF Eligible, IInv, StampTable
<1>2. \A u \in DOMAIN counters : Waits(u) /\ Least(queued_users[u]) \in queued_users[u]
  BY <1>1, LeastIsLeast DEF IInv, TypeOK, StampTable, StampedIffWaiting, Waits
<1>3. CASE \E u \in Users : Waits(u)
  <2> DEFINE ranks == {Rank(u) : u \in Eligible}
  <2>1. Eligible # {}
    BY <1>1, <1>3 DEF IInv, StampTable, StampedIffWaiting
  <2>2. \A u \in Eligible : Rank(u) \in Nat
    BY <1>1, <1>2 DEF Rank, IInv, TypeOK, StampTable
  <2>3. PICK u \in Eligible : \A v \in Eligible : Rank(u) <= Rank(v)
    <3>1. ranks \in SUBSET Nat /\ ranks # {}
      BY <2>1, <2>2
    <3>2. Least(ranks) \in ranks /\ \A r \in ranks : Least(ranks) <= r
      <4> HIDE DEF ranks
      <4>1. QED
        BY <3>1, LeastIsLeast
    <3>3. QED
      BY <3>2
  <2>4. u \in Targets
    BY <2>3 DEF Targets, Rank
  <2>5. \A v \in Targets : Least(queued_users[v]) = Least(queued_users[u])
    <3> SUFFICES ASSUME NEW v \in Targets
                 PROVE  Least(queued_users[v]) = Least(queued_users[u])
      OBVIOUS
    <3>1. v \in Eligible /\ Rank(v) <= Rank(u) /\ Rank(u) <= Rank(v)
      BY <2>3 DEF Targets, Rank
    <3>2. Rank(v) = Rank(u)
      BY <2>2, <3>1
    <3>3. CASE fifo
      BY <3>2, <3>3 DEF Rank
    <3>4. CASE ~fifo
      <4>1. counters[v] = counters[u]
        BY <3>2, <3>4 DEF Rank
      <4>2. v = u
        BY <1>1, <3>1, <4>1 DEF IInv, StampTable, StampsDistinct
      <4>3. QED
        BY <4>2
    <3>5. QED
      BY <3>3, <3>4
  <2>6. Candidates = {Least(queued_users[u])}
    BY <2>4, <2>5 DEF Candidates
  <2>7. QED
    BY <1>3, <2>6
<1>4. CASE ~ \E u \in Users : Waits(u)
  <2>1. Candidates = {}
    BY <1>1, <1>2, <1>4 DEF Candidates, Targets
  <2>2. QED
    BY <1>4, <2>1
<1>5. QED
  BY <1>3, <1>4

LEMMA IInvOneCandidate == IInv => OneCandidate
BY CandidateOrNone, FS_Singleton, FS_EmptySet DEF OneCandidate

-----------------------------------------------------------------------------
(* What a step does to the stamps. *)

\* Stamps are kept as long as they last, and a new one is later than them all.
LEMMA StampStep ==
  ASSUME IInv, Next
  PROVE  /\ \A u \in DOMAIN counters \cap DOMAIN counters' : counters'[u] = counters[u]
         /\ \A u \in DOMAIN counters' \ DOMAIN counters : counters'[u] = counter + 1
<1> DEFINE Steps == /\ \A u \in DOMAIN counters \cap DOMAIN counters' : counters'[u] = counters[u]
                    /\ \A u \in DOMAIN counters' \ DOMAIN counters : counters'[u] = counter + 1
<1> SUFFICES Steps
  OBVIOUS
<1>1. ASSUME NEW v \in Users, Enqueue(v)
      PROVE  Steps
  BY <1>1 DEF Enqueue, UpdateUserCounter
<1>2. ASSUME NEW v \in Users, ActivateUnqueued(v)
      PROVE  Steps
  BY <1>2 DEF ActivateUnqueued, Unstamped, Restrict
<1>3. ASSUME NEW v \in Users, Finish(v)
      PROVE  Steps
  <2>1. v \notin DOMAIN counters
    BY <1>3 DEF Finish, IInv, StampTable, StampedIffWaiting, Waits
  <2>2. QED
    BY <1>3, <2>1 DEF Finish, UpdateUserCounter
<1>4. ASSUME NEW id \in AllQueued, Start(id) \/ Dequeue(id)
      PROVE  Steps
  BY <1>4 DEF Start, Dequeue, Unstamped, Restrict
<1>5. ASSUME Pick \/ \E S \in SUBSET Users : SetPrivileged(S)
      PROVE  Steps
  BY <1>5 DEF Pick, SetPrivileged
<1>6. QED
  BY <1>1, <1>2, <1>3, <1>4, <1>5 DEF Next

-----------------------------------------------------------------------------
(* The theorems, for any finite set of users and any bounds. *)

LEMMA Invariance == Spec => []IInv
BY InitIInv, NextIInv, PTL DEF Spec

\* Every field of the queue keeps its type, in every run.
THEOREM TypeCorrect == Spec => []TypeOK
<1>1. IInv => TypeOK
  BY DEF IInv
<1>2. QED
  BY <1>1, Invariance, PTL

\* enqueue, dequeue, activate and finish keep the stamp table right: a user has a
\* stamp exactly while it has queued files and nothing active.
THEOREM WaitingAreStamped == Spec => []StampedIffWaiting
<1>1. IInv => StampedIffWaiting
  BY DEF IInv, StampTable
<1>2. QED
  BY <1>1, Invariance, PTL

\* No two waiting users share a stamp, so the round robin has one next user.
THEOREM StampsStayDistinct == Spec => []StampsDistinct
<1>1. IInv => StampsDistinct
  BY DEF IInv, StampTable
<1>2. QED
  BY <1>1, Invariance, PTL

\* get_upload_candidate finds an upload whenever a user waits, and its answer does
\* not depend on the order of its hash maps.
THEOREM CandidateIsUnique == Spec => []OneCandidate
BY Invariance, IInvOneCandidate, PTL

\* A user that goes on waiting keeps its stamp: neither more files of its own nor
\* others' starts and ends push it back.
THEOREM StampsAreKept == Spec => WaitingKeepsStamp
<1>1. IInv /\ Next => \A u \in DOMAIN counters \cap DOMAIN counters' : counters'[u] = counters[u]
  BY StampStep
<1>2. QED
  BY <1>1, Invariance, PTL DEF Spec, WaitingKeepsStamp

-----------------------------------------------------------------------------
(* The fairness of the round robin. *)

\* Once v was picked before u, v's next stamp is later than u's: u comes first.
\* Until v is started it still has its old stamp.
Overtaken ==
  /\ overtaken \in [Users -> [Users -> Nat]]
  /\ \A u, v \in Users : overtaken[u][v] # 0 => u # v /\ Waits(u)
  /\ ~fifo => \A u, v \in Users :
       /\ overtaken[u][v] <= 1
       /\ overtaken[u][v] = 1 /\ Waits(v) =>
            counters[u] < counters[v] \/ \E id \in picked : Owner(id) = v

PickedWaits == \A id \in picked : Waits(Owner(id)) \/ Owner(id) \in unqueued

HInv ==
  /\ IInv
  /\ \A i, j \in picked : i = j
  /\ Overtaken
  /\ PickedWaits

\* The candidate's user, in round robin, has the least stamp of its equals.
LEMMA CandidateHasLeastStamp ==
  ASSUME IInv, ~fifo, NEW id \in Candidates, NEW u \in DOMAIN counters, Rival(u, Owner(id))
  PROVE  counters[Owner(id)] < counters[u]
<1>1. PICK v \in Targets : id = Least(queued_users[v])
  BY DEF Candidates
<1>2. v \in Eligible /\ v \in DOMAIN counters /\ v \in Users /\ Waits(v)
  BY DEF Targets, Eligible, IInv, StampTable, StampedIffWaiting
<1>3. Owner(id) = v
  <2>1. id \in queued_users[v]
    BY <1>1, <1>2, LeastIsLeast DEF IInv, TypeOK, Waits
  <2>2. id \in AllQueued
    BY <1>2, <2>1 DEF IInv, TypeOK, AllQueued, Range
  <2>3. QED
    BY <1>2, <2>1, <2>2, QueuedAtOwner DEF IInv
<1>4. u \in Eligible
  BY <1>2, <1>3 DEF Eligible, Rival
<1>5. counters[v] <= counters[u]
  BY <1>4 DEF Targets
<1>6. counters[v] # counters[u] /\ counters[v] \in Nat /\ counters[u] \in Nat
  BY <1>2, <1>3 DEF Rival, IInv, StampTable, StampsDistinct
<1>7. QED
  BY <1>3, <1>5, <1>6

\* There is never more than one candidate.
LEMMA PickedAlone ==
  ASSUME IInv, \A i, j \in picked : i = j, Next
  PROVE  \A i, j \in picked' : i = j
<1>1. CASE Pick
  <2> SUFFICES ASSUME NEW i \in Candidates, NEW j \in Candidates
               PROVE  i = j
    BY <1>1 DEF Pick
  <2>1. PICK id : Candidates = {id}
    BY CandidateOrNone
  <2>2. QED
    BY <2>1
<1>2. CASE ~Pick
  BY <1>2 DEF Next, SetPrivileged, Enqueue, ActivateUnqueued, Finish, Start, Dequeue
<1>3. QED
  BY <1>1, <1>2

\* An upload that is queued keeps its owner.
LEMMA OwnerKept ==
  ASSUME IInv, Next, NEW id \in AllQueued
  PROVE  Owner(id)' = Owner(id)
<1>1. usernames' = usernames \/ \E w \in Users : usernames' = Append(usernames, w)
  BY DEF Next, SetPrivileged, Enqueue, ActivateUnqueued, Finish, Pick, Start, Dequeue
<1>2. id \in Nat /\ id < Len(usernames) /\ usernames \in Seq(Users)
  BY QueuedAtOwner DEF IInv, TypeOK
<1>3. ASSUME NEW w \in Users, usernames' = Append(usernames, w)
      PROVE  usernames'[id + 1] = usernames[id + 1]
  <2>1. id + 1 \in 1 .. Len(usernames)
    <3>1. PICK n \in Nat : n = Len(usernames)
      BY <1>2
    <3>2. QED
      BY <1>2, <3>1
  <2>2. QED
    BY <1>2, <1>3, <2>1
<1>4. QED
  BY <1>1, <1>3 DEF Owner

\* Only a pick and a start change what the driver has in hand.
LEMMA InHandChanges ==
  ASSUME Next, picked' # picked
  PROVE  Pick \/ \E id \in AllQueued : Start(id)
BY DEF Next, SetPrivileged, Enqueue, ActivateUnqueued, Finish, Pick, Start, Dequeue

\* The user of the upload in hand gets no active upload but by one that starts
\* unqueued: whoever else the scheduler could start waits for the driver.
LEMMA PickedWaitsStep ==
  ASSUME IInv, IInv', PickedWaits, RRNext
  PROVE  PickedWaits'
<1>0. Next
  BY DEF RRNext
<1>1. CASE picked' # picked
  <2>1. CASE Pick
    <3> SUFFICES ASSUME NEW i \in Candidates
                 PROVE  Waits(Owner(i))'
      BY <2>1 DEF Pick, PickedWaits
    <3>1. Waits(Owner(i))
      BY CandidateWaits
    <3>2. QED
      BY <2>1, <3>1 DEF Pick, Waits, Owner
  <2>2. CASE \E id \in AllQueued : Start(id)
    BY <2>2 DEF Start, PickedWaits
  <2>3. QED
    BY <1>0, <1>1, <2>1, <2>2, InHandChanges
<1>2. CASE picked' = picked
  <2> SUFFICES ASSUME NEW i \in picked
               PROVE  Waits(Owner(i))' \/ Owner(i)' \in unqueued'
    BY <1>2 DEF PickedWaits
  <2>1. i \in AllQueued
    BY DEF IInv, TypeOK
  <2>2. PICK u \in Users : u = Owner(i) /\ u = Owner(i)'
    BY <1>0, <2>1, OwnerKept, QueuedAtOwner DEF IInv
  <2>3. unqueued' = unqueued \cup {v \in Users : active_users'[v] > active_users[v]}
    BY <1>2 DEF RRNext
  <2>4. active_users[u] \in Nat /\ active_users'[u] \in Nat
    BY DEF IInv, TypeOK
  <2>5. CASE u \in unqueued \/ active_users'[u] > active_users[u]
    BY <2>2, <2>3, <2>5
  <2>6. CASE u \notin unqueued /\ ~ (active_users'[u] > active_users[u])
    <3>1. Waits(u)
      BY <2>2, <2>6 DEF PickedWaits
    <3>2. active_users'[u] = 0
      BY <2>4, <2>6, <3>1 DEF Waits
    <3>3. i \in queued_users'[u]
      BY <1>2, <2>2 DEF IInv, PickedIsFirst
    <3>4. Waits(u)'
      BY <3>2, <3>3 DEF Waits
    <3>5. QED
      BY <2>2, <3>4
  <2>7. QED
    BY <2>5, <2>6
<1>3. QED
  BY <1>1, <1>2

LEMMA InitHInv == RRInit => HInv
<1> SUFFICES ASSUME RRInit
             PROVE  HInv
  OBVIOUS
<1>1. IInv /\ picked = {}
  BY InitIInv DEF RRInit, Init
<1>2. Overtaken
  BY DEF RRInit, Overtaken
<1>3. QED
  BY <1>1, <1>2 DEF HInv, PickedWaits

LEMMA NextHInv == HInv /\ [RRNext]_<<vars, overtaken, unqueued>> => HInv'
<1> SUFFICES ASSUME HInv, [RRNext]_<<vars, overtaken, unqueued>>
             PROVE  HInv'
  OBVIOUS
<1>1. CASE RRNext
  <2>1. IInv /\ Next /\ IInv'
    BY <1>1, NextIInv DEF HInv, RRNext
  <2>2. \A i, j \in picked' : i = j
    BY <2>1, PickedAlone DEF HInv
  <2>3. overtaken \in [Users -> [Users -> Nat]]
    BY DEF HInv, Overtaken
  <2>4. overtaken' \in [Users -> [Users -> Nat]]
    BY <1>1, <2>3 DEF RRNext
  <2>5. ASSUME NEW u \in Users, NEW v \in Users
        PROVE  overtaken'[u][v] =
                 IF ~Waits(u)' THEN 0
                 ELSE IF Waits(u) /\ Rival(u, v) /\ PickedNow(v) THEN overtaken[u][v] + 1
                 ELSE overtaken[u][v]
    BY <1>1 DEF RRNext
  <2>6. \A u, v \in Users : overtaken'[u][v] # 0 => u # v /\ Waits(u)'
    BY <2>5 DEF Rival, HInv, Overtaken
  <2>7. ASSUME NEW u \in Users, NEW v \in Users, ~fifo, Waits(u)', Waits(u), Rival(u, v), PickedNow(v)
        PROVE  overtaken'[u][v] = 1 /\ \E id \in picked' : Owner(id)' = v
    <3>1. Pick
      BY <2>1, <2>7 DEF PickedNow, Next, SetPrivileged, Enqueue, ActivateUnqueued, Finish,
                        Start, Dequeue
    <3>2. PICK id \in Candidates : Owner(id) = v
      BY <2>7, <3>1 DEF PickedNow, Pick
    <3>3. Waits(v) /\ u \in DOMAIN counters
      BY <2>1, <2>7, <3>2, CandidateWaits DEF IInv, StampTable, StampedIffWaiting
    <3>4. counters[v] < counters[u]
      BY <2>1, <2>7, <3>2, <3>3, CandidateHasLeastStamp
    <3>5. counters[u] \in Nat /\ counters[v] \in Nat
      BY <2>1, <3>3 DEF IInv, StampTable, StampedIffWaiting
    <3>6. overtaken[u][v] \in Nat /\ overtaken[u][v] <= 1 /\ overtaken[u][v] # 1
      BY <2>3, <2>7, <3>3, <3>4, <3>5 DEF HInv, Overtaken, PickedNow
    <3>7. overtaken[u][v] = 0
      BY <3>6
    <3>8. QED
      BY <2>5, <2>7, <3>1, <3>2, <3>7 DEF Pick, Owner
  <2>8. ASSUME NEW u \in Users, NEW v \in Users, ~fifo, Waits(u)', overtaken'[u][v] = overtaken[u][v]
        PROVE  /\ overtaken'[u][v] <= 1
               /\ overtaken'[u][v] = 1 /\ Waits(v)' =>
                    counters'[u] < counters'[v] \/ \E id \in picked' : Owner(id)' = v
    <3>1. overtaken'[u][v] <= 1
      BY <2>8 DEF HInv, Overtaken
    <3> SUFFICES ASSUME overtaken[u][v] = 1, Waits(v)'
                 PROVE  counters'[u] < counters'[v] \/ \E id \in picked' : Owner(id)' = v
      BY <2>8, <3>1
    <3>2. Waits(u)
      BY DEF HInv, Overtaken
    <3>3. /\ u \in DOMAIN counters \cap DOMAIN counters' /\ v \in DOMAIN counters'
          /\ counters'[u] = counters[u]
      BY <2>1, <2>8, <3>2, StampStep DEF IInv, StampTable, StampedIffWaiting
    <3>4. CASE ~Waits(v)
      <4>1. counters'[v] = counter + 1
        BY <2>1, <3>3, <3>4, StampStep DEF IInv, StampTable, StampedIffWaiting
      <4>2. counters[u] \in 1 .. counter /\ counter \in Nat
        BY <2>1, <3>3 DEF IInv, StampTable, StampsDistinct
      <4>3. QED
        BY <3>3, <4>1, <4>2
    <3>5. CASE Waits(v) /\ counters[u] < counters[v]
      <4>1. counters'[v] = counters[v]
        BY <2>1, <3>3, <3>5, StampStep DEF IInv, StampTable, StampedIffWaiting
      <4>2. QED
        BY <3>3, <3>5, <4>1
    <3>6. CASE \E id \in picked : Owner(id) = v
      <4>1. PICK id \in picked : Owner(id) = v
        BY <3>6
      <4>2. id \in AllQueued
        BY <2>1 DEF IInv, TypeOK
      <4>3. CASE picked' = picked
        BY <2>1, <4>1, <4>2, <4>3, OwnerKept
      <4>4. CASE picked' # picked
        <5>1. PICK i \in AllQueued : Start(i)
          BY <2>1, <4>1, <4>4, InHandChanges DEF Pick
        <5>2. Owner(i) = v
          BY <4>1, <5>1 DEF HInv, Start
        <5>3. active_users'[v] = active_users[v] + 1 /\ active_users[v] \in Nat
          BY <2>1, <5>1, <5>2 DEF Start, IInv, TypeOK
        <5>4. QED
          BY <5>3 DEF Waits
      <4>5. QED
        BY <4>3, <4>4
    <3>7. QED
      BY <2>8, <3>4, <3>5, <3>6 DEF HInv, Overtaken
  <2>9. Overtaken'
    <3> SUFFICES ASSUME ~fifo, NEW u \in Users, NEW v \in Users
                 PROVE  /\ overtaken'[u][v] <= 1
                        /\ overtaken'[u][v] = 1 /\ Waits(v)' =>
                             counters'[u] < counters'[v] \/ \E id \in picked' : Owner(id)' = v
      <4>1. fifo' = fifo
        BY <2>1 DEF Next, SetPrivileged, Enqueue, ActivateUnqueued, Finish, Pick, Start, Dequeue
      <4>2. QED
        BY <2>4, <2>6, <4>1 DEF Overtaken
    <3>1. CASE ~Waits(u)'
      BY <2>5, <3>1
    <3>2. CASE Waits(u)' /\ Waits(u) /\ Rival(u, v) /\ PickedNow(v)
      BY <2>7, <3>2
    <3>3. CASE Waits(u)' /\ ~(Waits(u) /\ Rival(u, v) /\ PickedNow(v))
      <4>1. overtaken'[u][v] = overtaken[u][v]
        BY <2>5, <3>3
      <4>2. QED
        BY <2>8, <3>3, <4>1
    <3>4. QED
      BY <3>1, <3>2, <3>3
  <2>10. PickedWaits'
    BY <1>1, <2>1, PickedWaitsStep DEF HInv
  <2>11. QED
    BY <2>1, <2>2, <2>9, <2>10 DEF HInv
<1>2. CASE UNCHANGED <<vars, overtaken, unqueued>>
  <2>1. IInv'
    BY <1>2, NextIInv DEF HInv
  <2>2. PickedWaits'
    BY <1>2 DEF HInv, PickedWaits, vars, Waits, Owner
  <2>3. QED
    BY <1>2, <2>1, <2>2 DEF HInv, Overtaken, vars, Waits, Owner
<1>3. QED
  BY <1>1, <1>2

\* The round robin of get_upload_candidate is fair, for any users: however files
\* arrive, end, are given up, start unqueued or are picked, no user that waits sees another of the same
\* privilege picked twice.
THEOREM RoundRobinIsFair == RRSpec => []NoneOvertakesTwice
<1>1. HInv => NoneOvertakesTwice
  BY DEF HInv, Overtaken, NoneOvertakesTwice
<1>2. QED
  BY <1>1, InitHInv, NextHInv, PTL DEF RRSpec

\* Between get_upload_candidate and dequeue with activate, whatever arrives, ends, is
\* given up or starts unqueued, the candidate stays the first of its user's queue, and
\* the user idle unless it started one unqueued itself.
THEOREM CandidateStaysGood == RRSpec => []PickedStillWaits
<1>1. HInv => PickedStillWaits
  BY DEF HInv, IInv, PickedWaits, PickedStillWaits
<1>2. QED
  BY <1>1, InitHInv, NextHInv, PTL DEF RRSpec
=============================================================================
