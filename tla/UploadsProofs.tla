--------------------------- MODULE UploadsProofs ---------------------------
EXTENDS Uploads, TLAPS, FiniteSetTheorems, SequenceTheorems

-----------------------------------------------------------------------------
(* The registry as a value: what insertion and removal do to the ids.      *)

\* A registry of uploads whose ids are below n, each in one entry.
RegistryOf(r, n) ==
  /\ DOMAIN r \subseteq Tokens
  /\ IsFiniteSet(DOMAIN r)
  /\ r \in [DOMAIN r -> Pending]
  /\ \A t \in DOMAIN r : r[t].transfer_id < n
  /\ \A t, u \in DOMAIN r : r[t].transfer_id = r[u].transfer_id => t = u

AllIdsOf(r) == IdsOf(r, DOMAIN r)

LEMMA WithoutRegistry ==
  ASSUME NEW r, NEW n \in Nat, RegistryOf(r, n), NEW S
  PROVE  /\ RegistryOf(Without(r, S), n)
         /\ AllIdsOf(Without(r, S)) \subseteq AllIdsOf(r)
         /\ S \subseteq DOMAIN r => AllIdsOf(Without(r, S)) = AllIdsOf(r) \ IdsOf(r, S)
<1> DEFINE q == Without(r, S)
<1>1. DOMAIN q = DOMAIN r \ S /\ \A t \in DOMAIN q : q[t] = r[t]
  BY DEF Without, Restrict
<1>2. IsFiniteSet(DOMAIN q)
  <2>1. IsFiniteSet(DOMAIN r \ S)
    BY FS_Difference DEF RegistryOf
  <2>2. QED
    BY <1>1, <2>1
<1>3. q \in [DOMAIN q -> Pending]
  BY <1>1 DEF RegistryOf, Without, Restrict
<1>4. RegistryOf(q, n)
  BY <1>1, <1>2, <1>3 DEF RegistryOf
<1>5. AllIdsOf(q) \subseteq AllIdsOf(r)
  BY <1>1 DEF AllIdsOf, IdsOf
<1>6. ASSUME S \subseteq DOMAIN r
      PROVE  AllIdsOf(q) = AllIdsOf(r) \ IdsOf(r, S)
  <2> HIDE DEF q
  <2>1. AllIdsOf(q) = {r[t].transfer_id : t \in DOMAIN r \ S}
    BY <1>1 DEF AllIdsOf, IdsOf
  <2>2. QED
    BY <1>6, <2>1 DEF AllIdsOf, IdsOf, RegistryOf
<1>7. QED
  BY <1>4, <1>5, <1>6

LEMMA WithRegistry ==
  ASSUME NEW r, NEW n \in Nat, RegistryOf(r, n), NEW tok \in Tokens,
         NEW up \in Pending, up.transfer_id = n
  PROVE  /\ RegistryOf(With(r, tok, up), n + 1)
         /\ AllIdsOf(With(r, tok, up))
              = (AllIdsOf(r) \ IdsOf(r, {tok} \cap DOMAIN r)) \cup {n}
<1> DEFINE q == With(r, tok, up)
<1>1. /\ DOMAIN q = DOMAIN r \cup {tok} /\ q[tok] = up
      /\ \A t \in DOMAIN q \ {tok} : t \in DOMAIN r /\ q[t] = r[t]
  BY DEF With
<1>2. IsFiniteSet(DOMAIN q)
  BY <1>1, FS_AddElement DEF RegistryOf
<1>3. q \in [DOMAIN q -> Pending]
  BY <1>1 DEF RegistryOf, With
<1>4. \A t \in DOMAIN q : q[t].transfer_id < n + 1 /\ q[t].transfer_id \in Nat
  BY <1>1, <1>3 DEF RegistryOf, Pending
<1>5. \A t \in DOMAIN q \ {tok} : q[t].transfer_id # n
  BY <1>1, <1>4 DEF RegistryOf
<1>6. RegistryOf(q, n + 1)
  BY <1>1, <1>2, <1>3, <1>4, <1>5 DEF RegistryOf
<1> HIDE DEF q
<1>7. AllIdsOf(q) \subseteq (AllIdsOf(r) \ IdsOf(r, {tok} \cap DOMAIN r)) \cup {n}
  <2>1. ASSUME NEW t \in DOMAIN q
        PROVE  q[t].transfer_id \in (AllIdsOf(r) \ IdsOf(r, {tok} \cap DOMAIN r)) \cup {n}
    <3>1. CASE t = tok
      BY <1>1, <3>1
    <3>2. CASE t # tok
      BY <1>1, <3>2 DEF AllIdsOf, IdsOf, RegistryOf
    <3>3. QED
      BY <3>1, <3>2
  <2>2. QED
    BY <2>1 DEF AllIdsOf, IdsOf
<1>8. (AllIdsOf(r) \ IdsOf(r, {tok} \cap DOMAIN r)) \cup {n} \subseteq AllIdsOf(q)
  <2>1. \A t \in DOMAIN r \ {tok} : t \in DOMAIN q /\ q[t] = r[t]
    BY <1>1
  <2>2. tok \in DOMAIN q /\ q[tok].transfer_id = n
    BY <1>1
  <2>3. QED
    BY <2>1, <2>2 DEF AllIdsOf, IdsOf
<1>9. RegistryOf(q, n + 1) /\ AllIdsOf(q) = (AllIdsOf(r) \ IdsOf(r, {tok} \cap DOMAIN r)) \cup {n}
  BY <1>6, <1>7, <1>8
<1>10. QED
  BY <1>9 DEF q

-----------------------------------------------------------------------------
(* The slot gate. *)

LEMMA ClaimableBounds ==
  ASSUME NEW n \in Nat, NEW busy \in Nat, Slots # 0 => busy <= Slots
  PROVE  /\ Claimable(n, busy) \in 0 .. n
         /\ Slots # 0 => busy + Claimable(n, busy) <= Slots
         /\ Claimable(n, busy) = n \/ (Slots # 0 /\ busy + Claimable(n, busy) = Slots)
BY UploadsAssumption DEF Claimable

\* pump_uploads starts jobs from the front, each once, up to the slots, and stops
\* only when no job waits or no slot is free.
LEMMA PumpGate ==
  ASSUME NEW jobs \in Seq(Nat), IsInjective(jobs), Range(jobs) \cap streaming = {},
         IsFiniteSet(streaming), SlotsAccounted, active \in Nat, Pump(jobs)
  PROVE  /\ waiting' \in Seq(Nat) /\ IsInjective(waiting')
         /\ Range(waiting') \cap streaming' = {}
         /\ Range(waiting') \cup streaming' = Range(jobs) \cup streaming
         /\ IsFiniteSet(streaming') /\ active' \in Nat
         /\ SlotsAccounted'
         /\ waiting' = <<>> \/ (Slots # 0 /\ active' = Slots)
<1> DEFINE n == Claimable(Len(jobs), active)
           started == {jobs[i] : i \in 1 .. n}
<1>1. /\ n \in 0 .. Len(jobs) /\ Len(jobs) \in Nat
      /\ Slots # 0 => active + n <= Slots
      /\ n = Len(jobs) \/ (Slots # 0 /\ active + n = Slots)
  <2>1. Len(jobs) \in Nat /\ (Slots # 0 => active <= Slots)
    BY DEF SlotsAccounted
  <2>2. QED
    BY <2>1, ClaimableBounds
<1>2. /\ waiting' = SubSeq(jobs, n + 1, Len(jobs))
      /\ streaming' = streaming \cup started
      /\ active' = active + n
  BY DEF Pump
<1> HIDE DEF n
<1>3. /\ waiting' \in Seq(Nat) /\ Len(waiting') = Len(jobs) - n
      /\ DOMAIN waiting' = 1 .. Len(waiting')
      /\ \A i \in 1 .. Len(waiting') : waiting'[i] = jobs[n + i]
  BY <1>1, <1>2
<1>4. \A i, j \in 1 .. Len(jobs) : jobs[i] = jobs[j] => i = j
  BY DEF IsInjective
<1>5. IsInjective(waiting')
  <2> SUFFICES ASSUME NEW i \in DOMAIN waiting', NEW j \in DOMAIN waiting',
                      waiting'[i] = waiting'[j]
               PROVE  i = j
    BY DEF IsInjective
  <2>1. i \in 1 .. Len(waiting') /\ j \in 1 .. Len(waiting')
    BY <1>3
  <2>2. jobs[n + i] = jobs[n + j]
    BY <1>3, <2>1
  <2>3. n + i \in 1 .. Len(jobs) /\ n + j \in 1 .. Len(jobs)
    <3>1. n \in Nat /\ Len(jobs) \in Nat /\ Len(waiting') = Len(jobs) - n
      BY <1>1, <1>3
    <3>2. QED
      BY <2>1, <3>1, SMTT(30)
  <2>4. n + i = n + j
    BY <1>4, <2>2, <2>3
  <2>5. QED
    BY <1>1, <2>1, <2>4
<1>6. Range(jobs) = {jobs[i] : i \in 1 .. Len(jobs)}
  BY DEF Range
<1>7. Range(waiting') = {jobs[i] : i \in n + 1 .. Len(jobs)}
  <2>1. Range(waiting') = {waiting'[i] : i \in 1 .. Len(jobs) - n}
    BY <1>3 DEF Range
  <2>2. \A i \in 1 .. Len(jobs) - n : n + i \in n + 1 .. Len(jobs) /\ waiting'[i] = jobs[n + i]
    BY <1>1, <1>3, SMTT(30)
  <2>3. ASSUME NEW i \in n + 1 .. Len(jobs)
        PROVE  i - n \in 1 .. Len(jobs) - n /\ jobs[i] = waiting'[i - n]
    <3>1. n \in Nat /\ Len(jobs) \in Nat
      BY <1>1
    <3>2. i - n \in 1 .. Len(jobs) - n /\ n + (i - n) = i
      BY <3>1
    <3>3. waiting'[i - n] = jobs[n + (i - n)]
      BY <1>3, <3>2
    <3>4. QED
      BY <3>2, <3>3
  <2>4. QED
    BY <2>1, <2>2, <2>3
<1>8. /\ Range(waiting') \cap started = {}
      /\ Range(waiting') \cup started = Range(jobs)
  BY <1>1, <1>4, <1>6, <1>7
<1>9. started \subseteq Range(jobs) /\ started \cap streaming = {}
  BY <1>8
<1>10. IsFiniteSet(started) /\ Cardinality(started) = n
  <2> DEFINE f == [i \in 1 .. n |-> jobs[i]]
  <2>1. f \in Bijection(1 .. n, started)
    BY <1>1, <1>4 DEF Bijection, Injection, Surjection, IsInjective
  <2>2. IsFiniteSet(1 .. n) /\ Cardinality(1 .. n) = n
    BY <1>1, FS_Interval
  <2>3. ExistsBijection(1 .. n, started)
    BY <2>1 DEF ExistsBijection
  <2> HIDE DEF started
  <2>4. QED
    BY <2>2, <2>3, FS_Bijection
<1>11. IsFiniteSet(streaming') /\ Cardinality(streaming') = Cardinality(streaming) + n
  <2> HIDE DEF started
  <2>1. streaming \cap started = {}
    BY <1>9
  <2>2. /\ IsFiniteSet(streaming')
        /\ Cardinality(streaming') = Cardinality(streaming) + n - Cardinality(streaming \cap started)
    BY <1>2, <1>10, FS_Union
  <2>3. Cardinality(streaming) \in Nat
    BY FS_CardinalityType
  <2>4. Cardinality(streaming \cap started) = 0
    BY <2>1, FS_EmptySet
  <2>5. QED
    BY <1>1, <2>2, <2>3, <2>4
<1>12. SlotsAccounted'
  BY <1>1, <1>2, <1>11 DEF SlotsAccounted
<1>13. waiting' = <<>> \/ (Slots # 0 /\ active' = Slots)
  BY <1>1, <1>2, <1>3
<1>14. QED
  BY <1>1, <1>2, <1>3, <1>5, <1>8, <1>9, <1>11, <1>12, <1>13

-----------------------------------------------------------------------------
(* The inductive invariant: types, the registry, and the homes of the ids. *)
(* No property stands alone: slots are counted right only while no job is  *)
(* started twice, and that only while ids in the registry, in the gate and *)
(* in the streams are apart and below next_id.                             *)

IInv ==
  /\ TypeOK
  /\ RegistryOf(by_token, next_id)
  /\ Waiting \subseteq Ids
  /\ IsFiniteSet(streaming)
  /\ OneHome
  /\ SlotsAccounted
  /\ NoIdleSlot

\* Where the ids are, as a predicate on the places.
Apart(pending, jobs, streams, served) ==
  /\ IsInjective(jobs)
  /\ pending \cap (Range(jobs) \cup streams \cup served) = {}
  /\ Range(jobs) \cap (streams \cup served) = {}
  /\ streams \cap served = {}

LEMMA OneHomeApart ==
  ASSUME RegistryOf(by_token, next_id)
  PROVE  OneHome <=> Apart(AllIdsOf(by_token), waiting, streaming, serving)
BY DEF OneHome, Apart, RegistryOf, AllIdsOf, Registered, Waiting

LEMMA TokenTypes ==
  /\ \A p \in Peers : PeerTokens[p] \subseteq Tokens
  /\ \A n \in FirstToken .. FirstToken + MaxOffers :
       n < FirstToken + MaxOffers => n \in Tokens /\ n + 1 \in FirstToken .. FirstToken + MaxOffers
BY UploadsAssumption DEF Tokens, Range

\* The head of a channel, and what is left of it.
LEMMA HeadOfChannel ==
  ASSUME NEW S, NEW ch \in Seq(S), ch # <<>>
  PROVE  Head(ch) \in S /\ Tail(ch) \in Seq(S)
         /\ \A m \in Range(ch) : m = Head(ch) \/ m \in Range(Tail(ch))
<1>1. /\ Head(ch) = ch[1] /\ Head(ch) \in S /\ Tail(ch) \in Seq(S)
      /\ Len(Tail(ch)) = Len(ch) - 1 /\ DOMAIN Tail(ch) = 1 .. Len(ch) - 1
      /\ \A i \in 1 .. Len(Tail(ch)) : Tail(ch)[i] = ch[i + 1]
  BY HeadTailProperties
<1>2. ASSUME NEW i \in 1 .. Len(ch), i # 1
      PROVE  ch[i] \in Range(Tail(ch))
  <2>1. i - 1 \in DOMAIN Tail(ch)
    BY <1>1, <1>2
  <2>2. Tail(ch)[i - 1] = ch[i]
    BY <1>1, <1>2, <2>1
  <2>3. QED
    BY <2>1, <2>2 DEF Range
<1>3. QED
  BY <1>1, <1>2 DEF Range

LEMMA AppendToChannel ==
  ASSUME NEW S, NEW ch \in Seq(S), NEW m \in S
  PROVE  /\ Append(ch, m) \in Seq(S)
         /\ Range(Append(ch, m)) = Range(ch) \cup {m}
<1>1. /\ Append(ch, m) \in Seq(S) /\ Len(Append(ch, m)) = Len(ch) + 1
      /\ Append(ch, m)[Len(ch) + 1] = m
      /\ \A i \in 1 .. Len(ch) : Append(ch, m)[i] = ch[i]
  BY AppendProperties
<1>2. DOMAIN Append(ch, m) = 1 .. Len(ch) + 1 /\ DOMAIN ch = 1 .. Len(ch)
  BY <1>1
<1>3. 1 .. Len(ch) + 1 = (1 .. Len(ch)) \cup {Len(ch) + 1}
  OBVIOUS
<1>4. QED
  BY <1>1, <1>2, <1>3 DEF Range

LEMMA InitIInv == Init => IInv
<1> SUFFICES ASSUME Init
             PROVE  IInv
  OBVIOUS
<1>1. /\ DOMAIN by_token = {} /\ waiting = <<>> /\ Waiting = {}
      /\ by_token \in [DOMAIN by_token -> Pending]
  BY DEF Init, Waiting, Range
<1>2. IsFiniteSet({}) /\ Cardinality({}) = 0
  BY FS_EmptySet
<1>3. TypeOK
  BY <1>1, UploadsAssumption DEF Init, TypeOK
<1>4. RegistryOf(by_token, next_id)
  BY <1>1, <1>2 DEF RegistryOf
<1>5. OneHome
  BY <1>1 DEF Init, OneHome, Registered, IsInjective, Waiting
<1>6. QED
  BY <1>1, <1>2, <1>3, <1>4, <1>5, UploadsAssumption DEF Init, IInv, SlotsAccounted, NoIdleSlot

-----------------------------------------------------------------------------
(* What the operations on the registry keep. *)

Homes ==
  /\ next_id \in Nat
  /\ RegistryOf(by_token, next_id)
  /\ queued \subseteq Ids /\ streaming \subseteq Ids /\ serving \subseteq Ids
  /\ Waiting \subseteq Ids
  /\ OneHome

LEMMA RegisterKeepsHomes ==
  ASSUME Homes, NEW p \in Peers, NEW tok \in Tokens, NEW gone,
         Register(p, tok, gone), UNCHANGED <<gate, serving>>
  PROVE  Homes'
<1> DEFINE grown == With(by_token, tok, Offer(p))
<1>1. Offer(p) \in Pending /\ Offer(p).transfer_id = next_id
  BY DEF Offer, Pending, Homes
<1>2. RegistryOf(grown, next_id + 1) /\ AllIdsOf(grown) \subseteq AllIdsOf(by_token) \cup {next_id}
  <2>1. next_id \in Nat /\ RegistryOf(by_token, next_id)
    BY DEF Homes
  <2>2. /\ RegistryOf(grown, next_id + 1)
        /\ AllIdsOf(grown)
             = (AllIdsOf(by_token) \ IdsOf(by_token, {tok} \cap DOMAIN by_token)) \cup {next_id}
    BY <1>1, <2>1, WithRegistry
  <2> HIDE DEF grown
  <2>3. QED
    BY <2>2
<1> HIDE DEF grown
<1>3. by_token' = Without(grown, gone) /\ next_id' = next_id + 1 /\ next_id' \in Nat
  BY DEF Register, grown, Homes
<1>4. RegistryOf(by_token', next_id') /\ AllIdsOf(by_token') \subseteq AllIdsOf(by_token) \cup {next_id}
  BY <1>2, <1>3, WithoutRegistry
<1>5. Ids' = Ids \cup {next_id} /\ next_id \notin Ids
  BY <1>3 DEF Ids, Homes
<1>6. /\ queued' \subseteq Ids' /\ streaming' = streaming /\ serving' = serving
      /\ waiting' = waiting /\ Waiting' = Waiting
  BY <1>5 DEF Register, Homes, gate, Waiting
<1>7. Apart(AllIdsOf(by_token), waiting, streaming, serving)
  BY OneHomeApart DEF Homes
<1>8. Apart(AllIdsOf(by_token'), waiting', streaming', serving')
  BY <1>4, <1>5, <1>6, <1>7 DEF Apart, Homes, Waiting
<1>9. OneHome'
  BY <1>4, <1>8 DEF OneHome, Apart, RegistryOf, AllIdsOf, Registered, Waiting
<1>10. QED
  BY <1>3, <1>4, <1>5, <1>6, <1>9 DEF Homes

LEMMA RegisterKeepsReplaced ==
  ASSUME Homes, replaced \subseteq Ids, NEW p, NEW tok, NEW gone, Register(p, tok, gone)
  PROVE  replaced' \subseteq Ids'
<1>1. IdsOf(by_token, {tok} \cap Registered) \subseteq Ids
  BY DEF Homes, RegistryOf, Pending, IdsOf, Registered, Ids
<1>2. Ids \subseteq Ids'
  BY DEF Homes, Register, Ids
<1>3. QED
  BY <1>1, <1>2 DEF Register

\* Uploads that leave the registry under toks may go to the gate's jobs, or to the
\* served ones, but not to both.
LEMMA DropKeepsHomes ==
  ASSUME Homes, NEW toks \in SUBSET Registered, Drop(toks), UNCHANGED next_id,
         streaming' \subseteq Ids /\ serving' \subseteq Ids /\ Range(waiting') \subseteq Ids,
         IsInjective(waiting'),
         Range(waiting') \cap streaming' = {},
         (Range(waiting') \cup streaming') \cap serving' = {},
         Range(waiting') \cup streaming' \cup serving' \subseteq
           Waiting \cup streaming \cup serving \cup IdsOf(by_token, toks)
  PROVE  Homes'
<1>1. /\ RegistryOf(by_token', next_id)
      /\ AllIdsOf(by_token') = AllIdsOf(by_token) \ IdsOf(by_token, toks)
  BY WithoutRegistry DEF Drop, Homes, Registered
<1>2. AllIdsOf(by_token) \cap (Waiting \cup streaming \cup serving) = {}
  BY OneHomeApart DEF Homes, Apart, Waiting
<1>3. AllIdsOf(by_token') \cap (Range(waiting') \cup streaming' \cup serving') = {}
  BY <1>1, <1>2
<1>4. OneHome'
  BY <1>1, <1>3 DEF OneHome, RegistryOf, AllIdsOf, Registered, Waiting
<1>5. queued' \subseteq Ids' /\ Ids' = Ids
  BY DEF Drop, Homes, Ids
<1>6. QED
  BY <1>1, <1>4, <1>5 DEF Homes, Waiting

LEMMA IInvHomes == IInv => Homes
BY DEF IInv, TypeOK, Homes

-----------------------------------------------------------------------------
(* The steps.  Types of the channels and the remote side first. *)

LEMMA MessageTypes ==
  /\ \A p \in Peers : StartUpload(p) \in Command /\ ResolveUploadPeer(p) \in BusMessage
  /\ \A p \in Peers, on \in BOOLEAN :
       UploadConnect(p, on) \in Command /\ PeerUploadConnect(p, on) \in BusMessage
  /\ PumpUploads \in Command
BY DEF StartUpload, ResolveUploadPeer, UploadConnect, PeerUploadConnect, PumpUploads, Command,
       BusMessage

\* A gate that nobody touches keeps its invariants while no PumpUploads is taken.
LEMMA GateUntouched ==
  ASSUME IInv, UNCHANGED gate, PumpUploads \in Range(cmds) => PumpUploads \in Range(cmds')
  PROVE  SlotsAccounted' /\ NoIdleSlot' /\ IsFiniteSet(streaming')
BY DEF IInv, gate, SlotsAccounted, NoIdleSlot

LEMMA OnQueueUploadStep ==
  ASSUME IInv, NEW p \in Peers, OnQueueUpload(p)
  PROVE  IInv'
<1>1. next_token \in Tokens /\ next_token + 1 \in FirstToken .. FirstToken + MaxOffers
  BY TokenTypes DEF IInv, TypeOK, OnQueueUpload
<1>2. Homes'
  BY <1>1, IInvHomes, RegisterKeepsHomes DEF OnQueueUpload
<1>3. SlotsAccounted' /\ NoIdleSlot' /\ IsFiniteSet(streaming')
  BY GateUntouched DEF OnQueueUpload
<1>4. replaced' \subseteq Ids'
  BY IInvHomes, RegisterKeepsReplaced DEF IInv, TypeOK, OnQueueUpload
<1>5. TypeOK'
  BY <1>1, <1>2, <1>4 DEF IInv, TypeOK, OnQueueUpload, Homes, RegistryOf, gate, session
<1>6. QED
  BY <1>2, <1>3, <1>5 DEF IInv, Homes

LEMMA OnTransferRequestDownloadStep ==
  ASSUME IInv, NEW p \in Peers, NEW tok \in Tokens, OnTransferRequestDownload(p, tok)
  PROVE  IInv'
<1>1. Homes'
  BY IInvHomes, RegisterKeepsHomes DEF OnTransferRequestDownload
<1>2. SlotsAccounted' /\ NoIdleSlot' /\ IsFiniteSet(streaming')
  BY GateUntouched DEF OnTransferRequestDownload
<1>3. replaced' \subseteq Ids'
  BY IInvHomes, RegisterKeepsReplaced DEF IInv, TypeOK, OnTransferRequestDownload
<1>4. requests' \in 0 .. MaxRequests
  BY UploadsAssumption, SMTT(30) DEF IInv, TypeOK, OnTransferRequestDownload
<1>5. TypeOK'
  BY <1>1, <1>3, <1>4, SMTT(30)
     DEF IInv, TypeOK, OnTransferRequestDownload, Homes, RegistryOf, gate, session
<1>6. QED
  BY <1>1, <1>2, <1>5 DEF IInv, Homes

LEMMA OnTransferResponseStep ==
  ASSUME IInv, NEW p \in Peers, NEW tok \in Tokens, NEW ok \in BOOLEAN,
         OnTransferResponse(p, tok, ok)
  PROVE  IInv'
<1>1. /\ UNCHANGED <<next_token, next_id, replaced, gate, serving, bus, session, tickets, requests>>
      /\ offers' \subseteq offers
  BY DEF OnTransferResponse
<1>2. cmds' = cmds \/ cmds' = Append(cmds, StartUpload(p))
  BY DEF OnTransferResponse
<1>3. cmds' \in Seq(Command) /\ Range(cmds) \subseteq Range(cmds')
  <2>1. cmds \in Seq(Command) /\ StartUpload(p) \in Command
    BY MessageTypes DEF IInv, TypeOK
  <2>2. /\ Append(cmds, StartUpload(p)) \in Seq(Command)
        /\ Range(cmds) \subseteq Range(Append(cmds, StartUpload(p)))
    BY <2>1, AppendToChannel
  <2>3. QED
    BY <1>2, <2>1, <2>2
<1>4. Homes'
  <2>1. CASE tok \in Registered /\ ok /\ by_token' = [by_token EXCEPT ![tok].approved = TRUE]
             /\ UNCHANGED queued
    <3>1. /\ DOMAIN by_token' = DOMAIN by_token
          /\ by_token' \in [DOMAIN by_token' -> Pending]
          /\ \A t \in DOMAIN by_token : by_token'[t].transfer_id = by_token[t].transfer_id
      BY <2>1, ZenonT(30) DEF IInv, RegistryOf, Pending, Registered
    <3>2. RegistryOf(by_token', next_id') /\ AllIdsOf(by_token') = AllIdsOf(by_token)
      BY <1>1, <3>1 DEF IInv, RegistryOf, AllIdsOf, IdsOf
    <3>3. Waiting' = Waiting /\ Ids' = Ids
      BY <1>1 DEF gate, Waiting, Ids
    <3>4. Apart(AllIdsOf(by_token'), waiting', streaming', serving')
      BY <1>1, <3>2, OneHomeApart DEF IInv, gate
    <3>5. OneHome'
      BY <3>2, <3>4 DEF OneHome, Apart, RegistryOf, AllIdsOf, Registered, Waiting
    <3>6. QED
      BY <1>1, <2>1, <3>2, <3>3, <3>5, IInvHomes DEF Homes, gate
  <2>2. CASE tok \in Registered /\ Drop({tok})
    <3>1. IsInjective(waiting) /\ Waiting \cap (streaming \cup serving) = {} /\ streaming \cap serving = {}
      BY DEF IInv, OneHome
    <3>2. QED
      BY <1>1, <2>2, <3>1, IInvHomes, DropKeepsHomes DEF Homes, gate, Waiting
  <2>3. CASE UNCHANGED <<by_token, queued>>
    BY <1>1, <2>3, IInvHomes DEF Homes, gate, Waiting, Ids, OneHome, Registered
  <2>4. QED
    BY <2>1, <2>2, <2>3 DEF OnTransferResponse
<1>5. SlotsAccounted' /\ NoIdleSlot' /\ IsFiniteSet(streaming')
  BY <1>1, <1>3, GateUntouched
<1>6. TypeOK'
  BY <1>1, <1>3, <1>4 DEF IInv, TypeOK, Homes, Ids, RegistryOf, gate, session
<1>7. QED
  BY <1>4, <1>5, <1>6 DEF IInv, Homes

LEMMA RecvFileStep ==
  ASSUME IInv, NEW p \in Peers, NEW tok \in Tokens, RecvFile(p, tok)
  PROVE  IInv'
<1>1. /\ UNCHANGED <<next_token, next_id, replaced, gate, cmds, bus, session, offers, requests>>
      /\ tickets' \subseteq tickets
  BY DEF RecvFile
<1>2. /\ IsInjective(waiting) /\ Waiting \cap (streaming \cup serving) = {}
      /\ streaming \cap serving = {}
      /\ AllIdsOf(by_token) \cap (Waiting \cup streaming \cup serving) = {}
  BY DEF IInv, OneHome, AllIdsOf, Registered
<1>3. Homes'
  <2>1. CASE Collectable(p, tok) /\ Drop({tok})
             /\ serving' = serving \cup {by_token[tok].transfer_id}
    <3>1. IdsOf(by_token, {tok}) = {by_token[tok].transfer_id} /\ {tok} \in SUBSET Registered
      BY <2>1 DEF IdsOf, Collectable
    <3>2. by_token[tok].transfer_id \in AllIdsOf(by_token) /\ by_token[tok].transfer_id \in Ids
      BY <2>1, <3>1 DEF AllIdsOf, IdsOf, Collectable, Registered, IInv, RegistryOf, Pending,
                        Ids, TypeOK
    <3>3. QED
      BY <1>1, <1>2, <2>1, <3>1, <3>2, IInvHomes, DropKeepsHomes DEF Homes, gate, Waiting
  <2>2. CASE UNCHANGED <<by_token, queued, serving>>
    BY <1>1, <2>2, IInvHomes DEF Homes, gate, Waiting, Ids, OneHome, Registered
  <2>3. QED
    BY <2>1, <2>2 DEF RecvFile
<1>4. SlotsAccounted' /\ NoIdleSlot' /\ IsFiniteSet(streaming')
  BY <1>1, GateUntouched
<1>5. TypeOK'
  BY <1>1, <1>3 DEF IInv, TypeOK, Homes, Ids, RegistryOf, gate, session
<1>6. QED
  BY <1>3, <1>4, <1>5 DEF IInv, Homes

LEMMA FinishServeStep ==
  ASSUME IInv, NEW id \in serving, FinishServe(id)
  PROVE  IInv'
<1>1. UNCHANGED <<registry, gate, cmds, bus, session, remote>> /\ serving' \subseteq serving
  BY DEF FinishServe
<1>2. SlotsAccounted' /\ NoIdleSlot' /\ IsFiniteSet(streaming')
  BY <1>1, GateUntouched
<1>3. QED
  BY <1>1, <1>2 DEF IInv, TypeOK, OneHome, RegistryOf, Registered, Waiting, Ids, registry, gate,
                    session, remote

LEMMA FinishUploadStep ==
  ASSUME IInv, NEW id \in streaming, FinishUpload(id)
  PROVE  IInv'
<1>1. /\ UNCHANGED <<registry, waiting, serving, bus, session, remote>>
      /\ streaming' = streaming \ {id} /\ active' = active - 1
      /\ cmds' = Append(cmds, PumpUploads)
  BY DEF FinishUpload
<1>2. cmds' \in Seq(Command) /\ PumpUploads \in Range(cmds')
  BY <1>1, MessageTypes, AppendToChannel DEF IInv, TypeOK
<1>3. /\ IsFiniteSet(streaming') /\ Cardinality(streaming') = Cardinality(streaming) - 1
      /\ Cardinality(streaming') \in Nat
  BY <1>1, FS_RemoveElement, FS_CardinalityType DEF IInv
<1>4. active' \in Nat /\ SlotsAccounted'
  BY <1>1, <1>3, UploadsAssumption, SMTT(30) DEF IInv, SlotsAccounted, TypeOK
<1>5. NoIdleSlot'
  BY <1>2 DEF NoIdleSlot
<1>6. OneHome'
  BY <1>1 DEF IInv, OneHome, Registered, Waiting, registry
<1>7. TypeOK'
  BY <1>1, <1>2, <1>4 DEF IInv, TypeOK, Ids, registry, session, remote
<1>8. QED
  BY <1>1, <1>3, <1>4, <1>5, <1>6, <1>7 DEF IInv, RegistryOf, Waiting, Ids, registry

-----------------------------------------------------------------------------
(* The command loop. *)

\* Taking a command leaves the later ones.
LEMMA NextCommand ==
  ASSUME IInv, NEW kind, NextCmd(kind)
  PROVE  /\ cmds # <<>> /\ Head(cmds) \in Command /\ Head(cmds).kind = kind
         /\ cmds' \in Seq(Command)
         /\ kind # "PumpUploads" /\ PumpUploads \in Range(cmds) => PumpUploads \in Range(cmds')
<1>1. cmds \in Seq(Command) /\ cmds # <<>> /\ cmds' = Tail(cmds) /\ Head(cmds).kind = kind
  BY DEF IInv, TypeOK, NextCmd
<1>2. /\ Head(cmds) \in Command /\ Tail(cmds) \in Seq(Command)
      /\ \A m \in Range(cmds) : m = Head(cmds) \/ m \in Range(Tail(cmds))
  BY <1>1, HeadOfChannel
<1>3. PumpUploads.kind = "PumpUploads"
  BY DEF PumpUploads
<1>4. QED
  BY <1>1, <1>2, <1>3

LEMMA CmdStartUploadStep ==
  ASSUME IInv, CmdStartUpload
  PROVE  IInv'
<1>1. /\ NextCmd("StartUpload")
      /\ bus' = Append(bus, ResolveUploadPeer(Head(cmds).username))
      /\ UNCHANGED <<registry, gate, serving, session, remote>>
  BY DEF CmdStartUpload
<1>2. /\ cmds' \in Seq(Command) /\ Head(cmds) \in Command /\ Head(cmds).kind = "StartUpload"
      /\ PumpUploads \in Range(cmds) => PumpUploads \in Range(cmds')
  BY <1>1, NextCommand
<1>3. Head(cmds).username \in Peers
  BY <1>2 DEF Command
<1>4. bus' \in Seq(BusMessage)
  BY <1>1, <1>3, MessageTypes, AppendToChannel DEF IInv, TypeOK
<1>5. SlotsAccounted' /\ NoIdleSlot' /\ IsFiniteSet(streaming')
  BY <1>1, <1>2, GateUntouched
<1>6. QED
  BY <1>1, <1>2, <1>4, <1>5 DEF IInv, TypeOK, OneHome, RegistryOf, Registered, Waiting, Ids,
                                registry, gate, session, remote

\* Pumping jobs that have no home but the gate keeps everything right.
LEMMA PumpKeeps ==
  ASSUME IInv, NEW jobs \in Seq(Nat), IsInjective(jobs), Range(jobs) \subseteq Ids,
         Range(jobs) \cap (streaming \cup serving) = {}, Pump(jobs), UNCHANGED <<serving, next_id>>
  PROVE  /\ waiting' \in Seq(Nat) /\ active' \in Nat /\ IsFiniteSet(streaming')
         /\ Range(waiting') \subseteq Ids /\ streaming' \subseteq Ids
         /\ SlotsAccounted' /\ NoIdleSlot'
         /\ IsInjective(waiting')
         /\ Range(waiting') \cap streaming' = {}
         /\ (Range(waiting') \cup streaming') \cap serving' = {}
         /\ Range(waiting') \cup streaming' = Range(jobs) \cup streaming
<1>1. /\ waiting' \in Seq(Nat) /\ IsInjective(waiting')
      /\ Range(waiting') \cap streaming' = {}
      /\ Range(waiting') \cup streaming' = Range(jobs) \cup streaming
      /\ IsFiniteSet(streaming') /\ active' \in Nat
      /\ SlotsAccounted'
      /\ waiting' = <<>> \/ (Slots # 0 /\ active' = Slots)
  BY PumpGate DEF IInv, TypeOK
<1>2. NoIdleSlot'
  BY <1>1, UploadsAssumption DEF NoIdleSlot
<1>3. streaming \subseteq Ids /\ streaming \cap serving = {}
  BY DEF IInv, TypeOK, OneHome
<1>4. QED
  BY <1>1, <1>2, <1>3

LEMMA CmdPumpUploadsStep ==
  ASSUME IInv, CmdPumpUploads
  PROVE  IInv'
<1>1. /\ NextCmd("PumpUploads") /\ Pump(waiting)
      /\ UNCHANGED <<registry, serving, bus, session, remote>>
  BY DEF CmdPumpUploads
<1>2. cmds' \in Seq(Command)
  BY <1>1, NextCommand
<1>3. /\ waiting \in Seq(Nat) /\ IsInjective(waiting) /\ Range(waiting) \subseteq Ids
      /\ Range(waiting) \cap (streaming \cup serving) = {} /\ UNCHANGED <<serving, next_id>>
  BY <1>1 DEF IInv, TypeOK, OneHome, Waiting, registry
<1>4. /\ waiting' \in Seq(Nat) /\ active' \in Nat /\ IsFiniteSet(streaming')
      /\ Range(waiting') \subseteq Ids /\ streaming' \subseteq Ids
      /\ SlotsAccounted' /\ NoIdleSlot'
      /\ IsInjective(waiting')
      /\ Range(waiting') \cap streaming' = {}
      /\ (Range(waiting') \cup streaming') \cap serving' = {}
      /\ Range(waiting') \cup streaming' = Range(waiting) \cup streaming
  BY <1>1, <1>3, PumpKeeps
<1>5. OneHome'
  BY <1>1, <1>4 DEF IInv, OneHome, Registered, Waiting, registry
<1>6. TypeOK'
  BY <1>1, <1>2, <1>4 DEF IInv, TypeOK, Ids, registry, session, remote
<1>7. QED
  BY <1>1, <1>4, <1>5, <1>6 DEF IInv, RegistryOf, Waiting, Ids, registry

\* The approved uploads join the jobs, each once.
LEMMA MovedJobs ==
  ASSUME IInv, NEW ready \in SUBSET Registered,
         NEW order \in Bijection(1 .. Cardinality(ready), ready)
  PROVE  LET jobs == waiting \o [i \in 1 .. Cardinality(ready) |-> by_token[order[i]].transfer_id]
         IN  jobs \in Seq(Nat) /\ IsInjective(jobs)
             /\ Range(jobs) = Waiting \cup IdsOf(by_token, ready)
<1> DEFINE k     == Cardinality(ready)
           moved == [i \in 1 .. k |-> by_token[order[i]].transfer_id]
           jobs  == waiting \o moved
<1>1. k \in Nat
  <2>1. IsFiniteSet(ready)
    BY FS_Subset DEF IInv, RegistryOf, Registered
  <2>2. QED
    BY <2>1, FS_CardinalityType
<1> HIDE DEF k
<1>2. /\ order \in [1 .. k -> ready]
      /\ \A i, j \in 1 .. k : order[i] = order[j] => i = j
      /\ \A t \in ready : \E i \in 1 .. k : order[i] = t
  BY DEF Bijection, Injection, Surjection, IsInjective, k
<1>3. \A t \in ready : t \in DOMAIN by_token /\ by_token[t].transfer_id \in Nat
  BY DEF IInv, RegistryOf, Pending, Registered
<1>4. /\ moved \in Seq(Nat) /\ Len(moved) = k
      /\ \A i \in 1 .. k : moved[i] = by_token[order[i]].transfer_id
  BY <1>1, <1>2, <1>3
<1>5. \A i, j \in 1 .. k : moved[i] = moved[j] => i = j
  BY <1>2, <1>3, <1>4 DEF IInv, RegistryOf
<1>6. \A i \in 1 .. k : moved[i] \in IdsOf(by_token, ready)
  BY <1>2, <1>4 DEF IdsOf
<1>7. \A x \in IdsOf(by_token, ready) : \E i \in 1 .. k : moved[i] = x
  BY <1>2, <1>4 DEF IdsOf
<1> HIDE DEF moved
<1>8. /\ waiting \in Seq(Nat) /\ IsInjective(waiting)
      /\ Waiting \cap IdsOf(by_token, ready) = {}
  BY DEF IInv, TypeOK, OneHome, IdsOf, Registered
<1>9. /\ jobs \in Seq(Nat) /\ Len(jobs) = Len(waiting) + k
      /\ \A i \in 1 .. Len(waiting) + k :
           jobs[i] = IF i <= Len(waiting) THEN waiting[i] ELSE moved[i - Len(waiting)]
  BY <1>4, <1>8, ConcatProperties
<1> HIDE DEF jobs
<1>10. DOMAIN jobs = 1 .. Len(waiting) + k /\ Len(waiting) \in Nat
  BY <1>8, <1>9
<1>11. \A i \in 1 .. Len(waiting) : waiting[i] \in Waiting
  BY <1>8 DEF Waiting, Range
<1>12. \A i \in 1 .. Len(waiting) + k : i \in 1 .. Len(waiting) \/ i - Len(waiting) \in 1 .. k
  BY <1>1, <1>10
<1>13. IsInjective(jobs)
  <2> SUFFICES ASSUME NEW i \in 1 .. Len(waiting) + k, NEW j \in 1 .. Len(waiting) + k,
                      jobs[i] = jobs[j]
               PROVE  i = j
    BY <1>10 DEF IsInjective
  <2>1. CASE i <= Len(waiting) /\ j <= Len(waiting)
    <3>1. i \in DOMAIN waiting /\ j \in DOMAIN waiting /\ waiting[i] = waiting[j]
      BY <1>8, <1>9, <1>10, <2>1
    <3>2. QED
      BY <1>8, <3>1 DEF IsInjective
  <2>2. CASE ~(i <= Len(waiting)) /\ ~(j <= Len(waiting))
    <3>1. i - Len(waiting) \in 1 .. k /\ j - Len(waiting) \in 1 .. k
      BY <1>10, <1>12, <2>2
    <3>2. moved[i - Len(waiting)] = moved[j - Len(waiting)]
      BY <1>9, <2>2
    <3>3. i - Len(waiting) = j - Len(waiting)
      BY <1>5, <3>1, <3>2
    <3>4. QED
      BY <1>10, <3>3
  <2>3. CASE i <= Len(waiting) /\ ~(j <= Len(waiting))
    <3>1. jobs[i] \in Waiting
      BY <1>9, <1>10, <1>11, <2>3, SMTT(30)
    <3>2. jobs[j] \in IdsOf(by_token, ready)
      BY <1>6, <1>9, <1>10, <1>12, <2>3, SMTT(30)
    <3>3. QED
      BY <1>8, <3>1, <3>2
  <2>4. CASE ~(i <= Len(waiting)) /\ j <= Len(waiting)
    <3>1. jobs[j] \in Waiting
      BY <1>9, <1>10, <1>11, <2>4
    <3>2. jobs[i] \in IdsOf(by_token, ready)
      BY <1>6, <1>9, <1>10, <1>12, <2>4
    <3>3. QED
      BY <1>8, <3>1, <3>2
  <2>5. QED
    BY <2>1, <2>2, <2>3, <2>4
<1>14. Range(jobs) = Waiting \cup IdsOf(by_token, ready)
  <2>1. Range(jobs) = {jobs[i] : i \in 1 .. Len(waiting) + k}
    BY <1>10 DEF Range
  <2>2. \A i \in 1 .. Len(waiting) + k : jobs[i] \in Waiting \cup IdsOf(by_token, ready)
    <3> SUFFICES ASSUME NEW i \in 1 .. Len(waiting) + k
                 PROVE  jobs[i] \in Waiting \cup IdsOf(by_token, ready)
      OBVIOUS
    <3>1. CASE i <= Len(waiting)
      BY <1>9, <1>10, <1>11, <3>1
    <3>2. CASE ~(i <= Len(waiting))
      <4>1. i - Len(waiting) \in 1 .. k
        BY <1>10, <1>12, <3>2
      <4>2. jobs[i] = moved[i - Len(waiting)]
        BY <1>9, <3>2
      <4>3. QED
        BY <1>6, <4>1, <4>2
    <3>3. QED
      BY <3>1, <3>2
  <2>3. \A x \in Waiting : \E i \in 1 .. Len(waiting) + k : jobs[i] = x
    <3> SUFFICES ASSUME NEW x \in Waiting
                 PROVE  \E i \in 1 .. Len(waiting) + k : jobs[i] = x
      OBVIOUS
    <3>1. PICK i \in 1 .. Len(waiting) : waiting[i] = x
      BY <1>8 DEF Waiting, Range
    <3>2. i \in 1 .. Len(waiting) + k /\ i <= Len(waiting)
      BY <1>1, <1>10
    <3>3. QED
      BY <1>9, <3>1, <3>2
  <2>4. \A x \in IdsOf(by_token, ready) : \E i \in 1 .. Len(waiting) + k : jobs[i] = x
    <3> SUFFICES ASSUME NEW x \in IdsOf(by_token, ready)
                 PROVE  \E i \in 1 .. Len(waiting) + k : jobs[i] = x
      OBVIOUS
    <3>1. PICK i \in 1 .. k : moved[i] = x
      BY <1>7
    <3> DEFINE j == i + Len(waiting)
    <3>2. j \in 1 .. Len(waiting) + k /\ ~(j <= Len(waiting)) /\ j - Len(waiting) = i
      BY <1>1, <1>10
    <3> HIDE DEF j
    <3>3. QED
      BY <1>9, <3>1, <3>2
  <2>5. QED
    BY <2>1, <2>2, <2>3, <2>4
<1>15. QED
  BY <1>9, <1>13, <1>14 DEF jobs, moved, k

LEMMA CmdUploadConnectStep ==
  ASSUME IInv, CmdUploadConnect
  PROVE  IInv'
<1>1. PICK ready \in SUBSET Registered :
        /\ Drop(ready)
        /\ \/ \E order \in Bijection(1 .. Cardinality(ready), ready) :
                Pump(waiting \o [i \in 1 .. Cardinality(ready) |-> by_token[order[i]].transfer_id])
           \/ Pump(waiting)
  <2>1. Approved(Head(cmds).username) \in SUBSET Registered
    BY DEF Approved
  <2>2. QED
    BY <2>1 DEF CmdUploadConnect
<1>2. /\ NextCmd("UploadConnect")
      /\ UNCHANGED <<next_token, next_id, replaced, serving, bus, session, remote>>
  BY DEF CmdUploadConnect
<1>3. cmds' \in Seq(Command)
  BY <1>2, NextCommand
<1>4. /\ IdsOf(by_token, ready) \subseteq Ids
      /\ IdsOf(by_token, ready) \cap (Waiting \cup streaming \cup serving) = {}
  BY DEF IInv, OneHome, IdsOf, Registered, RegistryOf, Pending, Ids, TypeOK
<1>5. PICK jobs \in Seq(Nat) :
        /\ IsInjective(jobs) /\ Pump(jobs)
        /\ Range(jobs) \subseteq Waiting \cup IdsOf(by_token, ready)
  <2>1. CASE Pump(waiting)
    BY <2>1 DEF IInv, TypeOK, OneHome, Waiting
  <2>2. ASSUME NEW order \in Bijection(1 .. Cardinality(ready), ready),
               Pump(waiting \o [i \in 1 .. Cardinality(ready) |-> by_token[order[i]].transfer_id])
        PROVE  \E jobs \in Seq(Nat) :
                 /\ IsInjective(jobs) /\ Pump(jobs)
                 /\ Range(jobs) \subseteq Waiting \cup IdsOf(by_token, ready)
    <3> DEFINE jobs == waiting \o [i \in 1 .. Cardinality(ready) |-> by_token[order[i]].transfer_id]
    <3>1. /\ jobs \in Seq(Nat) /\ IsInjective(jobs)
          /\ Range(jobs) = Waiting \cup IdsOf(by_token, ready)
      BY MovedJobs
    <3>2. Pump(jobs)
      BY <2>2
    <3> HIDE DEF jobs
    <3>3. QED
      BY <3>1, <3>2
  <2>3. QED
    BY <1>1, <2>1, <2>2
<1>6. /\ Range(jobs) \subseteq Ids /\ Range(jobs) \cap (streaming \cup serving) = {}
      /\ UNCHANGED <<serving, next_id>>
  BY <1>2, <1>4, <1>5 DEF IInv, OneHome
<1>7. /\ waiting' \in Seq(Nat) /\ active' \in Nat /\ IsFiniteSet(streaming')
      /\ Range(waiting') \subseteq Ids /\ streaming' \subseteq Ids
      /\ SlotsAccounted' /\ NoIdleSlot'
      /\ IsInjective(waiting')
      /\ Range(waiting') \cap streaming' = {}
      /\ (Range(waiting') \cup streaming') \cap serving' = {}
      /\ Range(waiting') \cup streaming' = Range(jobs) \cup streaming
  BY <1>5, <1>6, PumpKeeps
<1>8. Homes'
  <2>1. serving' \subseteq Ids /\ serving' = serving
    BY <1>2 DEF IInv, TypeOK
  <2>2. Range(waiting') \cup streaming' \cup serving' \subseteq
          Waiting \cup streaming \cup serving \cup IdsOf(by_token, ready)
    BY <1>5, <1>7, <2>1
  <2>3. QED
    BY <1>1, <1>2, <1>7, <2>1, <2>2, IInvHomes, DropKeepsHomes
<1>9. TypeOK'
  BY <1>2, <1>3, <1>7, <1>8 DEF IInv, TypeOK, Homes, Ids, RegistryOf, session, remote
<1>10. QED
  BY <1>7, <1>8, <1>9 DEF IInv, Homes

-----------------------------------------------------------------------------
(* The bus and the server. *)

LEMMA NextOnBus ==
  ASSUME IInv, NEW kind, NextMessage(kind)
  PROVE  Head(bus) \in BusMessage /\ Head(bus).kind = kind /\ Tail(bus) \in Seq(BusMessage)
BY HeadOfChannel DEF IInv, TypeOK, NextMessage

LEMMA BusResolveUploadPeerStep ==
  ASSUME IInv, BusResolveUploadPeer
  PROVE  IInv'
<1>1. /\ bus' = Tail(bus) /\ pending_upload_resolves' \subseteq pending_upload_resolves \cup {Head(bus).username}
      /\ asked' = asked \/ asked' = [asked EXCEPT ![Head(bus).username] = @ + 1]
      /\ UNCHANGED <<registry, gate, serving, cmds, logged_in, drops, remote>>
  BY DEF BusResolveUploadPeer
<1>2. bus' \in Seq(BusMessage) /\ Head(bus).username \in Peers
  BY <1>1, NextOnBus DEF BusResolveUploadPeer, BusMessage
<1>3. asked' \in [Peers -> Nat] /\ pending_upload_resolves' \subseteq Peers
  <2>1. asked \in [Peers -> Nat] /\ pending_upload_resolves \subseteq Peers
    BY DEF IInv, TypeOK
  <2>2. QED
    BY <1>1, <1>2, <2>1
<1>4. SlotsAccounted' /\ NoIdleSlot' /\ IsFiniteSet(streaming')
  BY <1>1, GateUntouched
<1>5. QED
  BY <1>1, <1>2, <1>3, <1>4 DEF IInv, TypeOK, OneHome, RegistryOf, Registered, Waiting, Ids,
                                registry, gate, remote

LEMMA BusPeerUploadConnectStep ==
  ASSUME IInv, BusPeerUploadConnect
  PROVE  IInv'
<1>1. /\ bus' = Tail(bus)
      /\ cmds' = Append(cmds, UploadConnect(Head(bus).username, Head(bus).online))
      /\ UNCHANGED <<registry, gate, serving, session, remote>>
  BY DEF BusPeerUploadConnect
<1>2. /\ bus' \in Seq(BusMessage)
      /\ Head(bus).username \in Peers /\ Head(bus).online \in BOOLEAN
  BY <1>1, NextOnBus DEF BusPeerUploadConnect, BusMessage
<1>3. UploadConnect(Head(bus).username, Head(bus).online) \in Command
  BY <1>2, MessageTypes
<1>4. cmds' \in Seq(Command) /\ Range(cmds) \subseteq Range(cmds')
  BY <1>1, <1>3, AppendToChannel DEF IInv, TypeOK
<1>5. SlotsAccounted' /\ NoIdleSlot' /\ IsFiniteSet(streaming')
  BY <1>1, <1>4, GateUntouched
<1>6. QED
  BY <1>1, <1>2, <1>4, <1>5 DEF IInv, TypeOK, OneHome, RegistryOf, Registered, Waiting, Ids,
                                registry, gate, session, remote

LEMMA GetPeerAddressStep ==
  ASSUME IInv, NEW p \in Peers, NEW online \in BOOLEAN, GetPeerAddress(p, online)
  PROVE  IInv'
<1>1. /\ bus' = bus \/ bus' = Append(bus, PeerUploadConnect(p, online))
      /\ pending_upload_resolves' \subseteq pending_upload_resolves
      /\ asked[p] > 0 /\ asked' = [asked EXCEPT ![p] = @ - 1]
      /\ UNCHANGED <<registry, gate, serving, cmds, logged_in, drops, remote>>
  BY DEF GetPeerAddress
<1>2. bus' \in Seq(BusMessage)
  <2>1. bus \in Seq(BusMessage) /\ PeerUploadConnect(p, online) \in BusMessage
    BY MessageTypes DEF IInv, TypeOK
  <2>2. Append(bus, PeerUploadConnect(p, online)) \in Seq(BusMessage)
    BY <2>1, AppendToChannel
  <2>3. QED
    BY <1>1, <2>1, <2>2
<1>3. asked' \in [Peers -> Nat] /\ pending_upload_resolves' \subseteq Peers
  BY <1>1 DEF IInv, TypeOK
<1>4. SlotsAccounted' /\ NoIdleSlot' /\ IsFiniteSet(streaming')
  BY <1>1, GateUntouched
<1>5. QED
  BY <1>1, <1>2, <1>3, <1>4 DEF IInv, TypeOK, OneHome, RegistryOf, Registered, Waiting, Ids,
                                registry, gate, remote

LEMMA LinkStep ==
  ASSUME IInv, NetConnClosed \/ LoginResponse
  PROVE  IInv'
<1>1. /\ logged_in' \in BOOLEAN /\ asked' \in [Peers -> Nat] /\ drops' \in 0 .. MaxDrops
      /\ UNCHANGED <<registry, gate, serving, cmds, bus, pending_upload_resolves, remote>>
  <2>1. CASE NetConnClosed
    <3>1. drops < MaxDrops /\ drops' = drops + 1 /\ drops \in 0 .. MaxDrops
      BY <2>1 DEF NetConnClosed, IInv, TypeOK
    <3>2. drops' \in 0 .. MaxDrops
      BY <3>1, UploadsAssumption
    <3>3. logged_in' \in BOOLEAN /\ asked' \in [Peers -> Nat]
      BY <2>1 DEF NetConnClosed
    <3>4. QED
      BY <2>1, <3>2, <3>3 DEF NetConnClosed
  <2>2. CASE LoginResponse
    BY <2>2 DEF LoginResponse, IInv, TypeOK
  <2>3. QED
    BY <2>1, <2>2
<1>2. SlotsAccounted' /\ NoIdleSlot' /\ IsFiniteSet(streaming')
  BY <1>1, GateUntouched
<1>3. QED
  BY <1>1, <1>2 DEF IInv, TypeOK, OneHome, RegistryOf, Registered, Waiting, Ids, registry, gate,
                    remote

LEMMA NextIInv == IInv /\ [Next]_vars => IInv'
<1> SUFFICES ASSUME IInv, [Next]_vars
             PROVE  IInv'
  OBVIOUS
<1>1. CASE Connection
  BY <1>1, OnQueueUploadStep, OnTransferRequestDownloadStep, OnTransferResponseStep,
     RecvFileStep, FinishServeStep DEF Connection
<1>2. CASE \E id \in streaming : FinishUpload(id)
  BY <1>2, FinishUploadStep
<1>3. CASE CommandLoop
  BY <1>3, CmdStartUploadStep, CmdUploadConnectStep, CmdPumpUploadsStep DEF CommandLoop
<1>4. CASE BusWorker
  BY <1>4, BusResolveUploadPeerStep, BusPeerUploadConnectStep DEF BusWorker
<1>5. CASE \E p \in Peers : Answer(p)
  BY <1>5, GetPeerAddressStep DEF Answer
<1>6. CASE NetConnClosed \/ LoginResponse
  BY <1>6, LinkStep
<1>7. CASE UNCHANGED vars
  BY <1>7 DEF vars, IInv, TypeOK, OneHome, SlotsAccounted, NoIdleSlot, RegistryOf, Registered,
              Waiting, Ids, registry, gate, session, remote
<1>8. QED
  BY <1>1, <1>2, <1>3, <1>4, <1>5, <1>6, <1>7 DEF Next

LEMMA Invariance == Spec => []IInv
BY InitIInv, NextIInv, PTL DEF Spec

\* Every variable of the upload side keeps its type, for any peers, tokens, cap
\* and slots.
THEOREM TypeCorrect == Spec => []TypeOK
<1>1. IInv => TypeOK
  BY DEF IInv
<1>2. QED
  BY <1>1, Invariance, PTL

\* No upload is in two places, whatever tokens peers choose and however verdicts,
\* address answers, file connections and evictions interleave: none is started
\* twice.
THEOREM EveryUploadHasOneHome == Spec => []OneHome
<1>1. IInv => OneHome
  BY DEF IInv
<1>2. QED
  BY <1>1, Invariance, PTL

\* The gate's counter is the number of live upload tasks and never exceeds the
\* configured slots.
THEOREM SlotsAreAccounted == Spec => []SlotsAccounted
<1>1. IInv => SlotsAccounted
  BY DEF IInv
<1>2. QED
  BY <1>1, Invariance, PTL

\* A job waits beside a free slot only while a PumpUploads command is on its way.
THEOREM SlotsAreUsed == Spec => []NoIdleSlot
<1>1. IInv => NoIdleSlot
  BY DEF IInv
<1>2. QED
  BY <1>1, Invariance, PTL

-----------------------------------------------------------------------------
(* The queue slots: those of the pending uploads, and those that entries   *)
(* replaced under their token left behind.                                 *)

LInv == IInv /\ QueueLockstep

\* An upload registered takes its place in both books; the one it replaces stays
\* in the queue's.
LEMMA RegisterKeepsLockstep ==
  ASSUME LInv, NEW p \in Peers, NEW tok \in Tokens, NEW gone,
         gone \subseteq DOMAIN With(by_token, tok, Offer(p)), Register(p, tok, gone)
  PROVE  QueueLockstep'
<1> DEFINE grown == With(by_token, tok, Offer(p))
           under == IdsOf(by_token, {tok} \cap Registered)
<1>1. /\ Offer(p) \in Pending /\ Offer(p).transfer_id = next_id
      /\ next_id \in Nat /\ RegistryOf(by_token, next_id)
  BY DEF Offer, Pending, LInv, IInv, TypeOK
<1>2. /\ RegistryOf(grown, next_id + 1)
      /\ AllIdsOf(grown) = (AllIdsOf(by_token) \ under) \cup {next_id}
  BY <1>1, WithRegistry DEF Registered
<1>3. gone \subseteq DOMAIN grown /\ under \subseteq AllIdsOf(by_token)
  BY DEF AllIdsOf, IdsOf, Registered
<1>4. /\ by_token' = Without(grown, gone)
      /\ queued' = (queued \cup {next_id}) \ IdsOf(grown, gone)
      /\ replaced' = replaced \cup under
  BY DEF Register
<1>5. /\ queued = AllIdsOf(by_token) \cup replaced
      /\ AllIdsOf(by_token) \cap replaced = {}
      /\ next_id \notin replaced /\ next_id \notin AllIdsOf(by_token)
  BY <1>1 DEF LInv, IInv, TypeOK, QueueLockstep, AllIdsOf, IdsOf, RegistryOf, Pending, Registered,
              Ids
<1> HIDE DEF grown, under
<1>6. /\ AllIdsOf(by_token') = AllIdsOf(grown) \ IdsOf(grown, gone)
      /\ IdsOf(grown, gone) \subseteq AllIdsOf(grown)
  <2>1. next_id + 1 \in Nat
    BY <1>1
  <2>2. IdsOf(grown, gone) \subseteq AllIdsOf(grown)
    BY <1>3 DEF AllIdsOf, IdsOf
  <2>3. QED
    BY <1>2, <1>3, <1>4, <2>1, <2>2, WithoutRegistry
<1>7. queued' = AllIdsOf(by_token') \cup replaced' /\ AllIdsOf(by_token') \cap replaced' = {}
  BY <1>2, <1>3, <1>4, <1>5, <1>6
<1>8. QED
  BY <1>7 DEF QueueLockstep, AllIdsOf, Registered

LEMMA DropKeepsLockstep ==
  ASSUME LInv, NEW toks \in SUBSET Registered, Drop(toks), UNCHANGED replaced
  PROVE  QueueLockstep'
<1>1. /\ AllIdsOf(by_token') = AllIdsOf(by_token) \ IdsOf(by_token, toks)
      /\ IdsOf(by_token, toks) \subseteq AllIdsOf(by_token)
  <2>1. IdsOf(by_token, toks) \subseteq AllIdsOf(by_token)
    BY DEF AllIdsOf, IdsOf, Registered
  <2>2. QED
    BY <2>1, WithoutRegistry DEF Drop, LInv, IInv, TypeOK, Registered
<1>2. queued = AllIdsOf(by_token) \cup replaced /\ AllIdsOf(by_token) \cap replaced = {}
  BY DEF LInv, QueueLockstep, AllIdsOf, Registered
<1>3. queued' = AllIdsOf(by_token') \cup replaced' /\ AllIdsOf(by_token') \cap replaced' = {}
  BY <1>1, <1>2 DEF Drop
<1>4. QED
  BY <1>3 DEF QueueLockstep, AllIdsOf, Registered

LEMMA NextLockstep ==
  ASSUME LInv, [Next]_vars
  PROVE  LInv'
<1>1. IInv /\ QueueLockstep /\ IInv'
  BY NextIInv DEF LInv
<1> SUFFICES QueueLockstep'
  BY <1>1 DEF LInv
<1>2. ASSUME NEW p \in Peers, OnQueueUpload(p)
      PROVE  QueueLockstep'
  <2>1. next_token \in Tokens
    BY <1>1, <1>2, TokenTypes DEF IInv, TypeOK, OnQueueUpload
  <2>2. Overflow(With(by_token, next_token, Offer(p))) \subseteq DOMAIN With(by_token, next_token, Offer(p))
    BY DEF Overflow
  <2>3. QED
    BY <1>2, <2>1, <2>2, RegisterKeepsLockstep DEF OnQueueUpload
<1>3. ASSUME NEW p \in Peers, NEW tok \in Tokens, OnTransferRequestDownload(p, tok)
      PROVE  QueueLockstep'
  <2>1. {t \in Overflow(With(by_token, tok, Offer(p))) : t < tok} \subseteq DOMAIN With(by_token, tok, Offer(p))
    BY DEF Overflow
  <2>2. QED
    BY <1>3, <2>1, RegisterKeepsLockstep DEF OnTransferRequestDownload
<1>4. ASSUME NEW p \in Peers, NEW tok \in Tokens, NEW ok \in BOOLEAN, OnTransferResponse(p, tok, ok)
      PROVE  QueueLockstep'
  <2>1. replaced' = replaced
    BY <1>4 DEF OnTransferResponse
  <2>2. CASE tok \in Registered /\ Drop({tok})
    BY <2>1, <2>2, DropKeepsLockstep
  <2>3. CASE by_token' = [by_token EXCEPT ![tok].approved = TRUE] /\ UNCHANGED queued
             /\ tok \in Registered
    <3>1. DOMAIN by_token' = DOMAIN by_token
          /\ \A t \in DOMAIN by_token : by_token'[t].transfer_id = by_token[t].transfer_id
      BY <1>1, <2>3 DEF IInv, TypeOK, Pending, Registered
    <3>2. IdsOf(by_token, Registered)' = IdsOf(by_token, Registered)
      BY <3>1 DEF IdsOf, Registered
    <3>3. QED
      BY <1>1, <2>1, <2>3, <3>2 DEF QueueLockstep
  <2>4. CASE UNCHANGED <<by_token, queued>>
    BY <1>1, <2>1, <2>4 DEF QueueLockstep, Registered
  <2>5. QED
    BY <1>4, <2>2, <2>3, <2>4 DEF OnTransferResponse
<1>5. ASSUME NEW p \in Peers, NEW tok \in Tokens, RecvFile(p, tok)
      PROVE  QueueLockstep'
  <2>1. replaced' = replaced
    BY <1>5 DEF RecvFile
  <2>2. CASE Collectable(p, tok) /\ Drop({tok})
    BY <2>1, <2>2, DropKeepsLockstep DEF Collectable
  <2>3. CASE UNCHANGED <<by_token, queued>>
    BY <1>1, <2>1, <2>3 DEF QueueLockstep, Registered
  <2>4. QED
    BY <1>5, <2>2, <2>3 DEF RecvFile
<1>6. ASSUME CmdUploadConnect
      PROVE  QueueLockstep'
  <2>1. PICK ready \in SUBSET Registered : Drop(ready)
    BY <1>6 DEF CmdUploadConnect, Approved
  <2>2. replaced' = replaced
    BY <1>6 DEF CmdUploadConnect
  <2>3. QED
    BY <2>1, <2>2, DropKeepsLockstep
<1>7. ASSUME UNCHANGED registry
      PROVE  QueueLockstep'
  BY <1>1, <1>7 DEF registry, QueueLockstep, Registered
<1>8. CASE Connection
  BY <1>2, <1>3, <1>4, <1>5, <1>7, <1>8 DEF Connection, FinishServe
<1>9. CASE CommandLoop
  BY <1>6, <1>7, <1>9 DEF CommandLoop, CmdStartUpload, CmdPumpUploads
<1>10. CASE \E id \in streaming : FinishUpload(id)
  BY <1>7, <1>10 DEF FinishUpload
<1>11. CASE BusWorker
  BY <1>7, <1>11 DEF BusWorker, BusResolveUploadPeer, BusPeerUploadConnect
<1>12. CASE \E p \in Peers : Answer(p)
  BY <1>7, <1>12 DEF Answer, GetPeerAddress
<1>13. CASE NetConnClosed \/ LoginResponse
  BY <1>7, <1>13 DEF NetConnClosed, LoginResponse
<1>14. CASE UNCHANGED vars
  BY <1>7, <1>14 DEF vars
<1>15. QED
  BY <1>8, <1>9, <1>10, <1>11, <1>12, <1>13, <1>14 DEF Next

LEMMA InitLockstep == Init => LInv
<1> SUFFICES ASSUME Init
             PROVE  LInv
  OBVIOUS
<1>1. DOMAIN by_token = {} /\ queued = {} /\ replaced = {}
  BY DEF Init
<1>2. QED
  BY <1>1, InitIInv DEF LInv, QueueLockstep, IdsOf, Registered

\* Whatever tokens downloaders choose, ours and one another's included: the
\* place-in-queue book holds exactly the pending uploads and those whose entry
\* another one replaced under the same token.  Registration, eviction, verdict,
\* collection and start lose or keep no other slot.
THEOREM QueueKeepsLockstep == Spec => []QueueLockstep
<1>1. LInv /\ [Next]_vars => LInv'
  BY NextLockstep
<1>2. LInv => QueueLockstep
  BY DEF LInv
<1>3. QED
  BY <1>1, <1>2, InitLockstep, PTL DEF Spec

-----------------------------------------------------------------------------
(* The lifecycle.  Each id has one stage, told by the home it is in.       *)

PendingAs(ok) == {by_token[t].transfer_id : t \in {u \in Registered : by_token[u].approved = ok}}

StageIsHome ==
  \A id \in Nat :
    /\ Stage(id) \in Lifecycle!Stages
    /\ Stage(id) = "streaming" <=> id \in streaming
    /\ Stage(id) = "collected" <=> id \in serving
    /\ Stage(id) = "waiting"   <=> id \in Waiting
    /\ Stage(id) = "approved"  <=> id \in PendingAs(TRUE)
    /\ Stage(id) = "offered"   <=> id \in PendingAs(FALSE)
    /\ Stage(id) = "none"      <=> id >= next_id

LEMMA HomesAreApart ==
  ASSUME IInv
  PROVE  /\ next_id \in Nat
         /\ PendingAs(TRUE) \cap PendingAs(FALSE) = {}
         /\ PendingAs(TRUE) \cup PendingAs(FALSE) = AllIdsOf(by_token)
         /\ AllIdsOf(by_token) \cap (Waiting \cup streaming \cup serving) = {}
         /\ Waiting \cap (streaming \cup serving) = {} /\ streaming \cap serving = {}
         /\ AllIdsOf(by_token) \cup Waiting \cup streaming \cup serving \subseteq Ids
<1>1. /\ \A t \in Registered : by_token[t].transfer_id \in Ids /\ by_token[t].approved \in BOOLEAN
      /\ \A t, u \in Registered : by_token[t].transfer_id = by_token[u].transfer_id => t = u
      /\ next_id \in Nat
  BY DEF IInv, RegistryOf, Registered, Pending, Ids, TypeOK
<1>2. PendingAs(TRUE) \cap PendingAs(FALSE) = {}
  BY <1>1 DEF PendingAs
<1>3. PendingAs(TRUE) \cup PendingAs(FALSE) = AllIdsOf(by_token)
  BY <1>1 DEF PendingAs, AllIdsOf, IdsOf, Registered
<1>4. AllIdsOf(by_token) \subseteq Ids
  BY <1>1 DEF AllIdsOf, IdsOf, Registered
<1>5. QED
  BY <1>1, <1>2, <1>3, <1>4 DEF IInv, OneHome, AllIdsOf, Registered, TypeOK

LEMMA EveryIdHasItsStage == IInv => StageIsHome
<1> SUFFICES ASSUME IInv, NEW id \in Nat
             PROVE  /\ Stage(id) \in Lifecycle!Stages
                    /\ Stage(id) = "streaming" <=> id \in streaming
                    /\ Stage(id) = "collected" <=> id \in serving
                    /\ Stage(id) = "waiting"   <=> id \in Waiting
                    /\ Stage(id) = "approved"  <=> id \in PendingAs(TRUE)
                    /\ Stage(id) = "offered"   <=> id \in PendingAs(FALSE)
                    /\ Stage(id) = "none"      <=> id >= next_id
  BY DEF StageIsHome
<1> DEFINE entry(ok) == {t \in Registered : by_token[t].transfer_id = id /\ by_token[t].approved = ok}
<1>1. (entry(TRUE) # {} <=> id \in PendingAs(TRUE)) /\ (entry(FALSE) # {} <=> id \in PendingAs(FALSE))
  BY DEF PendingAs
<1>2. Stage(id) = CASE id \in streaming    -> "streaming"
                    [] id \in serving      -> "collected"
                    [] id \in Waiting      -> "waiting"
                    [] entry(TRUE) # {}    -> "approved"
                    [] entry(FALSE) # {}   -> "offered"
                    [] id >= next_id       -> "none"
                    [] OTHER               -> "over"
  BY DEF Stage
<1>3. id \in Ids <=> ~(id >= next_id)
  BY HomesAreApart DEF Ids
<1> HIDE DEF entry
<1> QED
  BY <1>1, <1>2, <1>3, HomesAreApart DEF Lifecycle!Stages

LEMMA NextStageIsHome == IInv' => StageIsHome'
BY EveryIdHasItsStage, PTL

\* What one step may do to the homes.
HomesMoveForward ==
  /\ next_id' \in {next_id, next_id + 1}
  /\ PendingAs(TRUE)'  \subseteq PendingAs(TRUE) \cup PendingAs(FALSE)
  /\ PendingAs(FALSE)' \subseteq PendingAs(FALSE) \cup {next_id}
  /\ Waiting'   \subseteq Waiting \cup PendingAs(TRUE)
  /\ Waiting    \subseteq Waiting' \cup streaming'
  /\ streaming' \subseteq streaming \cup Waiting \cup PendingAs(TRUE)
  /\ serving'   \subseteq serving \cup PendingAs(FALSE)

LEMMA ForwardHomesForwardStages ==
  ASSUME IInv, IInv', HomesMoveForward, NEW id \in Nat
  PROVE  Stage(id)' = Stage(id) \/ <<Stage(id), Stage(id)'>> \in Lifecycle!Forward
<1> DEFINE s == Stage(id)
           t == Stage(id)'
<1>1. /\ s \in Lifecycle!Stages
      /\ s = "streaming" <=> id \in streaming
      /\ s = "collected" <=> id \in serving
      /\ s = "waiting"   <=> id \in Waiting
      /\ s = "approved"  <=> id \in PendingAs(TRUE)
      /\ s = "offered"   <=> id \in PendingAs(FALSE)
      /\ s = "none"      <=> id >= next_id
  BY EveryIdHasItsStage DEF StageIsHome
<1>2. /\ t \in Lifecycle!Stages
      /\ t = "streaming" <=> id \in streaming'
      /\ t = "collected" <=> id \in serving'
      /\ t = "waiting"   <=> id \in Waiting'
      /\ t = "approved"  <=> id \in PendingAs(TRUE)'
      /\ t = "offered"   <=> id \in PendingAs(FALSE)'
      /\ t = "none"      <=> id >= next_id'
  BY NextStageIsHome DEF StageIsHome
<1>3. next_id \in Nat /\ (id >= next_id' => id >= next_id) /\ (id = next_id => id >= next_id)
      /\ (id >= next_id => id = next_id \/ id >= next_id')
  BY HomesAreApart DEF HomesMoveForward
<1> HIDE DEF s, t
<1>4. s \in Lifecycle!Stages /\ t \in Lifecycle!Stages => 
        s \in {"none", "offered", "approved", "waiting", "streaming", "collected", "over"}
        /\ t \in {"none", "offered", "approved", "waiting", "streaming", "collected", "over"}
  BY DEF Lifecycle!Stages
<1>5. CASE s = "none"
  <2>1. t \in {"none", "offered", "over"}
    BY <1>1, <1>2, <1>3, <1>4, <1>5 DEF HomesMoveForward
  <2>2. QED
    BY <1>5, <2>1 DEF Lifecycle!Forward, s, t
<1>6. CASE s = "offered"
  <2>1. t \in {"offered", "approved", "collected", "over"}
    BY <1>1, <1>2, <1>3, <1>4, <1>6 DEF HomesMoveForward
  <2>2. QED
    BY <1>6, <2>1 DEF Lifecycle!Forward, s, t
<1>7. CASE s = "approved"
  <2>1. t \in {"approved", "waiting", "streaming", "over"}
    BY <1>1, <1>2, <1>3, <1>4, <1>7 DEF HomesMoveForward
  <2>2. QED
    BY <1>7, <2>1 DEF Lifecycle!Forward, s, t
<1>8. CASE s = "waiting"
  <2>1. t \in {"waiting", "streaming"}
    BY <1>1, <1>2, <1>3, <1>4, <1>8 DEF HomesMoveForward
  <2>2. QED
    BY <1>8, <2>1 DEF Lifecycle!Forward, s, t
<1>9. CASE s = "streaming"
  <2>1. t \in {"streaming", "over"}
    BY <1>1, <1>2, <1>3, <1>4, <1>9 DEF HomesMoveForward
  <2>2. QED
    BY <1>9, <2>1 DEF Lifecycle!Forward, s, t
<1>10. CASE s = "collected"
  <2>1. t \in {"collected", "over"}
    BY <1>1, <1>2, <1>3, <1>4, <1>10 DEF HomesMoveForward
  <2>2. QED
    BY <1>10, <2>1 DEF Lifecycle!Forward, s, t
<1>11. CASE s = "over"
  <2>1. t = "over"
    BY <1>1, <1>2, <1>3, <1>4, <1>11 DEF HomesMoveForward
  <2>2. QED
    BY <1>11, <2>1 DEF s, t
<1>12. QED
  BY <1>1, <1>4, <1>2, <1>5, <1>6, <1>7, <1>8, <1>9, <1>10, <1>11

LEMMA RegisterMovesForward ==
  ASSUME IInv, NEW p, NEW tok, NEW gone, Register(p, tok, gone),
         UNCHANGED <<gate, serving>>
  PROVE  HomesMoveForward
<1>1. /\ Offer(p).transfer_id = next_id /\ Offer(p).approved = FALSE
      /\ next_id' = next_id + 1
  BY DEF Offer, Register
<1>2. \A t \in Registered' :
        \/ by_token'[t] = Offer(p)
        \/ t \in Registered /\ by_token'[t] = by_token[t]
  BY DEF Register, Without, Restrict, With, Registered
<1>3. /\ PendingAs(TRUE)'  \subseteq PendingAs(TRUE)
      /\ PendingAs(FALSE)' \subseteq PendingAs(FALSE) \cup {next_id}
  BY <1>1, <1>2 DEF PendingAs
<1>4. QED
  BY <1>1, <1>3 DEF HomesMoveForward, gate, Waiting

LEMMA DropLeaves ==
  ASSUME NEW toks, Drop(toks)
  PROVE  /\ PendingAs(TRUE)'  \subseteq PendingAs(TRUE)
         /\ PendingAs(FALSE)' \subseteq PendingAs(FALSE)
<1>1. \A t \in Registered' : t \in Registered /\ by_token'[t] = by_token[t]
  BY DEF Drop, Without, Restrict, Registered
<1>2. QED
  BY <1>1 DEF PendingAs

LEMMA ResponseMovesForward ==
  ASSUME IInv, NEW p, NEW tok, NEW ok, OnTransferResponse(p, tok, ok)
  PROVE  HomesMoveForward
<1>1. UNCHANGED <<next_id, gate, serving>>
  BY DEF OnTransferResponse
<1>2. CASE tok \in Registered /\ by_token' = [by_token EXCEPT ![tok].approved = TRUE]
  <2>1. /\ Registered' = Registered
        /\ \A t \in Registered : by_token'[t].transfer_id = by_token[t].transfer_id
        /\ \A t \in Registered : t # tok => by_token'[t] = by_token[t]
        /\ by_token'[tok].approved = TRUE
        /\ \A t \in Registered : by_token[t].approved \in BOOLEAN
    BY <1>2 DEF IInv, RegistryOf, Registered, Pending
  <2>2. PendingAs(FALSE)' \subseteq PendingAs(FALSE)
    BY <2>1 DEF PendingAs
  <2>3. PendingAs(TRUE)' \subseteq PendingAs(TRUE) \cup PendingAs(FALSE)
    BY <2>1 DEF PendingAs
  <2>4. QED
    BY <1>1, <2>2, <2>3 DEF HomesMoveForward, gate, Waiting
<1>3. CASE Drop({tok})
  BY <1>1, <1>3, DropLeaves DEF HomesMoveForward, gate, Waiting
<1>4. CASE UNCHANGED by_token
  BY <1>1, <1>4 DEF HomesMoveForward, gate, Waiting, PendingAs, Registered
<1>5. QED
  BY <1>2, <1>3, <1>4 DEF OnTransferResponse


-----------------------------------------------------------------------------
(* Whose tokens are whose, as long as no downloader picks one of ours.     *)

DisjointTokens ==
  \A p \in Peers : PeerTokens[p] \cap (FirstToken .. FirstToken + MaxOffers - 1) = {}

Minted == FirstToken .. next_token - 1

\* Offers are under tokens we minted, tickets under tokens the downloaders chose;
\* only the former are ever approved.
TokensApart ==
  /\ \A o \in offers : o[2] \in Minted /\ (o[2] \in Registered => by_token[o[2]].username = o[1])
  /\ \A o \in tickets : o[2] \in PeerTokens[o[1]]
  /\ \A t \in Registered : by_token[t].approved => t \in Minted

AInv == LInv /\ TokensApart

LEMMA ChosenAreNotMinted ==
  ASSUME DisjointTokens, LInv
  PROVE  \A p \in Peers : PeerTokens[p] \cap Minted = {}
<1>1. next_token \in FirstToken .. FirstToken + MaxOffers /\ FirstToken \in Nat /\ MaxOffers \in Nat
  BY UploadsAssumption DEF LInv, IInv, TypeOK
<1>2. Minted \subseteq FirstToken .. FirstToken + MaxOffers - 1
  BY <1>1 DEF Minted
<1>3. QED
  BY <1>2 DEF DisjointTokens

\* An entry newly registered is under its token, or it is an old one.
LEMMA RegisteredUnder ==
  ASSUME NEW p, NEW tok, NEW gone, Register(p, tok, gone)
  PROVE  \A t \in Registered' :
           \/ t = tok /\ by_token'[t] = Offer(p)
           \/ t # tok /\ t \in Registered /\ by_token'[t] = by_token[t]
BY DEF Register, Without, Restrict, With, Registered

LEMMA DropShrinks ==
  ASSUME NEW toks, Drop(toks)
  PROVE  \A t \in Registered' : t \in Registered /\ by_token'[t] = by_token[t]
BY DEF Drop, Without, Restrict, Registered

LEMMA QueueUploadKeepsApart ==
  ASSUME DisjointTokens, AInv, NEW p \in Peers, OnQueueUpload(p)
  PROVE  TokensApart'
<1>1. /\ next_token' = next_token + 1 /\ tickets' = tickets
      /\ offers' = offers \cup {<<p, next_token>>}
  BY DEF OnQueueUpload
<1>2. \A t \in Registered' :
        \/ t = next_token /\ by_token'[t] = Offer(p)
        \/ t # next_token /\ t \in Registered /\ by_token'[t] = by_token[t]
  BY RegisteredUnder DEF OnQueueUpload
<1>3. Minted' = Minted \cup {next_token} /\ next_token \notin Minted
  <2>1. next_token \in FirstToken .. FirstToken + MaxOffers /\ FirstToken \in Nat
    BY UploadsAssumption DEF AInv, LInv, IInv, TypeOK
  <2>2. QED
    BY <1>1, <2>1, UploadsAssumption DEF Minted
<1>4. Offer(p).username = p /\ Offer(p).approved = FALSE
  BY DEF Offer
<1>5. ASSUME NEW o \in offers'
      PROVE  o[2] \in Minted' /\ (o[2] \in Registered' => by_token'[o[2]].username = o[1])
  <2>1. CASE o \in offers
    BY <1>2, <1>3, <2>1 DEF AInv, TokensApart
  <2>2. CASE o = <<p, next_token>>
    BY <1>2, <1>3, <1>4, <2>2
  <2>3. QED
    BY <1>1, <2>1, <2>2
<1>6. ASSUME NEW t \in Registered', by_token'[t].approved
      PROVE  t \in Minted'
  BY <1>2, <1>3, <1>4, <1>6 DEF AInv, TokensApart
<1>7. QED
  BY <1>1, <1>5, <1>6 DEF AInv, TokensApart

LEMMA RequestKeepsApart ==
  ASSUME DisjointTokens, AInv, NEW p \in Peers, NEW tok \in Tokens,
         OnTransferRequestDownload(p, tok)
  PROVE  TokensApart'
<1>1. /\ next_token' = next_token /\ offers' = offers /\ tok \in PeerTokens[p]
      /\ tickets' = tickets \cup {<<p, tok>>}
  BY DEF OnTransferRequestDownload
<1>2. \A t \in Registered' :
        \/ t = tok /\ by_token'[t] = Offer(p)
        \/ t # tok /\ t \in Registered /\ by_token'[t] = by_token[t]
  BY RegisteredUnder DEF OnTransferRequestDownload
<1>3. Minted' = Minted /\ tok \notin Minted
  BY <1>1, ChosenAreNotMinted DEF Minted, AInv
<1>4. Offer(p).approved = FALSE
  BY DEF Offer
<1>5. \A o \in offers' : o[2] \in Minted' /\ (o[2] \in Registered' => by_token'[o[2]].username = o[1])
  BY <1>1, <1>2, <1>3 DEF AInv, TokensApart
<1>6. \A o \in tickets' : o[2] \in PeerTokens[o[1]]
  BY <1>1 DEF AInv, TokensApart
<1>7. \A t \in Registered' : by_token'[t].approved => t \in Minted'
  BY <1>2, <1>3, <1>4 DEF AInv, TokensApart
<1>8. QED
  BY <1>5, <1>6, <1>7 DEF TokensApart

\* Steps that only remove entries, offers and tickets.
LEMMA ShrinkingKeepsApart ==
  ASSUME AInv, UNCHANGED next_token,
         offers' \subseteq offers, tickets' \subseteq tickets,
         \A t \in Registered' : t \in Registered /\ by_token'[t] = by_token[t]
  PROVE  TokensApart'
<1>1. Minted' = Minted
  BY DEF Minted
<1>2. QED
  BY <1>1 DEF AInv, TokensApart

LEMMA ResponseKeepsApart ==
  ASSUME AInv, NEW p \in Peers, NEW tok \in Tokens, NEW ok \in BOOLEAN,
         OnTransferResponse(p, tok, ok)
  PROVE  TokensApart'
<1>1. /\ UNCHANGED next_token /\ tickets' = tickets
      /\ offers' \subseteq offers /\ <<p, tok>> \in offers
  BY DEF OnTransferResponse
<1>2. CASE tok \in Registered /\ by_token' = [by_token EXCEPT ![tok].approved = TRUE]
  <2>1. /\ Registered' = Registered /\ Minted' = Minted
        /\ \A t \in Registered : by_token'[t].username = by_token[t].username
        /\ \A t \in Registered : t # tok => by_token'[t] = by_token[t]
    BY <1>1, <1>2 DEF AInv, LInv, IInv, RegistryOf, Registered, Pending, Minted
  <2>2. tok \in Minted
    BY <1>1 DEF AInv, TokensApart
  <2>3. QED
    BY <1>1, <2>1, <2>2 DEF AInv, TokensApart
<1>3. CASE Drop({tok})
  BY <1>1, <1>3, DropShrinks, ShrinkingKeepsApart
<1>4. CASE UNCHANGED by_token
  BY <1>1, <1>4, ShrinkingKeepsApart DEF Registered
<1>5. QED
  BY <1>2, <1>3, <1>4 DEF OnTransferResponse

LEMMA NextApart ==
  ASSUME DisjointTokens, AInv, [Next]_vars
  PROVE  AInv'
<1>1. LInv'
  BY NextLockstep DEF AInv
<1> SUFFICES TokensApart'
  BY <1>1 DEF AInv
<1>2. ASSUME NEW p \in Peers, NEW tok \in Tokens, RecvFile(p, tok)
      PROVE  TokensApart'
  <2>1. UNCHANGED <<next_token, offers>> /\ tickets' \subseteq tickets
    BY <1>2 DEF RecvFile
  <2>2. Drop({tok}) \/ UNCHANGED by_token
    BY <1>2 DEF RecvFile
  <2>3. \A t \in Registered' : t \in Registered /\ by_token'[t] = by_token[t]
    BY <2>2, DropShrinks DEF Registered
  <2>4. QED
    BY <2>1, <2>3, ShrinkingKeepsApart
<1>3. ASSUME CmdUploadConnect
      PROVE  TokensApart'
  <2>1. UNCHANGED <<next_token, offers, tickets>>
    BY <1>3 DEF CmdUploadConnect, remote
  <2>2. \E toks : Drop(toks)
    BY <1>3 DEF CmdUploadConnect
  <2>3. \A t \in Registered' : t \in Registered /\ by_token'[t] = by_token[t]
    BY <2>2, DropShrinks
  <2>4. QED
    BY <2>1, <2>3, ShrinkingKeepsApart
<1>4. ASSUME UNCHANGED <<registry, remote>>
      PROVE  TokensApart'
  BY <1>4, ShrinkingKeepsApart DEF registry, remote, Registered
<1>5. CASE Connection
  BY <1>2, <1>4, <1>5, QueueUploadKeepsApart, RequestKeepsApart, ResponseKeepsApart
     DEF Connection, FinishServe
<1>6. CASE CommandLoop
  BY <1>3, <1>4, <1>6 DEF CommandLoop, CmdStartUpload, CmdPumpUploads
<1>7. CASE \E id \in streaming : FinishUpload(id)
  BY <1>4, <1>7 DEF FinishUpload
<1>8. CASE BusWorker
  BY <1>4, <1>8 DEF BusWorker, BusResolveUploadPeer, BusPeerUploadConnect
<1>9. CASE \E p \in Peers : Answer(p)
  BY <1>4, <1>9 DEF Answer, GetPeerAddress
<1>10. CASE NetConnClosed \/ LoginResponse
  BY <1>4, <1>10 DEF NetConnClosed, LoginResponse
<1>11. CASE UNCHANGED vars
  BY <1>4, <1>11 DEF vars
<1>12. QED
  BY <1>5, <1>6, <1>7, <1>8, <1>9, <1>10, <1>11 DEF Next

LEMMA InitApart == Init => AInv
<1> SUFFICES ASSUME Init
             PROVE  AInv
  OBVIOUS
<1>1. DOMAIN by_token = {} /\ offers = {} /\ tickets = {}
  BY DEF Init
<1>2. QED
  BY <1>1, InitLockstep DEF AInv, TokensApart, Registered
-----------------------------------------------------------------------------
(* Every step moves uploads forward.                                       *)

\* Only an upload that was not approved is collected: tickets are for tokens of
\* the downloader, verdicts for tokens of ours.
LEMMA RecvFileMovesForward ==
  ASSUME DisjointTokens, AInv, NEW p, NEW tok, RecvFile(p, tok)
  PROVE  HomesMoveForward
<1>1. UNCHANGED <<next_id, gate>> /\ <<p, tok>> \in tickets
  BY DEF RecvFile
<1>2. CASE Collectable(p, tok) /\ Drop({tok})
             /\ serving' = serving \cup {by_token[tok].transfer_id}
  <2>1. tok \in Registered /\ tok \notin Minted
    <3>1. p \in Peers /\ tok \in PeerTokens[p]
      BY <1>1 DEF AInv, TokensApart, LInv, IInv, TypeOK
    <3>2. QED
      BY <1>2, <3>1, ChosenAreNotMinted DEF Collectable, AInv
  <2>2. by_token[tok].approved = FALSE
    BY <2>1 DEF AInv, TokensApart, LInv, IInv, RegistryOf, Registered, Pending
  <2>3. by_token[tok].transfer_id \in PendingAs(FALSE)
    BY <2>1, <2>2 DEF PendingAs
  <2>4. QED
    BY <1>1, <1>2, <2>3, DropLeaves DEF HomesMoveForward, gate, Waiting
<1>3. CASE UNCHANGED <<by_token, serving>>
  BY <1>1, <1>3 DEF HomesMoveForward, gate, Waiting, PendingAs, Registered
<1>4. QED
  BY <1>2, <1>3 DEF RecvFile

\* What a pump starts came from its jobs.
LEMMA PumpMovesForward ==
  ASSUME IInv, NEW jobs \in Seq(Nat), IsInjective(jobs), Waiting \subseteq Range(jobs),
         Range(jobs) \subseteq Waiting \cup PendingAs(TRUE), Pump(jobs),
         UNCHANGED <<next_id, serving>>,
         PendingAs(TRUE)' \subseteq PendingAs(TRUE), PendingAs(FALSE)' \subseteq PendingAs(FALSE)
  PROVE  HomesMoveForward
<1>1. Range(jobs) \cap streaming = {}
  BY HomesAreApart
<1>2. Range(waiting') \cup streaming' = Range(jobs) \cup streaming
      /\ Range(waiting') \cap streaming' = {}
  BY <1>1, PumpGate DEF IInv, TypeOK
<1>3. streaming \subseteq streaming'
  BY DEF Pump
<1>4. Range(waiting') \cap streaming = {}
  BY <1>2, <1>3
<1>5. Waiting' = Range(waiting')
  BY DEF Waiting
<1>6. QED
  BY <1>2, <1>4, <1>5 DEF HomesMoveForward

LEMMA ConnectMovesForward ==
  ASSUME IInv, CmdUploadConnect
  PROVE  HomesMoveForward
<1> DEFINE ready == Approved(Head(cmds).username)
<1>1. /\ ready \in SUBSET Registered /\ Drop(ready) /\ UNCHANGED <<next_id, serving>>
      /\ \A t \in ready : by_token[t].approved = TRUE
  BY DEF CmdUploadConnect, Approved, IInv, RegistryOf, Registered, Pending
<1>2. IdsOf(by_token, ready) \subseteq PendingAs(TRUE)
  BY <1>1 DEF IdsOf, PendingAs
<1>3. PendingAs(TRUE)' \subseteq PendingAs(TRUE) /\ PendingAs(FALSE)' \subseteq PendingAs(FALSE)
  BY <1>1, DropLeaves
<1>4. CASE Pump(waiting)
  BY <1>1, <1>3, <1>4, PumpMovesForward DEF IInv, TypeOK, OneHome, Waiting
<1>5. ASSUME NEW order \in Bijection(1 .. Cardinality(ready), ready),
             Pump(waiting \o [i \in 1 .. Cardinality(ready) |-> by_token[order[i]].transfer_id])
      PROVE  HomesMoveForward
  <2> DEFINE jobs == waiting \o [i \in 1 .. Cardinality(ready) |-> by_token[order[i]].transfer_id]
  <2> HIDE DEF ready
  <2>1. /\ jobs \in Seq(Nat) /\ IsInjective(jobs)
        /\ Range(jobs) = Waiting \cup IdsOf(by_token, ready)
    BY <1>1, MovedJobs
  <2>2. Pump(jobs)
    BY <1>5
  <2> HIDE DEF jobs
  <2>3. QED
    BY <1>1, <1>2, <1>3, <2>1, <2>2, PumpMovesForward
<1>6. QED
  BY <1>4, <1>5 DEF CmdUploadConnect

LEMMA NextMovesForward ==
  ASSUME DisjointTokens, AInv, [Next]_vars
  PROVE  HomesMoveForward
<1>1. IInv
  BY DEF AInv, LInv
<1>2. ASSUME UNCHANGED <<by_token, next_id, waiting>>, streaming' \subseteq streaming,
             serving' \subseteq serving
      PROVE  HomesMoveForward
  BY <1>2 DEF HomesMoveForward, PendingAs, Registered, Waiting
<1>3. CASE Connection
  <2>1. ASSUME NEW p \in Peers, OnQueueUpload(p)
        PROVE  HomesMoveForward
    BY <1>1, <2>1, RegisterMovesForward DEF OnQueueUpload
  <2>2. ASSUME NEW p \in Peers, NEW tok \in Tokens, OnTransferRequestDownload(p, tok)
        PROVE  HomesMoveForward
    BY <1>1, <2>2, RegisterMovesForward DEF OnTransferRequestDownload
  <2>3. ASSUME NEW id \in serving, FinishServe(id)
        PROVE  HomesMoveForward
    BY <1>2, <2>3 DEF FinishServe, registry, gate
  <2>4. QED
    BY <1>1, <1>3, <2>1, <2>2, <2>3, ResponseMovesForward, RecvFileMovesForward DEF Connection
<1>4. CASE \E id \in streaming : FinishUpload(id)
  BY <1>2, <1>4 DEF FinishUpload, registry
<1>5. CASE CmdPumpUploads
  <2>1. /\ Pump(waiting) /\ UNCHANGED <<next_id, serving, by_token>>
        /\ PendingAs(TRUE)' = PendingAs(TRUE) /\ PendingAs(FALSE)' = PendingAs(FALSE)
    BY <1>5 DEF CmdPumpUploads, registry, PendingAs, Registered
  <2>2. waiting \in Seq(Nat) /\ IsInjective(waiting) /\ Waiting = Range(waiting)
    BY <1>1 DEF IInv, TypeOK, OneHome, Waiting
  <2>3. QED
    BY <1>1, <2>1, <2>2, PumpMovesForward
<1>6. CASE CommandLoop
  BY <1>1, <1>2, <1>5, <1>6, ConnectMovesForward DEF CommandLoop, CmdStartUpload, registry, gate
<1>7. CASE BusWorker
  BY <1>2, <1>7 DEF BusWorker, BusResolveUploadPeer, BusPeerUploadConnect, registry, gate
<1>8. CASE \E p \in Peers : Answer(p)
  BY <1>2, <1>8 DEF Answer, GetPeerAddress, registry, gate
<1>9. CASE NetConnClosed \/ LoginResponse
  BY <1>2, <1>9 DEF NetConnClosed, LoginResponse, registry, gate
<1>10. CASE UNCHANGED vars
  BY <1>2, <1>10 DEF vars, registry, gate
<1>11. QED
  BY <1>3, <1>4, <1>6, <1>7, <1>8, <1>9, <1>10 DEF Next

\* The uploads that hold a slot in the lifecycle are those that stream.
LEMMA SlotsHeldAreCounted ==
  ASSUME IInv
  PROVE  Slots # 0 =>
           Cardinality({id \in LifecycleIds : Stage(id) = "streaming"}) <= Slots
<1>1. LifecycleIds \subseteq Nat
  BY DEF LifecycleIds
<1>2. {id \in LifecycleIds : Stage(id) = "streaming"} \subseteq streaming
  BY <1>1, EveryIdHasItsStage DEF StageIsHome
<1> DEFINE held == {id \in LifecycleIds : Stage(id) = "streaming"}
<1> HIDE DEF held
<1>3. /\ IsFiniteSet(streaming) /\ active = Cardinality(streaming)
      /\ Slots # 0 => active <= Slots
  BY DEF IInv, SlotsAccounted
<1>4. IsFiniteSet(held) /\ Cardinality(held) <= Cardinality(streaming)
  BY <1>2, <1>3, FS_Subset DEF held
<1>5. Cardinality(held) \in Nat /\ Cardinality(streaming) \in Nat
  BY <1>3, <1>4, FS_CardinalityType
<1>6. QED
  BY <1>3, <1>4, <1>5, UploadsAssumption DEF held

SlotsHeld == Slots # 0 => Cardinality({id \in LifecycleIds : Stage(id) = "streaming"}) <= Slots

LEMMA NextSlotsHeld == IInv' => SlotsHeld'
<1>1. IInv => SlotsHeld
  BY SlotsHeldAreCounted DEF SlotsHeld
<1>2. QED
  BY <1>1, PTL

LEMMA LifecycleStarts ==
  ASSUME Init
  PROVE  Lifecycle!LifecycleInit
<1>1. IInv /\ next_id = 0
  BY InitIInv DEF Init
<1>2. \A id \in LifecycleIds : id \in Nat /\ id >= next_id
  BY <1>1 DEF LifecycleIds
<1>3. \A id \in LifecycleIds : Stage(id) = "none"
  BY <1>1, <1>2, EveryIdHasItsStage DEF StageIsHome
<1>4. QED
  BY <1>3 DEF Lifecycle!LifecycleInit

LEMMA LifecycleGoesOn ==
  ASSUME DisjointTokens, AInv, [Next]_vars
  PROVE  Lifecycle!LifecycleNext
<1>1. IInv /\ IInv' /\ HomesMoveForward
  BY NextApart, NextMovesForward DEF AInv, LInv
<1>2. LifecycleIds \subseteq Nat
  BY DEF LifecycleIds
<1>3. \A id \in LifecycleIds : Stage(id)' \in Lifecycle!Stages
  BY <1>1, <1>2, NextStageIsHome DEF StageIsHome
<1>4. \A id \in LifecycleIds :
        Stage(id)' = Stage(id) \/ <<Stage(id), Stage(id)'>> \in Lifecycle!Forward
  BY <1>1, <1>2, ForwardHomesForwardStages
<1>5. Slots # 0 => Cardinality({id \in LifecycleIds : Stage(id)' = "streaming"}) <= Slots
  BY <1>1, NextSlotsHeld DEF SlotsHeld
<1>6. Lifecycle!HoldsSlot([id \in LifecycleIds |-> Stage(id)'])
        = {id \in LifecycleIds : Stage(id)' = "streaming"}
  BY DEF Lifecycle!HoldsSlot
<1>7. ASSUME NEW S
      PROVE  Lifecycle!Cardinality(S) = Cardinality(S)
  BY DEF Lifecycle!Cardinality, Cardinality
<1>8. QED
  BY <1>3, <1>4, <1>5, <1>6, <1>7 DEF Lifecycle!LifecycleNext

\* The upload side implements the lifecycle, unless a downloader's token equals one
\* of ours: whatever is offered, answered, collected, evicted, pumped or finished
\* in whichever order, an upload goes forward through its stages, and those that
\* stream fit into the slots.
THEOREM UploadsImplementLifecycle ==
  ASSUME DisjointTokens
  PROVE  Spec => ImplementsLifecycle
<1>1. Init => Lifecycle!LifecycleInit
  BY LifecycleStarts
<1>2. AInv /\ [Next]_vars => AInv'
  BY NextApart
<1>3. AInv /\ [Next]_vars => Lifecycle!LifecycleNext
  BY LifecycleGoesOn
<1>4. QED
  BY <1>1, <1>2, <1>3, InitApart, PTL DEF Spec, ImplementsLifecycle, Lifecycle!LifecycleSpec
-----------------------------------------------------------------------------
(* What drives an approved upload.                                         *)

Linked == drops = 0 => logged_in /\ ApprovedIsDriven

DInv == AInv /\ Linked

\* Whatever else grows, what drives p goes on to.
LEMMA DrivenGoesOn ==
  ASSUME Range(cmds) \subseteq Range(cmds'), Range(bus) \subseteq Range(bus'),
         UNCHANGED <<pending_upload_resolves, asked>>, NEW q, Driven(q)
  PROVE  Driven(q)'
BY DEF Driven

\* A step of a connection: entries that are approved were so before.
LEMMA NothingNewApproved ==
  ASSUME DInv, UNCHANGED <<drops, logged_in, pending_upload_resolves, asked>>,
         Range(cmds) \subseteq Range(cmds'), Range(bus) \subseteq Range(bus'),
         \A t \in Registered' : by_token'[t].approved =>
           /\ t \in Registered /\ by_token[t].approved
           /\ by_token'[t].username = by_token[t].username
  PROVE  Linked'
BY DrivenGoesOn DEF DInv, Linked, ApprovedIsDriven

LEMMA ChannelTypes == DInv => cmds \in Seq(Command) /\ bus \in Seq(BusMessage) /\ asked \in [Peers -> Nat]
BY DEF DInv, AInv, LInv, IInv, TypeOK

LEMMA ConnectionKeepsLinked ==
  ASSUME DInv, Connection
  PROVE  Linked'
<1>1. ASSUME NEW p, NEW tok, NEW gone, Register(p, tok, gone),
             UNCHANGED <<drops, logged_in, pending_upload_resolves, asked, cmds, bus>>
      PROVE  Linked'
  <2>1. Offer(p).approved = FALSE
    BY DEF Offer
  <2>2. \A t \in Registered' : by_token'[t].approved =>
          t \in Registered /\ by_token'[t] = by_token[t]
    BY <1>1, <2>1, RegisteredUnder
  <2>3. QED
    BY <1>1, <2>2, NothingNewApproved
<1>2. ASSUME NEW p \in Peers, OnQueueUpload(p)
      PROVE  Linked'
  BY <1>1, <1>2 DEF OnQueueUpload, session
<1>3. ASSUME NEW p \in Peers, NEW tok \in Tokens, OnTransferRequestDownload(p, tok)
      PROVE  Linked'
  BY <1>1, <1>3 DEF OnTransferRequestDownload, session
<1>4. ASSUME NEW p \in Peers, NEW tok \in Tokens, NEW ok \in BOOLEAN, OnTransferResponse(p, tok, ok)
      PROVE  Linked'
  <2>1. /\ UNCHANGED <<drops, logged_in, pending_upload_resolves, asked, bus>>
        /\ <<p, tok>> \in offers
    BY <1>4 DEF OnTransferResponse, session
  <2>2. CASE tok \in Registered /\ by_token' = [by_token EXCEPT ![tok].approved = TRUE]
             /\ cmds' = Append(cmds, StartUpload(p))
    <3>1. Range(cmds') = Range(cmds) \cup {StartUpload(p)}
      BY <2>2, ChannelTypes, MessageTypes, AppendToChannel
    <3>2. /\ Registered' = Registered
          /\ \A t \in Registered : by_token'[t].username = by_token[t].username
          /\ \A t \in Registered : t # tok => by_token'[t] = by_token[t]
      BY <2>2 DEF DInv, AInv, LInv, IInv, RegistryOf, Registered, Pending
    <3>3. by_token'[tok].username = p
      BY <2>1, <2>2, <3>2 DEF DInv, AInv, TokensApart
    <3>4. Driven(p)'
      BY <3>1 DEF Driven
    <3>5. \A q : Driven(q) => Driven(q)'
      BY <2>1, <3>1, DrivenGoesOn
    <3>6. QED
      BY <2>1, <3>2, <3>3, <3>4, <3>5 DEF DInv, Linked, ApprovedIsDriven
  <2>3. CASE Drop({tok}) /\ UNCHANGED cmds
    BY <2>1, <2>3, DropShrinks, NothingNewApproved
  <2>4. CASE UNCHANGED <<by_token, cmds>>
    BY <2>1, <2>4, NothingNewApproved DEF Registered
  <2>5. QED
    BY <1>4, <2>2, <2>3, <2>4 DEF OnTransferResponse
<1>5. ASSUME NEW p \in Peers, NEW tok \in Tokens, RecvFile(p, tok)
      PROVE  Linked'
  <2>1. UNCHANGED <<drops, logged_in, pending_upload_resolves, asked, cmds, bus>>
    BY <1>5 DEF RecvFile, session
  <2>2. Drop({tok}) \/ UNCHANGED by_token
    BY <1>5 DEF RecvFile
  <2>3. \A t \in Registered' : t \in Registered /\ by_token'[t] = by_token[t]
    BY <2>2, DropShrinks DEF Registered
  <2>4. QED
    BY <2>1, <2>3, NothingNewApproved
<1>6. ASSUME NEW id \in serving, FinishServe(id)
      PROVE  Linked'
  BY <1>6, NothingNewApproved DEF FinishServe, session, registry, Registered
<1>7. QED
  BY <1>2, <1>3, <1>4, <1>5, <1>6 DEF Connection

LEMMA CommandsKeepLinked ==
  ASSUME DInv, CommandLoop
  PROVE  Linked'
<1>1. UNCHANGED <<drops, logged_in, pending_upload_resolves, asked>>
  BY DEF CommandLoop, CmdStartUpload, CmdUploadConnect, CmdPumpUploads, session
<1>2. /\ cmds # <<>> /\ cmds' = Tail(cmds) /\ Head(cmds) \in Command
      /\ \A m \in Range(cmds) : m = Head(cmds) \/ m \in Range(cmds')
  BY ChannelTypes, HeadOfChannel
     DEF CommandLoop, CmdStartUpload, CmdUploadConnect, CmdPumpUploads, NextCmd
<1>3. CASE CmdStartUpload
  <2> DEFINE p == Head(cmds).username
  <2>1. /\ Head(cmds).kind = "StartUpload" /\ UNCHANGED by_token
        /\ bus' = Append(bus, ResolveUploadPeer(p))
    BY <1>3 DEF CmdStartUpload, NextCmd, registry
  <2>2. Head(cmds) = StartUpload(p) /\ p \in Peers
    BY <1>2, <2>1 DEF Command, StartUpload
  <2>3. Range(bus') = Range(bus) \cup {ResolveUploadPeer(p)}
    BY <2>1, <2>2, ChannelTypes, MessageTypes, AppendToChannel
  <2>4. ASSUME NEW q, Driven(q)
        PROVE  Driven(q)'
    <3>1. CASE q = p
      BY <2>3, <3>1 DEF Driven
    <3>2. CASE q # p
      <4>1. /\ StartUpload(q) # Head(cmds)
            /\ \A on \in BOOLEAN : UploadConnect(q, on) # Head(cmds)
        BY <2>2, <3>2 DEF StartUpload, UploadConnect
      <4>2. QED
        BY <1>1, <1>2, <2>3, <2>4, <4>1 DEF Driven
    <3>3. QED
      BY <3>1, <3>2
  <2>5. QED
    BY <1>1, <2>1, <2>4 DEF DInv, Linked, ApprovedIsDriven, Registered
<1>4. CASE CmdUploadConnect
  <2> DEFINE p == Head(cmds).username
  <2>1. Drop(Approved(p)) /\ UNCHANGED bus /\ Head(cmds).kind = "UploadConnect"
    BY <1>4 DEF CmdUploadConnect, NextCmd
  <2>2. \A t \in Registered' : /\ t \in Registered /\ by_token'[t] = by_token[t]
                               /\ by_token[t].approved => by_token[t].username # p
    BY <2>1 DEF Drop, Without, Restrict, Registered, Approved
  <2>3. \A q, on : q # p => UploadConnect(q, on) # Head(cmds) /\ StartUpload(q) # Head(cmds)
    BY <2>1 DEF StartUpload, UploadConnect
  <2>4. ASSUME NEW q, q # p, Driven(q)
        PROVE  Driven(q)'
    BY <1>1, <1>2, <2>1, <2>3, <2>4 DEF Driven
  <2>5. QED
    BY <1>1, <2>2, <2>4 DEF DInv, Linked, ApprovedIsDriven
<1>5. CASE CmdPumpUploads
  <2>1. /\ Head(cmds).kind = "PumpUploads" /\ UNCHANGED <<by_token, bus>>
    BY <1>5 DEF CmdPumpUploads, NextCmd, registry
  <2>2. \A q, on : UploadConnect(q, on) # Head(cmds) /\ StartUpload(q) # Head(cmds)
    BY <2>1 DEF StartUpload, UploadConnect
  <2>3. ASSUME NEW q, Driven(q)
        PROVE  Driven(q)'
    BY <1>1, <1>2, <2>1, <2>2, <2>3 DEF Driven
  <2>4. QED
    BY <1>1, <2>1, <2>3 DEF DInv, Linked, ApprovedIsDriven, Registered
<1>6. QED
  BY <1>3, <1>4, <1>5 DEF CommandLoop

LEMMA BusKeepsLinked ==
  ASSUME DInv, BusWorker
  PROVE  Linked'
<1>1. UNCHANGED <<drops, logged_in, by_token>>
  BY DEF BusWorker, BusResolveUploadPeer, BusPeerUploadConnect, session, registry
<1>2. /\ bus # <<>> /\ bus' = Tail(bus) /\ Head(bus) \in BusMessage
      /\ \A m \in Range(bus) : m = Head(bus) \/ m \in Range(bus')
  BY ChannelTypes, HeadOfChannel
     DEF BusWorker, BusResolveUploadPeer, BusPeerUploadConnect, NextMessage
<1> DEFINE p == Head(bus).username
<1> SUFFICES ASSUME drops = 0, NEW q, Driven(q)
             PROVE  Driven(q)'
  BY <1>1 DEF DInv, Linked, ApprovedIsDriven, Registered
<1>3. CASE BusResolveUploadPeer
  <2>1. /\ Head(bus) = ResolveUploadPeer(p) /\ p \in Peers /\ UNCHANGED cmds
    BY <1>2, <1>3 DEF BusResolveUploadPeer, NextMessage, BusMessage, ResolveUploadPeer
  <2>2. /\ pending_upload_resolves' = pending_upload_resolves \cup {p}
        /\ asked' = [asked EXCEPT ![p] = @ + 1]
    BY <1>3 DEF BusResolveUploadPeer, DInv, Linked
  <2>3. asked'[p] > 0 /\ \A r : r # p => asked'[r] = asked[r]
    BY <2>1, <2>2, ChannelTypes
  <2>4. CASE q = p
    BY <2>2, <2>3, <2>4 DEF Driven
  <2>5. CASE q # p
    <3>1. ResolveUploadPeer(q) # Head(bus) /\ \A on : PeerUploadConnect(q, on) # Head(bus)
      BY <2>1, <2>5 DEF ResolveUploadPeer, PeerUploadConnect
    <3>2. QED
      BY <1>2, <2>1, <2>2, <2>3, <2>5, <3>1 DEF Driven
  <2>6. QED
    BY <2>4, <2>5
<1>4. CASE BusPeerUploadConnect
  <2>1. /\ Head(bus) = PeerUploadConnect(p, Head(bus).online) /\ p \in Peers
        /\ Head(bus).online \in BOOLEAN
        /\ cmds' = Append(cmds, UploadConnect(p, Head(bus).online))
        /\ UNCHANGED <<pending_upload_resolves, asked>>
    BY <1>2, <1>4 DEF BusPeerUploadConnect, NextMessage, BusMessage, PeerUploadConnect, session
  <2>2. Range(cmds') = Range(cmds) \cup {UploadConnect(p, Head(bus).online)}
    BY <2>1, ChannelTypes, MessageTypes, AppendToChannel
  <2>3. CASE q = p
    BY <2>1, <2>2, <2>3 DEF Driven
  <2>4. CASE q # p
    <3>1. ResolveUploadPeer(q) # Head(bus) /\ \A on : PeerUploadConnect(q, on) # Head(bus)
      BY <2>1, <2>4 DEF ResolveUploadPeer, PeerUploadConnect
    <3>2. QED
      BY <1>2, <2>1, <2>2, <3>1 DEF Driven
  <2>5. QED
    BY <2>3, <2>4
<1>5. QED
  BY <1>3, <1>4 DEF BusWorker

LEMMA AnswerKeepsLinked ==
  ASSUME DInv, NEW p \in Peers, NEW online \in BOOLEAN, GetPeerAddress(p, online)
  PROVE  Linked'
<1>1. /\ UNCHANGED <<drops, logged_in, by_token, cmds>>
      /\ asked' = [asked EXCEPT ![p] = @ - 1]
      /\ pending_upload_resolves' = pending_upload_resolves \ {p}
      /\ bus' = IF p \in pending_upload_resolves
                THEN Append(bus, PeerUploadConnect(p, online)) ELSE bus
  BY DEF GetPeerAddress, registry
<1>2. Range(Append(bus, PeerUploadConnect(p, online))) = Range(bus) \cup {PeerUploadConnect(p, online)}
  BY ChannelTypes, MessageTypes, AppendToChannel
<1>3. \A r : r # p => asked'[r] = asked[r]
  BY <1>1, ChannelTypes
<1>4. ASSUME NEW q, Driven(q)
      PROVE  Driven(q)'
  <2>1. CASE q = p /\ p \in pending_upload_resolves
    BY <1>1, <1>2, <2>1 DEF Driven
  <2>2. CASE q # p \/ p \notin pending_upload_resolves
    BY <1>1, <1>2, <1>3, <1>4, <2>2 DEF Driven
  <2>3. QED
    BY <2>1, <2>2
<1>5. QED
  BY <1>1, <1>4 DEF DInv, Linked, ApprovedIsDriven, Registered

LEMMA NextLinked ==
  ASSUME DisjointTokens, DInv, [Next]_vars
  PROVE  DInv'
<1>1. AInv'
  BY NextApart DEF DInv
<1>2. CASE \E id \in streaming : FinishUpload(id)
  <2>1. /\ UNCHANGED <<drops, logged_in, pending_upload_resolves, asked, bus, by_token>>
        /\ cmds' = Append(cmds, PumpUploads)
    BY <1>2 DEF FinishUpload, session, registry
  <2>2. Range(cmds) \subseteq Range(cmds')
    BY <2>1, ChannelTypes, MessageTypes, AppendToChannel
  <2>3. Linked'
    BY <2>1, <2>2, NothingNewApproved DEF Registered
  <2>4. QED
    BY <1>1, <2>3 DEF DInv
<1>3. CASE NetConnClosed
  <2>1. drops' # 0
    BY <1>3 DEF NetConnClosed, DInv, AInv, LInv, IInv, TypeOK
  <2>2. QED
    BY <1>1, <2>1 DEF DInv, Linked
<1>4. CASE LoginResponse
  <2>1. drops' # 0
    BY <1>4 DEF LoginResponse, DInv, Linked
  <2>2. QED
    BY <1>1, <2>1 DEF DInv, Linked
<1>5. CASE UNCHANGED vars
  BY <1>1, <1>5, NothingNewApproved DEF DInv, vars, registry, session, Registered
<1>6. QED
  BY <1>1, <1>2, <1>3, <1>4, <1>5, ConnectionKeepsLinked, CommandsKeepLinked, BusKeepsLinked,
     AnswerKeepsLinked DEF DInv, Next, Answer

\* While the link to the server stands, an approved upload is never forgotten:
\* its verdict, its address request or the answer to that is on its way through
\* the command loop, the bus, session and the server, unless a downloader's token
\* equals one of ours.
THEOREM ApprovedUploadsAreDriven ==
  ASSUME DisjointTokens
  PROVE  Spec => []ApprovedIsDrivenWhileLinked
<1>1. Init => DInv
  <2> SUFFICES ASSUME Init
               PROVE  DInv
    OBVIOUS
  <2>1. Registered = {} /\ logged_in
    BY DEF Init, Registered
  <2>2. QED
    BY <2>1, InitApart DEF DInv, Linked, ApprovedIsDriven
<1>2. DInv /\ [Next]_vars => DInv'
  BY NextLinked
<1>3. DInv => ApprovedIsDrivenWhileLinked
  BY DEF DInv, Linked, ApprovedIsDrivenWhileLinked
<1>4. QED
  BY <1>1, <1>2, <1>3, PTL DEF Spec

-----------------------------------------------------------------------------
(* Places in the queue.                                                    *)

\* A step adds at most the newest id to the book.
LEMMA BookGrowsAtTheEnd ==
  ASSUME IInv, [Next]_vars
  PROVE  queued' \subseteq queued \cup {next_id}
<1>1. ASSUME NEW p, NEW tok, NEW gone, Register(p, tok, gone)
      PROVE  queued' \subseteq queued \cup {next_id}
  BY <1>1 DEF Register
<1>2. ASSUME NEW toks, Drop(toks)
      PROVE  queued' \subseteq queued
  BY <1>2 DEF Drop
<1>3. CASE Connection
  BY <1>1, <1>2, <1>3 DEF Connection, OnQueueUpload, OnTransferRequestDownload, OnTransferResponse,
     RecvFile, FinishServe, registry
<1>4. CASE CommandLoop
  BY <1>2, <1>4 DEF CommandLoop, CmdStartUpload, CmdUploadConnect, CmdPumpUploads, registry
<1>5. CASE ~Connection /\ ~CommandLoop
  BY <1>5 DEF Next, vars, FinishUpload, BusWorker, BusResolveUploadPeer, BusPeerUploadConnect,
     Answer, GetPeerAddress, NetConnClosed, LoginResponse, registry
<1>6. QED
  BY <1>3, <1>4, <1>5

\* The place told for a queued upload never gets worse: uploads queued later are
\* counted behind it, and those before it can only leave.
THEOREM PlacesNeverGrow == Spec => PlaceNeverGrows
<1>1. IInv /\ [Next]_vars =>
        [\A id \in queued \cap queued' : PlaceInQueue(id)' <= PlaceInQueue(id)]_vars
  <2> SUFFICES ASSUME IInv, [Next]_vars, NEW id \in queued \cap queued'
               PROVE  PlaceInQueue(id)' <= PlaceInQueue(id)
    OBVIOUS
  <2> DEFINE before == {i \in queued : i < id}
             after  == {i \in queued' : i < id}
  <2>1. queued \subseteq 0 .. next_id - 1 /\ next_id \in Nat
    BY DEF IInv, TypeOK, Ids
  <2>2. IsFiniteSet(before)
    <3>1. IsFiniteSet(0 .. next_id - 1)
      BY <2>1, FS_Interval
    <3>2. before \subseteq 0 .. next_id - 1
      BY <2>1
    <3>3. QED
      BY <3>1, <3>2, FS_Subset
  <2>3. after \subseteq before
    BY <2>1, BookGrowsAtTheEnd
  <2> HIDE DEF before, after
  <2>4. IsFiniteSet(after) /\ Cardinality(after) <= Cardinality(before)
    BY <2>2, <2>3, FS_Subset
  <2>5. Cardinality(after) \in Nat /\ Cardinality(before) \in Nat
    BY <2>2, <2>4, FS_CardinalityType
  <2>6. PlaceInQueue(id) = Cardinality(before) + 1
    BY DEF PlaceInQueue, before
  <2>7. PlaceInQueue(id)' = Cardinality(after) + 1
    BY DEF PlaceInQueue, after
  <2>8. QED
    BY <2>4, <2>5, <2>6, <2>7
<1>2. QED
  BY <1>1, Invariance, PTL DEF Spec, PlaceNeverGrows
=============================================================================
