-------------------------- MODULE ApiServerProofs --------------------------
(***************************************************************************)
(* What the api server keeps: the calls it bridges and the lists it shows. *)
(*                                                                         *)
(* The properties of ApiBridge for any calls, users, cards and scenarios:  *)
(* a call has one message under way; a browse is carried by the question   *)
(* for its user's address, by a browse task or by the news of its end; the *)
(* tokens of the cards only rise, and what replaces a card follows on it.  *)
(*                                                                         *)
(* Those of TransferRows for any files, lists and rows: what is being      *)
(* written holds every row that is over, and the active rows of a file are *)
(* balanced by the ends that are to come.                                  *)
(***************************************************************************)
EXTENDS ApiBridge, TransferRows, TLAPS, SequenceTheorems, FiniteSetTheorems

-----------------------------------------------------------------------------
(* Types.                                                                    *)

Inputs == {"plain", "list"}
Tracks == ToSet(Given) \cup {NoTrack} \cup (Callers \X {1, 2})

ExtractCmds == [type : {"Extract"}, corr : Nat, input : Inputs]
StartCmds == [type : {"StartSearch"}, corr : Nat, input : Inputs, jobs : Seq(Tracks)]
BrowseCmds == [type : {"BrowseUser"}, corr : Nat, user : Users \cup {Nobody}]
RemoveCmds == [type : {"RemoveSearch"}, corr : {0}, token : Nat]
CallCmds == ExtractCmds \cup StartCmds \cup BrowseCmds

ExtractRes == [error : BOOLEAN, found : Seq({1, 2})]
StartRes == [error : BOOLEAN, started : SUBSET Nat]
BrowseRes == [error : BOOLEAN]
ResultOf == [Extract |-> ExtractRes, StartSearch |-> StartRes, BrowseUser |-> BrowseRes]

\* Messages on the bus that belong to a call, and those that do not.
Addressed ==
  [type : {"ExtractResult"}, corr : Nat, result : ExtractRes]
    \cup [type : {"StartSearchResult"}, corr : Nat, result : StartRes]
    \cup [type : {"BrowseAccepted"}, corr : Nat, result : BrowseRes]
    \cup StartCmds \cup BrowseCmds \cup RemoveCmds
Unaddressed ==
  [type : {"SearchStarted"}, token : Nat, track : Tracks]
    \cup [type : {"GetPeerAddress"}, user : Users, offline : BOOLEAN]
    \cup [type : {"PeerBrowseConnect", "BrowseListing", "BrowseFailed"}, user : Users]
Messages == Addressed \cup Unaddressed

CallStates == [pc : {"idle", "waiting", "expiring", "over"}, corr : Nat,
               cmd : {NoCall.cmd} \cup CallCmds,
               reply : Seq(ExtractRes \cup StartRes \cup BrowseRes),
               replace : Nat, started : SUBSET Nat]

EntriesType ==
  /\ corr \in Nat
  /\ DOMAIN pending \subseteq 1 .. corr /\ \A k \in DOMAIN pending : pending[k] \in Callers
  /\ caller \in [Callers -> CallStates]

QueuesType ==
  /\ cmds \in Seq(CallCmds \cup RemoveCmds)
  /\ extracts \in Seq(ExtractCmds)
  /\ bus \in Seq(Messages)

CardsType ==
  /\ next_token \in Nat /\ searches \subseteq [token : Nat, track : Tracks]
  /\ removed \subseteq Nat

BrowsesType ==
  /\ lookups \in Seq(Users) /\ pending_browses \subseteq Users
  /\ browsing \in [Users -> Nat] /\ owed \subseteq Users

BridgeType == EntriesType /\ QueuesType /\ CardsType /\ BrowsesType

LEMMA CallKinds ==
  ASSUME NEW m \in CallCmds \cup RemoveCmds
  PROVE  /\ "corr" \in DOMAIN m /\ m.corr \in Nat
         /\ m.type \in {"Extract", "StartSearch", "BrowseUser", "RemoveSearch"}
         /\ m.type = "Extract" => m \in ExtractCmds
         /\ m.type = "StartSearch" => m \in StartCmds
         /\ m.type = "BrowseUser" => m \in BrowseCmds
         /\ m.type = "RemoveSearch" => m \in RemoveCmds
<1>1. CASE m \in ExtractCmds
  BY <1>1 DEF ExtractCmds
<1>2. CASE m \in StartCmds
  BY <1>2 DEF StartCmds
<1>3. CASE m \in BrowseCmds
  BY <1>3 DEF BrowseCmds
<1>4. CASE m \in RemoveCmds
  BY <1>4 DEF RemoveCmds
<1>5. QED
  BY <1>1, <1>2, <1>3, <1>4 DEF CallCmds

LEMMA AddressedKinds ==
  ASSUME NEW m \in Addressed
  PROVE  /\ "corr" \in DOMAIN m /\ m.corr \in Nat
         /\ m.type \in {"ExtractResult", "StartSearchResult", "BrowseAccepted",
                        "StartSearch", "BrowseUser", "RemoveSearch"}
         /\ m.type = "ExtractResult" => m.result \in ExtractRes
         /\ m.type = "StartSearchResult" => m.result \in StartRes
         /\ m.type = "BrowseAccepted" => m.result \in BrowseRes
         /\ m.type = "StartSearch" => m \in StartCmds
         /\ m.type = "BrowseUser" => m \in BrowseCmds
         /\ m.type = "RemoveSearch" => m \in RemoveCmds
<1>1. CASE m \in [type : {"ExtractResult"}, corr : Nat, result : ExtractRes]
  BY <1>1
<1>2. CASE m \in [type : {"StartSearchResult"}, corr : Nat, result : StartRes]
  BY <1>2
<1>3. CASE m \in [type : {"BrowseAccepted"}, corr : Nat, result : BrowseRes]
  BY <1>3
<1>4. CASE m \in StartCmds
  BY <1>4 DEF StartCmds
<1>5. CASE m \in BrowseCmds
  BY <1>5 DEF BrowseCmds
<1>6. CASE m \in RemoveCmds
  BY <1>6 DEF RemoveCmds
<1>7. QED
  BY <1>1, <1>2, <1>3, <1>4, <1>5, <1>6 DEF Addressed

LEMMA UnaddressedKinds ==
  ASSUME NEW m \in Unaddressed
  PROVE  /\ "corr" \notin DOMAIN m
         /\ m.type \in {"SearchStarted", "GetPeerAddress", "PeerBrowseConnect",
                        "BrowseListing", "BrowseFailed"}
         /\ m.type = "SearchStarted" => m.token \in Nat /\ m.track \in Tracks
         /\ m.type # "SearchStarted" => m.user \in Users
<1>1. CASE m \in [type : {"SearchStarted"}, token : Nat, track : Tracks]
  BY <1>1
<1>2. CASE m \in [type : {"GetPeerAddress"}, user : Users, offline : BOOLEAN]
  BY <1>2
<1>3. CASE m \in [type : {"PeerBrowseConnect", "BrowseListing", "BrowseFailed"}, user : Users]
  BY <1>3
<1>4. QED
  BY <1>1, <1>2, <1>3 DEF Unaddressed

\* What the type of a message on the bus says about it.
LEMMA MessageKinds ==
  ASSUME NEW m \in Messages
  PROVE  /\ m.type \in {"ExtractResult", "StartSearchResult", "BrowseAccepted",
                        "StartSearch", "BrowseUser", "RemoveSearch"}
              => m \in Addressed
         /\ m.type \in {"SearchStarted", "GetPeerAddress", "PeerBrowseConnect",
                        "BrowseListing", "BrowseFailed"}
              => m \in Unaddressed
         /\ m.type \in {"ExtractResult", "StartSearchResult", "BrowseAccepted",
                        "StartSearch", "BrowseUser", "RemoveSearch", "SearchStarted",
                        "GetPeerAddress", "PeerBrowseConnect", "BrowseListing",
                        "BrowseFailed"}
<1>1. CASE m \in Addressed
  BY <1>1, AddressedKinds
<1>2. CASE m \in Unaddressed
  BY <1>2, UnaddressedKinds
<1>3. QED
  BY <1>1, <1>2 DEF Messages

-----------------------------------------------------------------------------
(* Queues.                                                                   *)

LEMMA HeadTail ==
  ASSUME NEW S, NEW q \in Seq(S), q # <<>>
  PROVE  /\ Len(q) \in Nat \ {0} /\ DOMAIN q = 1 .. Len(q) /\ 1 \in DOMAIN q
         /\ Head(q) = q[1] /\ Head(q) \in S
         /\ Tail(q) \in Seq(S) /\ DOMAIN Tail(q) = 1 .. Len(q) - 1
         /\ \A i \in DOMAIN Tail(q) : i + 1 \in DOMAIN q /\ Tail(q)[i] = q[i + 1]
<1>1. /\ Len(q) \in Nat \ {0} /\ DOMAIN q = 1 .. Len(q) /\ Head(q) = q[1]
      /\ Tail(q) \in Seq(S) /\ Len(Tail(q)) = Len(q) - 1
      /\ \A i \in 1 .. Len(q) - 1 : Tail(q)[i] = q[i + 1]
  OBVIOUS
<1>2. 1 \in DOMAIN q /\ q[1] \in S
  BY <1>1
<1>3. DOMAIN Tail(q) = 1 .. Len(q) - 1
  BY <1>1
<1>4. QED
  BY <1>1, <1>2, <1>3

LEMMA Joined ==
  ASSUME NEW S, NEW q \in Seq(S), NEW r \in Seq(S)
  PROVE  /\ q \o r \in Seq(S) /\ DOMAIN (q \o r) = 1 .. Len(q) + Len(r)
         /\ DOMAIN q = 1 .. Len(q) /\ DOMAIN r = 1 .. Len(r)
         /\ Len(q) \in Nat /\ Len(r) \in Nat
         /\ \A i \in DOMAIN q : i \in DOMAIN (q \o r) /\ (q \o r)[i] = q[i]
         /\ \A i \in DOMAIN r : Len(q) + i \in DOMAIN (q \o r)
                                /\ (q \o r)[Len(q) + i] = r[i]
         /\ \A i \in DOMAIN (q \o r) : i \in DOMAIN q \/ i - Len(q) \in DOMAIN r
<1>1. /\ q \o r \in Seq(S) /\ Len(q \o r) = Len(q) + Len(r)
      /\ \A i \in 1 .. Len(q) + Len(r) :
            (q \o r)[i] = IF i <= Len(q) THEN q[i] ELSE r[i - Len(q)]
      /\ Len(q) \in Nat /\ Len(r) \in Nat
      /\ DOMAIN q = 1 .. Len(q) /\ DOMAIN r = 1 .. Len(r)
  OBVIOUS
<1>2. DOMAIN (q \o r) = 1 .. Len(q) + Len(r)
  BY <1>1
<1>3. QED
  BY <1>1, <1>2

LEMMA Grown ==
  ASSUME NEW S, NEW q \in Seq(S), NEW x \in S
  PROVE  Append(q, x) = q \o <<x>> /\ <<x>> \in Seq(S) /\ Append(q, x) \in Seq(S)
         /\ DOMAIN <<x>> = {1} /\ <<x>>[1] = x /\ Len(<<x>>) = 1
OBVIOUS

\* A message that belongs to the call entered as k.
To(m, k) == "corr" \in DOMAIN m /\ m.corr = k
Clear(queue, k) == \A i \in DOMAIN queue : ~ To(queue[i], k)
AtMostOne(queue, k) ==
  \A i, j \in DOMAIN queue : To(queue[i], k) /\ To(queue[j], k) => i = j
OfKind(queue, k, type) ==
  \A i \in DOMAIN queue : To(queue[i], k) => queue[i].type \in {type, ReplyTo[type]}

LEMMA TailClear ==
  ASSUME NEW S, NEW q \in Seq(S), q # <<>>, NEW k
  PROVE  /\ Clear(q, k) <=> ~ To(Head(q), k) /\ Clear(Tail(q), k)
         /\ AtMostOne(q, k) => AtMostOne(Tail(q), k)
         /\ AtMostOne(q, k) /\ To(Head(q), k) => Clear(Tail(q), k)
         /\ \A type : OfKind(q, k, type) => OfKind(Tail(q), k, type)
         /\ \A type : OfKind(q, k, type) /\ To(Head(q), k) =>
              Head(q).type \in {type, ReplyTo[type]}
<1> PICK r : r = Tail(q)
  OBVIOUS
<1>1. /\ Len(q) \in Nat \ {0} /\ DOMAIN q = 1 .. Len(q) /\ 1 \in DOMAIN q /\ Head(q) = q[1]
      /\ DOMAIN r = 1 .. Len(q) - 1
      /\ \A i \in DOMAIN r : i + 1 \in DOMAIN q /\ r[i] = q[i + 1]
  BY HeadTail
<1>2. \A i \in DOMAIN q : i = 1 \/ (i - 1 \in DOMAIN r /\ r[i - 1] = q[i])
  BY <1>1
<1>3. Clear(q, k) <=> ~ To(Head(q), k) /\ Clear(r, k)
  BY <1>1, <1>2 DEF Clear
<1>4. AtMostOne(q, k) => AtMostOne(r, k)
  <2> SUFFICES ASSUME AtMostOne(q, k), NEW i \in DOMAIN r, NEW j \in DOMAIN r,
                      To(r[i], k), To(r[j], k)
               PROVE  i = j
    BY DEF AtMostOne
  <2>1. i + 1 = j + 1
    BY <1>1 DEF AtMostOne
  <2>2. QED
    BY <1>1, <2>1
<1>5. AtMostOne(q, k) /\ To(Head(q), k) => Clear(r, k)
  <2> SUFFICES ASSUME AtMostOne(q, k), To(Head(q), k), NEW i \in DOMAIN r, To(r[i], k)
               PROVE  FALSE
    BY DEF Clear
  <2>1. i + 1 = 1
    BY <1>1 DEF AtMostOne
  <2>2. QED
    BY <1>1, <2>1
<1>6. \A type : OfKind(q, k, type) => OfKind(r, k, type)
  BY <1>1 DEF OfKind
<1>7. \A type : OfKind(q, k, type) /\ To(Head(q), k) => Head(q).type \in {type, ReplyTo[type]}
  BY <1>1 DEF OfKind
<1>8. QED
  BY <1>3, <1>4, <1>5, <1>6, <1>7

LEMMA JoinedClear ==
  ASSUME NEW S, NEW q \in Seq(S), NEW r \in Seq(S), NEW k
  PROVE  /\ Clear(q \o r, k) <=> Clear(q, k) /\ Clear(r, k)
         /\ AtMostOne(q, k) /\ Clear(r, k) => AtMostOne(q \o r, k)
         /\ Clear(q, k) /\ AtMostOne(r, k) => AtMostOne(q \o r, k)
         /\ \A type : OfKind(q, k, type) /\ OfKind(r, k, type) => OfKind(q \o r, k, type)
<1> PICK p : p = q \o r
  OBVIOUS
<1>1. /\ DOMAIN q = 1 .. Len(q) /\ DOMAIN r = 1 .. Len(r)
      /\ Len(q) \in Nat /\ Len(r) \in Nat /\ DOMAIN p = 1 .. Len(q) + Len(r)
      /\ \A i \in DOMAIN q : i \in DOMAIN p /\ p[i] = q[i]
      /\ \A i \in DOMAIN r : Len(q) + i \in DOMAIN p /\ p[Len(q) + i] = r[i]
      /\ \A i \in DOMAIN p : i \in DOMAIN q \/ i - Len(q) \in DOMAIN r
  BY Joined
<1>2. \A i \in DOMAIN p :
        \/ i \in DOMAIN q /\ p[i] = q[i]
        \/ i - Len(q) \in DOMAIN r /\ p[i] = r[i - Len(q)] /\ i = Len(q) + (i - Len(q))
  BY <1>1
<1>3. Clear(p, k) <=> Clear(q, k) /\ Clear(r, k)
  BY <1>1, <1>2 DEF Clear
<1>4. AtMostOne(q, k) /\ Clear(r, k) => AtMostOne(p, k)
  BY <1>2 DEF Clear, AtMostOne
<1>5. Clear(q, k) /\ AtMostOne(r, k) => AtMostOne(p, k)
  BY <1>1, <1>2 DEF Clear, AtMostOne
<1>6. \A type : OfKind(q, k, type) /\ OfKind(r, k, type) => OfKind(p, k, type)
  BY <1>2 DEF OfKind
<1>7. QED
  BY <1>3, <1>4, <1>5, <1>6

LEMMA GrownClear ==
  ASSUME NEW S, NEW q \in Seq(S), NEW x \in S, NEW k
  PROVE  /\ Clear(Append(q, x), k) <=> Clear(q, k) /\ ~ To(x, k)
         /\ AtMostOne(q, k) /\ (Clear(q, k) \/ ~ To(x, k)) => AtMostOne(Append(q, x), k)
         /\ \A type : OfKind(q, k, type) /\ (To(x, k) => x.type \in {type, ReplyTo[type]})
                        => OfKind(Append(q, x), k, type)
<1> PICK r : r = <<x>>
  OBVIOUS
<1>1. Append(q, x) = q \o r /\ r \in Seq(S) /\ DOMAIN r = {1} /\ r[1] = x
  BY Grown
<1>2. (Clear(r, k) <=> ~ To(x, k)) /\ AtMostOne(r, k)
  BY <1>1 DEF Clear, AtMostOne
<1>3. \A type : (To(x, k) => x.type \in {type, ReplyTo[type]}) => OfKind(r, k, type)
  BY <1>1 DEF OfKind
<1>4. /\ Clear(q \o r, k) <=> Clear(q, k) /\ Clear(r, k)
      /\ AtMostOne(q, k) /\ Clear(r, k) => AtMostOne(q \o r, k)
      /\ Clear(q, k) /\ AtMostOne(r, k) => AtMostOne(q \o r, k)
      /\ \A type : OfKind(q, k, type) /\ OfKind(r, k, type) => OfKind(q \o r, k, type)
  BY <1>1, JoinedClear
<1>5. QED
  BY <1>1, <1>2, <1>3, <1>4

-----------------------------------------------------------------------------
(* The invariant of the entries.                                             *)

AllClear(k) == Clear(cmds, k) /\ Clear(extracts, k) /\ Clear(bus, k)

Single(k) ==
  /\ AtMostOne(cmds, k) /\ AtMostOne(extracts, k) /\ AtMostOne(bus, k)
  /\ Clear(cmds, k) \/ Clear(extracts, k)
  /\ Clear(cmds, k) \/ Clear(bus, k)
  /\ Clear(extracts, k) \/ Clear(bus, k)

AllOfKind(k, type) == OfKind(cmds, k, type) /\ OfKind(extracts, k, type) /\ OfKind(bus, k, type)

CallTypes == {"Extract", "StartSearch", "BrowseUser"}

\* A correlation has one message under way at the most, one not given out yet has none,
\* and one that is entered has one.
OneUnderWay ==
  \A k \in Nat \ {0} :
    /\ Single(k)
    /\ k > corr => AllClear(k)
    /\ k \in DOMAIN pending => ~ AllClear(k)

\* A caller that waits is entered until it has its reply, which is of its kind; one that
\* has stopped to wait takes out no entry but its own.
CallerFits(c) ==
  /\ caller[c].pc = "waiting" =>
       /\ caller[c].cmd.type \in CallTypes /\ caller[c].corr \in 1 .. corr
       /\ caller[c].reply = <<>> =>
            /\ caller[c].corr \in DOMAIN pending /\ pending[caller[c].corr] = c
            /\ AllOfKind(caller[c].corr, caller[c].cmd.type)
       /\ caller[c].reply # <<>> =>
            /\ caller[c].corr \notin DOMAIN pending
            /\ Head(caller[c].reply) \in ResultOf[caller[c].cmd.type]
  /\ caller[c].pc = "expiring" =>
       /\ caller[c].corr \in 1 .. corr
       /\ caller[c].corr \in DOMAIN pending => pending[caller[c].corr] = c

CallersFit == \A c \in Callers : CallerFits(c)

EntriesInv == BridgeType /\ OneUnderWay /\ CallersFit

\* A step that only passes messages on, each under the correlation it has.
LEMMA PassedOn ==
  ASSUME OneUnderWay, CallersFit, EntriesType, UNCHANGED callVars,
         \A k \in Nat \ {0} :
           /\ Single(k) => Single(k)'
           /\ AllClear(k)' <=> AllClear(k)
           /\ \A type \in CallTypes : Single(k) /\ AllOfKind(k, type) => AllOfKind(k, type)'
  PROVE  OneUnderWay' /\ CallersFit'
<1>1. corr' = corr /\ pending' = pending /\ caller' = caller /\ corr \in Nat
  BY DEF callVars, EntriesType
<1>2. OneUnderWay'
  BY <1>1 DEF OneUnderWay
<1>3. ASSUME NEW c \in Callers
      PROVE  CallerFits(c)'
  <2>1. CallerFits(c)
    BY DEF CallersFit
  <2>2. caller[c].pc = "waiting" /\ caller[c].reply = <<>> =>
          AllOfKind(caller[c].corr, caller[c].cmd.type)'
    <3> SUFFICES ASSUME caller[c].pc = "waiting", caller[c].reply = <<>>
                 PROVE  AllOfKind(caller[c].corr, caller[c].cmd.type)'
      OBVIOUS
    <3>1. /\ caller[c].cmd.type \in CallTypes /\ caller[c].corr \in 1 .. corr
          /\ AllOfKind(caller[c].corr, caller[c].cmd.type)
      BY <2>1 DEF CallerFits
    <3>2. caller[c].corr \in Nat \ {0}
      BY <1>1, <3>1
    <3>3. Single(caller[c].corr)
      BY <3>2 DEF OneUnderWay
    <3>4. PICK k \in Nat \ {0}, type \in CallTypes :
            k = caller[c].corr /\ type = caller[c].cmd.type
      BY <3>1, <3>2
    <3>5. AllOfKind(k, type)'
      BY <3>1, <3>3, <3>4
    <3>6. k = caller'[c].corr /\ type = caller'[c].cmd.type
      BY <1>1, <3>4
    <3>7. QED
      BY <3>5, <3>6, Zenon DEF AllOfKind
  <2>3. QED
    BY <1>1, <2>1, <2>2 DEF CallerFits
<1>4. QED
  BY <1>2, <1>3 DEF CallersFit

-----------------------------------------------------------------------------
(* What the steps of a call change.                                          *)

\* A command under the correlation it is sent with.
LEMMA Stamped ==
  ASSUME NEW cmd \in CallCmds, NEW k \in Nat
  PROVE  LET m == [cmd EXCEPT !.corr = k]
         IN  /\ m \in CallCmds /\ m.type = cmd.type /\ To(m, k)
             /\ \A other : To(m, other) => other = k
             /\ m.type = "StartSearch" => m.jobs = cmd.jobs
             /\ m.type = "Extract" => m.input = cmd.input
<1>1. CASE cmd \in ExtractCmds
  BY <1>1 DEF ExtractCmds, CallCmds, To
<1>2. CASE cmd \in StartCmds
  BY <1>2 DEF StartCmds, CallCmds, To
<1>3. CASE cmd \in BrowseCmds
  BY <1>3 DEF BrowseCmds, CallCmds, To
<1>4. QED
  BY <1>1, <1>2, <1>3 DEF CallCmds

LEMMA RoundTripFacts ==
  ASSUME EntriesType, NEW c \in Callers, NEW cmd \in CallCmds, NEW replace \in Nat,
         RoundTrip(c, cmd, replace)
  PROVE  /\ corr' = corr + 1 /\ corr + 1 \notin DOMAIN pending
         /\ DOMAIN pending' = DOMAIN pending \cup {corr + 1}
         /\ pending'[corr + 1] = c
         /\ \A k \in DOMAIN pending : pending'[k] = pending[k]
         /\ caller'[c].pc = "waiting" /\ caller'[c].corr = corr + 1 /\ caller'[c].cmd = cmd
         /\ caller'[c].reply = <<>> /\ caller'[c].replace = replace /\ caller'[c].started = {}
         /\ \A d \in Callers : d # c => caller'[d] = caller[d]
         /\ cmds' = Append(cmds, [cmd EXCEPT !.corr = corr + 1])
         /\ EntriesType'
<1>1. corr \in Nat /\ DOMAIN pending \subseteq 1 .. corr
      /\ caller \in [Callers -> CallStates]
  BY DEF EntriesType
<1>2. corr' = corr + 1 /\ corr' \in Nat /\ corr + 1 \notin DOMAIN pending
  BY <1>1 DEF RoundTrip
<1>3. /\ DOMAIN pending' = DOMAIN pending \cup {corr + 1} /\ pending'[corr + 1] = c
      /\ \A k \in DOMAIN pending : pending'[k] = pending[k]
  BY <1>2 DEF RoundTrip
<1>4. PICK fresh : fresh = [NoCall EXCEPT !.pc = "waiting", !.corr = corr', !.cmd = cmd,
                                          !.replace = replace]
  OBVIOUS
<1>5. caller' = [caller EXCEPT ![c] = fresh]
  BY <1>4, Zenon DEF RoundTrip
<1>6. /\ fresh.pc = "waiting" /\ fresh.corr = corr + 1 /\ fresh.cmd = cmd
      /\ fresh.reply = <<>> /\ fresh.replace = replace /\ fresh.started = {}
      /\ fresh \in CallStates
  <2>1. <<>> \in Seq(ExtractRes \cup StartRes \cup BrowseRes) /\ {} \in SUBSET Nat
    OBVIOUS
  <2>2. corr + 1 \in Nat
    BY <1>1
  <2>3. QED
    BY <1>2, <1>4, <2>1, <2>2 DEF CallStates, NoCall
<1>7. /\ caller'[c] = fresh /\ \A d \in Callers : d # c => caller'[d] = caller[d]
      /\ caller' \in [Callers -> CallStates]
  BY <1>1, <1>5, <1>6
<1>8. DOMAIN pending' \subseteq 1 .. corr' /\ \A k \in DOMAIN pending' : pending'[k] \in Callers
  BY <1>1, <1>2, <1>3 DEF EntriesType
<1>9. cmds' = Append(cmds, [cmd EXCEPT !.corr = corr + 1])
  BY <1>2 DEF RoundTrip
<1>10. EntriesType'
  BY <1>2, <1>7, <1>8 DEF EntriesType
<1>11. QED
  BY <1>2, <1>3, <1>6, <1>7, <1>9, <1>10

\* A call that is over, and one that stops waiting.
LEMMA ReturnFacts ==
  ASSUME EntriesType, NEW c \in Callers, NEW started \in SUBSET Nat, Return(c, started)
  PROVE  /\ caller' \in [Callers -> CallStates]
         /\ caller'[c].pc = "over" /\ caller'[c].replace = 0 /\ caller'[c].started = started
         /\ \A d \in Callers : d # c => caller'[d] = caller[d]
<1>1. caller \in [Callers -> CallStates]
  BY DEF EntriesType
<1>2. PICK fresh : fresh = [NoCall EXCEPT !.pc = "over", !.started = started]
  OBVIOUS
<1>3. caller' = [caller EXCEPT ![c] = fresh]
  BY <1>2, Zenon DEF Return
<1>4. /\ fresh.pc = "over" /\ fresh.replace = 0 /\ fresh.started = started
      /\ fresh \in CallStates
  <2>1. <<>> \in Seq(ExtractRes \cup StartRes \cup BrowseRes)
    OBVIOUS
  <2>2. QED
    BY <1>2, <2>1 DEF CallStates, NoCall
<1>5. QED
  BY <1>1, <1>3, <1>4

LEMMA TimeOutFacts ==
  ASSUME EntriesType, NEW c \in Callers, TimeOut(c)
  PROVE  /\ caller' \in [Callers -> CallStates]
         /\ caller'[c].pc = "expiring" /\ caller'[c].corr = caller[c].corr
         /\ caller'[c].replace = caller[c].replace /\ caller'[c].started = caller[c].started
         /\ \A d \in Callers : d # c => caller'[d] = caller[d]
<1>1. caller \in [Callers -> CallStates] /\ caller' = [caller EXCEPT ![c].pc = "expiring"]
  BY DEF EntriesType, TimeOut
<1>2. QED
  BY <1>1 DEF CallStates

\* What a result does to the entries and to the caller that waits for it.
LEMMA CompleteFacts ==
  ASSUME EntriesType, NEW m, m.result \in ExtractRes \cup StartRes \cup BrowseRes,
         Complete(m), corr' = corr
  PROVE  /\ EntriesType' /\ DOMAIN pending' = DOMAIN pending \ {m.corr}
         /\ \A k \in DOMAIN pending' : pending'[k] = pending[k]
         /\ \A d \in Callers :
              \/ caller'[d] = caller[d]
                 /\ (m.corr \in DOMAIN pending /\ pending[m.corr] = d
                       => caller[d].pc # "waiting" \/ caller[d].corr # m.corr)
              \/ /\ m.corr \in DOMAIN pending /\ pending[m.corr] = d
                 /\ caller[d].pc = "waiting" /\ caller[d].corr = m.corr
                 /\ caller'[d] = [caller[d] EXCEPT !.reply = <<m.result>>]
<1>1. /\ corr \in Nat /\ DOMAIN pending \subseteq 1 .. corr
      /\ \A k \in DOMAIN pending : pending[k] \in Callers
      /\ caller \in [Callers -> CallStates]
  BY DEF EntriesType
<1>2. CASE m.corr \notin DOMAIN pending
  BY <1>1, <1>2 DEF Complete, EntriesType
<1>3. CASE m.corr \in DOMAIN pending
  <2>1. pending' = [k \in DOMAIN pending \ {m.corr} |-> pending[k]]
    BY <1>3 DEF Complete, Restrict
  <2>2. PICK c \in Callers : c = pending[m.corr]
    BY <1>1, <1>3
  <2>3. caller' = IF caller[c].pc = "waiting" /\ caller[c].corr = m.corr
                  THEN [caller EXCEPT ![c].reply = <<m.result>>] ELSE caller
    BY <1>3, <2>2 DEF Complete
  <2>4. <<m.result>> \in Seq(ExtractRes \cup StartRes \cup BrowseRes)
    OBVIOUS
  <2>5. caller' \in [Callers -> CallStates]
    BY <1>1, <2>3, <2>4, ZenonT(30) DEF CallStates
  <2>6. EntriesType' /\ DOMAIN pending' = DOMAIN pending \ {m.corr}
        /\ \A k \in DOMAIN pending' : pending'[k] = pending[k]
    BY <1>1, <2>1, <2>5 DEF EntriesType
  <2>7. QED
    BY <1>1, <1>3, <2>2, <2>3, <2>6
<1>4. QED
  BY <1>2, <1>3

-----------------------------------------------------------------------------
(* Messages passed on.                                                       *)

Passes ==
  \A k \in Nat \ {0} :
    /\ Single(k) => Single(k)'
    /\ AllClear(k)' <=> AllClear(k)
    /\ \A type \in CallTypes : Single(k) /\ AllOfKind(k, type) => AllOfKind(k, type)'

LEMMA PassesNothing ==
  ASSUME UNCHANGED <<cmds, extracts, bus>>
  PROVE  Passes
BY DEF Passes, Single, AllClear, AllOfKind

\* The core worker takes a message and puts what follows from it at the end.
LEMMA BusTaken ==
  ASSUME QueuesType, bus # <<>>, NEW r \in Seq(Messages), bus' = Tail(bus) \o r,
         UNCHANGED <<cmds, extracts>>,
         \A k \in Nat \ {0} :
           /\ AtMostOne(r, k) /\ (Clear(r, k) <=> ~ To(Head(bus), k))
           /\ \A type \in CallTypes :
                (To(Head(bus), k) => Head(bus).type \in {type, ReplyTo[type]})
                  => OfKind(r, k, type)
  PROVE  QueuesType' /\ Passes
<1>1. bus \in Seq(Messages) /\ cmds' = cmds /\ extracts' = extracts
  BY DEF QueuesType
<1>2. Tail(bus) \in Seq(Messages)
  BY <1>1, HeadTail
<1>3. PICK t \in Seq(Messages) : t = Tail(bus)
  BY <1>2
<1>4. bus' \in Seq(Messages)
  BY <1>3, Joined
<1>5. QueuesType'
  BY <1>1, <1>4 DEF QueuesType
<1>6. ASSUME NEW k \in Nat \ {0}
      PROVE  /\ Single(k) => Single(k)'
             /\ AllClear(k)' <=> AllClear(k)
             /\ \A type \in CallTypes : Single(k) /\ AllOfKind(k, type) => AllOfKind(k, type)'
  <2>1. /\ Clear(bus, k) <=> ~ To(Head(bus), k) /\ Clear(t, k)
        /\ AtMostOne(bus, k) => AtMostOne(t, k)
        /\ AtMostOne(bus, k) /\ To(Head(bus), k) => Clear(t, k)
        /\ \A type : OfKind(bus, k, type) => OfKind(t, k, type)
        /\ \A type : OfKind(bus, k, type) /\ To(Head(bus), k) =>
             Head(bus).type \in {type, ReplyTo[type]}
    BY <1>1, <1>3, TailClear
  <2>2. /\ Clear(bus', k) <=> Clear(t, k) /\ Clear(r, k)
        /\ AtMostOne(t, k) /\ Clear(r, k) => AtMostOne(bus', k)
        /\ Clear(t, k) /\ AtMostOne(r, k) => AtMostOne(bus', k)
        /\ \A type : OfKind(t, k, type) /\ OfKind(r, k, type) => OfKind(bus', k, type)
    BY <1>3, JoinedClear
  <2>3. Clear(bus', k) <=> Clear(bus, k)
    BY <2>1, <2>2
  <2>4. AtMostOne(bus, k) => AtMostOne(bus', k)
    BY <2>1, <2>2
  <2>5. \A type \in CallTypes : OfKind(bus, k, type) => OfKind(bus', k, type)
    BY <2>1, <2>2
  <2>6. QED
    BY <1>1, <2>3, <2>4, <2>5 DEF Single, AllClear, AllOfKind
<1>7. QED
  BY <1>5, <1>6 DEF Passes

\* Messages that belong to no call are put on the bus.
LEMMA BusAdded ==
  ASSUME QueuesType, NEW r \in Seq(Messages), bus' = bus \o r, UNCHANGED <<cmds, extracts>>,
         \A k \in Nat \ {0} : Clear(r, k)
  PROVE  QueuesType' /\ Passes
<1>1. bus \in Seq(Messages) /\ cmds' = cmds /\ extracts' = extracts
  BY DEF QueuesType
<1>2. bus' \in Seq(Messages)
  BY <1>1, Joined
<1>3. QueuesType'
  BY <1>1, <1>2 DEF QueuesType
<1>4. ASSUME NEW k \in Nat \ {0}
      PROVE  /\ Single(k) => Single(k)'
             /\ AllClear(k)' <=> AllClear(k)
             /\ \A type \in CallTypes : Single(k) /\ AllOfKind(k, type) => AllOfKind(k, type)'
  <2>1. /\ Clear(bus', k) <=> Clear(bus, k) /\ Clear(r, k)
        /\ AtMostOne(bus, k) /\ Clear(r, k) => AtMostOne(bus', k)
        /\ \A type : OfKind(bus, k, type) /\ OfKind(r, k, type) => OfKind(bus', k, type)
    BY <1>1, JoinedClear
  <2>2. \A type : OfKind(r, k, type)
    BY DEF OfKind, Clear
  <2>3. QED
    BY <1>1, <2>1, <2>2 DEF Single, AllClear, AllOfKind
<1>5. QED
  BY <1>3, <1>4 DEF Passes

\* A list that holds messages of no call is clear.
LEMMA NoCallClear ==
  ASSUME NEW r \in Seq(Unaddressed)
  PROVE  r \in Seq(Messages) /\ \A k : Clear(r, k) /\ AtMostOne(r, k)
                                       /\ \A type : OfKind(r, k, type)
<1>1. \A i \in DOMAIN r : r[i] \in Unaddressed
  OBVIOUS
<1>2. \A i \in DOMAIN r : \A k : ~ To(r[i], k)
  BY <1>1, UnaddressedKinds DEF To
<1>3. r \in Seq(Messages)
  BY DEF Messages
<1>4. QED
  BY <1>2, <1>3 DEF Clear, AtMostOne, OfKind

\* The core worker takes a message of no call.
LEMMA NoCallTaken ==
  ASSUME QueuesType, bus # <<>>, NEW r \in Seq(Unaddressed), bus' = Tail(bus) \o r,
         UNCHANGED <<cmds, extracts>>, \A k \in Nat \ {0} : ~ To(Head(bus), k)
  PROVE  QueuesType' /\ Passes
<1>1. r \in Seq(Messages) /\ \A k : Clear(r, k) /\ AtMostOne(r, k)
                                    /\ \A type : OfKind(r, k, type)
  BY NoCallClear
<1>2. QED
  BY <1>1, BusTaken

LEMMA NothingFollows ==
  ASSUME NEW S, NEW q \in Seq(S), q # <<>>
  PROVE  Tail(q) = Tail(q) \o <<>> /\ \A T : <<>> \in Seq(T)
OBVIOUS

LEMMA OneFollows ==
  ASSUME NEW S, NEW q \in Seq(S), q # <<>>, NEW x
  PROVE  Append(Tail(q), x) = Tail(q) \o <<x>>
OBVIOUS

-----------------------------------------------------------------------------
(* The queues after each step of the core worker.                            *)

\* A message on the bus that belongs to no call.
LEMMA HeadOfNoCall ==
  ASSUME QueuesType, bus # <<>>
  PROVE  /\ bus \in Seq(Messages) /\ Head(bus) \in Messages
         /\ Head(bus).type \in {"SearchStarted", "GetPeerAddress", "PeerBrowseConnect",
                                "BrowseListing", "BrowseFailed", "RemoveSearch"}
              => \A k \in Nat \ {0} : ~ To(Head(bus), k)
         /\ Head(bus).type \in {"GetPeerAddress", "PeerBrowseConnect", "BrowseListing",
                                "BrowseFailed"} => Head(bus).user \in Users
         /\ Head(bus).type = "SearchStarted" =>
              Head(bus).token \in Nat /\ Head(bus).track \in Tracks
         /\ Head(bus).type = "RemoveSearch" => Head(bus).token \in Nat
<1>1. bus \in Seq(Messages)
  BY DEF QueuesType
<1>2. PICK m \in Messages : m = Head(bus)
  BY <1>1, HeadTail
<1>3. CASE m.type = "RemoveSearch"
  <2>1. m \in RemoveCmds
    BY <1>3, MessageKinds, AddressedKinds
  <2>2. QED
    BY <1>1, <1>2, <1>3, <2>1 DEF RemoveCmds, To
<1>4. CASE m.type # "RemoveSearch"
  <2>1. m.type \in {"SearchStarted", "GetPeerAddress", "PeerBrowseConnect",
                    "BrowseListing", "BrowseFailed"} => m \in Unaddressed
    BY MessageKinds
  <2>2. QED
    BY <1>1, <1>2, <1>4, <2>1, UnaddressedKinds DEF To
<1>5. QED
  BY <1>3, <1>4

\* A result takes the place of the command or request it answers.
LEMMA AnswerFits ==
  ASSUME NEW m, "corr" \in DOMAIN m, NEW answer \in Messages, "corr" \in DOMAIN answer,
         answer.corr = m.corr, m.type \in CallTypes, answer.type = ReplyTo[m.type],
         NEW events \in Seq(Unaddressed)
  PROVE  /\ events \o <<answer>> \in Seq(Messages)
         /\ \A k : /\ AtMostOne(events \o <<answer>>, k)
                   /\ Clear(events \o <<answer>>, k) <=> ~ To(m, k)
                   /\ \A type \in CallTypes :
                        (To(m, k) => m.type \in {type, ReplyTo[type]})
                          => OfKind(events \o <<answer>>, k, type)
<1>1. events \in Seq(Messages) /\ \A k : Clear(events, k) /\ \A type : OfKind(events, k, type)
  BY NoCallClear
<1>2. PICK r : r = <<answer>>
  OBVIOUS
<1>3. r \in Seq(Messages) /\ DOMAIN r = {1} /\ r[1] = answer
  BY <1>2, Grown, <1>1
<1>4. events \o r \in Seq(Messages)
  BY <1>1, <1>3, Joined
<1>5. ASSUME NEW k
      PROVE  /\ AtMostOne(events \o r, k)
             /\ Clear(events \o r, k) <=> ~ To(m, k)
             /\ \A type \in CallTypes :
                  (To(m, k) => m.type \in {type, ReplyTo[type]}) => OfKind(events \o r, k, type)
  <2>1. /\ Clear(events \o r, k) <=> Clear(events, k) /\ Clear(r, k)
        /\ Clear(events, k) /\ AtMostOne(r, k) => AtMostOne(events \o r, k)
        /\ \A type : OfKind(events, k, type) /\ OfKind(r, k, type)
                       => OfKind(events \o r, k, type)
    BY <1>1, <1>3, JoinedClear
  <2>2. (Clear(r, k) <=> ~ To(answer, k)) /\ AtMostOne(r, k)
    BY <1>3 DEF Clear, AtMostOne
  <2>3. To(answer, k) <=> To(m, k)
    BY DEF To
  <2>4. ASSUME NEW type \in CallTypes, To(m, k) => m.type \in {type, ReplyTo[type]}
        PROVE  OfKind(r, k, type)
    <3>1. To(m, k) => m.type = type
      BY <2>4 DEF CallTypes, ReplyTo
    <3>2. QED
      BY <1>3, <2>3, <3>1 DEF OfKind
  <2>5. QED
    BY <1>1, <2>1, <2>2, <2>3, <2>4
<1>6. QED
  BY <1>2, <1>4, <1>5

\* The events of a search that is started.
LEMMA EventsFacts ==
  ASSUME next_token \in Nat, NEW jobs \in Seq(Tracks)
  PROVE  /\ Events(jobs) \in Seq(Unaddressed)
         /\ Len(Events(jobs)) = Len(jobs) /\ DOMAIN Events(jobs) = 1 .. Len(jobs)
         /\ Len(jobs) \in Nat
         /\ \A i \in 1 .. Len(jobs) :
              /\ Events(jobs)[i].type = "SearchStarted"
              /\ Events(jobs)[i].token = next_token + i - 1
              /\ Events(jobs)[i].token \in Nat
              /\ Events(jobs)[i].track = jobs[i]
<1>1. DOMAIN jobs = 1 .. Len(jobs) /\ Len(jobs) \in Nat
      /\ \A i \in 1 .. Len(jobs) : jobs[i] \in Tracks
  OBVIOUS
<1>2. PICK e : e = Events(jobs)
  OBVIOUS
<1>3. e = [i \in 1 .. Len(jobs) |-> [type |-> "SearchStarted", token |-> next_token + i - 1,
                                     track |-> jobs[i]]]
  BY <1>1, <1>2 DEF Events
<1>4. \A i \in 1 .. Len(jobs) : next_token + i - 1 \in Nat
  BY <1>1
<1>5. \A i \in 1 .. Len(jobs) :
        [type |-> "SearchStarted", token |-> next_token + i - 1, track |-> jobs[i]] \in Unaddressed
  BY <1>1, <1>4 DEF Unaddressed
<1>6. e \in Seq(Unaddressed) /\ Len(e) = Len(jobs) /\ DOMAIN e = 1 .. Len(jobs)
  BY <1>1, <1>3, <1>5
<1>7. QED
  BY <1>1, <1>2, <1>3, <1>4, <1>6

StartAnswer(events) == Result("StartSearchResult",
  [error |-> ~ logged_in, started |-> {ev.token : ev \in ToSet(events)}])

\* A StartSearch command, and what takes its place.
LEMMA StartSearchFacts ==
  ASSUME QueuesType, CardsType, StartSearch
  PROVE  \E m \in StartCmds, events \in Seq(Unaddressed), answer \in Messages :
           /\ bus # <<>> /\ m = Head(bus) /\ m.type = "StartSearch" /\ m.jobs \in Seq(Tracks)
           /\ Len(events) \in Nat /\ DOMAIN events = 1 .. Len(events)
           /\ Len(events) = (IF logged_in THEN Len(m.jobs) ELSE 0)
           /\ \A i \in 1 .. Len(events) :
                /\ events[i].type = "SearchStarted"
                /\ events[i].token = next_token + i - 1 /\ events[i].token \in Nat
                /\ events[i].track = m.jobs[i]
           /\ answer.type = "StartSearchResult" /\ "corr" \in DOMAIN answer
           /\ answer.corr = m.corr /\ answer.result.error = ~ logged_in
           /\ answer.result.started = {events[i].token : i \in 1 .. Len(events)}
           /\ bus' = Tail(bus) \o (events \o <<answer>>)
           /\ next_token' = next_token + Len(events)
<1>1. bus # <<>> /\ Head(bus).type = "StartSearch" /\ bus \in Seq(Messages)
      /\ next_token \in Nat
  BY DEF StartSearch, Arrived, QueuesType, CardsType
<1>2. PICK m \in Messages : m = Head(bus)
  BY <1>1, HeadTail
<1>3. m \in StartCmds
  BY <1>1, <1>2, MessageKinds, AddressedKinds
<1>4. m.jobs \in Seq(Tracks) /\ m.corr \in Nat
  BY <1>3 DEF StartCmds
<1>5. PICK events : events = IF logged_in THEN Events(m.jobs) ELSE <<>>
  OBVIOUS
<1>6. /\ events \in Seq(Unaddressed) /\ Len(events) \in Nat /\ DOMAIN events = 1 .. Len(events)
      /\ Len(events) = (IF logged_in THEN Len(m.jobs) ELSE 0)
      /\ \A i \in 1 .. Len(events) :
           /\ events[i].type = "SearchStarted"
           /\ events[i].token = next_token + i - 1 /\ events[i].token \in Nat
           /\ events[i].track = m.jobs[i]
  <2>1. CASE logged_in
    BY <1>1, <1>4, <1>5, <2>1, EventsFacts
  <2>2. CASE ~ logged_in
    BY <1>5, <2>2
  <2>3. QED
    BY <2>1, <2>2
<1>7. PICK answer : answer = StartAnswer(events)
  OBVIOUS
<1>8. {ev.token : ev \in ToSet(events)} = {events[i].token : i \in 1 .. Len(events)}
  BY <1>6 DEF ToSet
<1>9. {ev.token : ev \in ToSet(events)} \in SUBSET Nat
  BY <1>6, <1>8
<1>10. /\ answer.type = "StartSearchResult" /\ answer.corr = m.corr
       /\ "corr" \in DOMAIN answer /\ answer.result.error = ~ logged_in
       /\ answer.result.started = {events[i].token : i \in 1 .. Len(events)}
  BY <1>2, <1>7, <1>8 DEF StartAnswer, Result
<1>11. answer \in Messages
  <2>1. PICK result : result = [error |-> ~ logged_in,
                                started |-> {ev.token : ev \in ToSet(events)}]
    OBVIOUS
  <2>2. result \in StartRes
    BY <1>9, <2>1 DEF StartRes
  <2>3. answer = [type |-> "StartSearchResult", corr |-> m.corr, result |-> result]
    BY <1>2, <1>7, <2>1 DEF StartAnswer, Result
  <2>4. QED
    BY <1>4, <2>2, <2>3 DEF Messages, Addressed
<1>12. bus' = Tail(bus) \o (events \o <<answer>>) /\ next_token' = next_token + Len(events)
  BY <1>2, <1>5, <1>7 DEF StartSearch, Announce, StartAnswer
<1>13. m.type = "StartSearch"
  BY <1>1, <1>2
<1>14. QED
  BY <1>1, <1>2, <1>3, <1>4, <1>6, <1>10, <1>11, <1>12, <1>13

LEMMA StartSearchPasses ==
  ASSUME QueuesType, CardsType, StartSearch
  PROVE  QueuesType' /\ Passes
<1>1. PICK m \in StartCmds, events \in Seq(Unaddressed), answer \in Messages :
        /\ bus # <<>> /\ m = Head(bus) /\ m.type = "StartSearch"
        /\ answer.type = "StartSearchResult" /\ "corr" \in DOMAIN answer
        /\ answer.corr = m.corr
        /\ bus' = Tail(bus) \o (events \o <<answer>>)
  BY StartSearchFacts, ZenonT(30)
<1>2. "corr" \in DOMAIN m /\ m.type \in CallTypes /\ answer.type = ReplyTo[m.type]
  BY <1>1 DEF StartCmds, CallTypes, ReplyTo
<1>3. PICK r : r = events \o <<answer>>
  OBVIOUS
<1>4. /\ r \in Seq(Messages)
      /\ \A k : /\ AtMostOne(r, k) /\ (Clear(r, k) <=> ~ To(m, k))
                /\ \A type \in CallTypes :
                     (To(m, k) => m.type \in {type, ReplyTo[type]}) => OfKind(r, k, type)
  BY <1>1, <1>2, <1>3, AnswerFits
<1>5. UNCHANGED <<cmds, extracts>>
  BY DEF StartSearch
<1>6. QED
  BY <1>1, <1>3, <1>4, <1>5, BusTaken

\* A BrowseUser command, and the answer that takes its place.
LEMMA BrowseUserFacts ==
  ASSUME QueuesType, BrowseUser
  PROVE  \E m \in BrowseCmds, answer \in Messages :
           /\ bus # <<>> /\ m = Head(bus) /\ m.type = "BrowseUser"
           /\ answer.type = "BrowseAccepted" /\ "corr" \in DOMAIN answer
           /\ answer.corr = m.corr
           /\ bus' = Tail(bus) \o <<answer>>
           /\ IF logged_in /\ m.user # Nobody
              THEN /\ lookups' = Append(lookups, m.user) /\ m.user \in Users
                   /\ pending_browses' = pending_browses \cup {m.user}
                   /\ owed' = owed \cup {m.user}
              ELSE UNCHANGED <<lookups, pending_browses, owed>>
<1>1. bus # <<>> /\ Head(bus).type = "BrowseUser" /\ bus \in Seq(Messages)
  BY DEF BrowseUser, Arrived, QueuesType
<1>2. PICK m \in Messages : m = Head(bus)
  BY <1>1, HeadTail
<1>3. m \in BrowseCmds
  BY <1>1, <1>2, MessageKinds, AddressedKinds
<1>4. m.corr \in Nat /\ m.user \in Users \cup {Nobody} /\ m.type = "BrowseUser"
  BY <1>3 DEF BrowseCmds
<1>5. PICK accepted \in BOOLEAN : accepted = (logged_in /\ m.user # Nobody)
  <2>1. (logged_in /\ m.user # Nobody) \in BOOLEAN
    BY Zenon
  <2>2. QED
    BY <2>1, Zenon
<1>6. PICK answer : answer = [type |-> "BrowseAccepted", corr |-> m.corr,
                              result |-> [error |-> ~ accepted]]
  OBVIOUS
<1>7. [error |-> ~ accepted] \in BrowseRes
  BY DEF BrowseRes
<1>8. answer \in Messages /\ answer.type = "BrowseAccepted" /\ "corr" \in DOMAIN answer
      /\ answer.corr = m.corr
  BY <1>4, <1>6, <1>7 DEF Messages, Addressed
<1>9. bus' = Tail(bus) \o <<answer>>
  BY <1>2, <1>5, <1>6 DEF BrowseUser, BrowseAnswer, Result
<1>10. IF logged_in /\ m.user # Nobody
       THEN /\ lookups' = Append(lookups, m.user) /\ m.user \in Users
            /\ pending_browses' = pending_browses \cup {m.user}
            /\ owed' = owed \cup {m.user}
       ELSE UNCHANGED <<lookups, pending_browses, owed>>
  BY <1>2, <1>4 DEF BrowseUser
<1>11. QED
  BY <1>1, <1>2, <1>3, <1>4, <1>8, <1>9, <1>10

LEMMA BrowseUserPasses ==
  ASSUME QueuesType, BrowseUser
  PROVE  QueuesType' /\ Passes
<1>1. PICK m \in BrowseCmds, answer \in Messages :
        /\ bus # <<>> /\ m = Head(bus) /\ m.type = "BrowseUser"
        /\ answer.type = "BrowseAccepted" /\ "corr" \in DOMAIN answer
        /\ answer.corr = m.corr /\ bus' = Tail(bus) \o <<answer>>
  BY BrowseUserFacts
<1>2. "corr" \in DOMAIN m /\ m.type \in CallTypes /\ answer.type = ReplyTo[m.type]
  BY <1>1 DEF BrowseCmds, CallTypes, ReplyTo
<1>3. <<>> \in Seq(Unaddressed) /\ <<>> \o <<answer>> = <<answer>>
  OBVIOUS
<1>4. PICK r : r = <<answer>>
  OBVIOUS
<1>5. /\ r \in Seq(Messages)
      /\ \A k : /\ AtMostOne(r, k) /\ (Clear(r, k) <=> ~ To(m, k))
                /\ \A type \in CallTypes :
                     (To(m, k) => m.type \in {type, ReplyTo[type]}) => OfKind(r, k, type)
  BY <1>1, <1>2, <1>3, <1>4, AnswerFits
<1>6. UNCHANGED <<cmds, extracts>>
  BY DEF BrowseUser
<1>7. QED
  BY <1>1, <1>4, <1>5, <1>6, BusTaken

\* The address of a user, and the browse that goes on or fails with it.
LEMMA GetPeerAddressFacts ==
  ASSUME QueuesType, GetPeerAddress
  PROVE  \E u \in Users, next \in Unaddressed :
           /\ bus # <<>> /\ u = Head(bus).user /\ Head(bus).type = "GetPeerAddress"
           /\ pending_browses' = pending_browses \ {u}
           /\ next.type \in {"BrowseFailed", "PeerBrowseConnect"} /\ next.user = u
           /\ bus' = IF u \notin pending_browses THEN Tail(bus) ELSE Tail(bus) \o <<next>>
<1>1. bus # <<>> /\ Head(bus).type = "GetPeerAddress" /\ bus \in Seq(Messages)
  BY DEF GetPeerAddress, Arrived, QueuesType
<1>2. Head(bus).user \in Users
  BY <1>1, HeadOfNoCall
<1>3. PICK u \in Users : u = Head(bus).user
  BY <1>2
<1>4. PICK next : next = [type |-> IF Head(bus).offline THEN "BrowseFailed"
                                   ELSE "PeerBrowseConnect", user |-> u]
  OBVIOUS
<1>5. next \in Unaddressed /\ next.type \in {"BrowseFailed", "PeerBrowseConnect"}
      /\ next.user = u
  BY <1>4 DEF Unaddressed
<1>6. Append(Tail(bus), next) = Tail(bus) \o <<next>>
  BY <1>1, OneFollows
<1>7. QED
  BY <1>1, <1>3, <1>4, <1>5, <1>6 DEF GetPeerAddress

LEMMA GetPeerAddressPasses ==
  ASSUME QueuesType, GetPeerAddress
  PROVE  QueuesType' /\ Passes
<1>1. PICK u \in Users, next \in Unaddressed :
        /\ bus # <<>> /\ Head(bus).type = "GetPeerAddress"
        /\ bus' = IF u \notin pending_browses THEN Tail(bus) ELSE Tail(bus) \o <<next>>
  BY GetPeerAddressFacts
<1>2. bus \in Seq(Messages) /\ \A k \in Nat \ {0} : ~ To(Head(bus), k)
  BY <1>1, HeadOfNoCall
<1>3. PICK r \in Seq(Unaddressed) : bus' = Tail(bus) \o r
  <2>1. CASE u \notin pending_browses
    <3>1. bus' = Tail(bus) /\ Tail(bus) = Tail(bus) \o <<>> /\ <<>> \in Seq(Unaddressed)
      BY <1>1, <1>2, <2>1, NothingFollows
    <3>2. QED
      BY <3>1
  <2>2. CASE u \in pending_browses
    <3>1. bus' = Tail(bus) \o <<next>> /\ <<next>> \in Seq(Unaddressed)
      BY <1>1, <2>2
    <3>2. QED
      BY <3>1
  <2>3. QED
    BY <2>1, <2>2
<1>4. UNCHANGED <<cmds, extracts>>
  BY DEF GetPeerAddress
<1>5. QED
  BY <1>1, <1>2, <1>3, <1>4, NoCallTaken

\* Steps of the core worker that nothing follows from.
LEMMA DropsPass ==
  ASSUME QueuesType, SearchStarted \/ RemoveSearch \/ PeerBrowseConnect \/ BrowseEnded
  PROVE  QueuesType' /\ Passes
<1>1. /\ bus # <<>> /\ bus' = Tail(bus) /\ UNCHANGED <<cmds, extracts>>
      /\ Head(bus).type \in {"SearchStarted", "PeerBrowseConnect", "BrowseListing",
                             "BrowseFailed", "RemoveSearch"}
  BY DEF SearchStarted, RemoveSearch, PeerBrowseConnect, BrowseEnded, Arrived
<1>2. bus \in Seq(Messages) /\ \A k \in Nat \ {0} : ~ To(Head(bus), k)
  BY <1>1, HeadOfNoCall
<1>3. PICK r \in Seq(Unaddressed) : bus' = Tail(bus) \o r
  BY <1>1, <1>2, NothingFollows
<1>4. QED
  BY <1>1, <1>2, <1>3, NoCallTaken

-----------------------------------------------------------------------------
(* The queues after the other steps that answer nobody.                      *)

LEMMA ForwardPasses ==
  ASSUME QueuesType, Forward
  PROVE  QueuesType' /\ Passes
<1>1. cmds # <<>> /\ cmds' = Tail(cmds) /\ cmds \in Seq(CallCmds \cup RemoveCmds)
      /\ extracts \in Seq(ExtractCmds) /\ bus \in Seq(Messages)
  BY DEF Forward, QueuesType
<1>2. PICK m \in CallCmds \cup RemoveCmds : m = Head(cmds)
  BY <1>1, HeadTail
<1>3. cmds' \in Seq(CallCmds \cup RemoveCmds)
  BY <1>1, HeadTail
<1>4. m.type = "Extract" => m \in ExtractCmds
  BY CallKinds
<1>5. m.type # "Extract" => m \in Messages
  <2>1. m \in CallCmds \cup RemoveCmds /\ (m \in ExtractCmds => m.type = "Extract")
    BY DEF ExtractCmds
  <2>2. QED
    BY <2>1 DEF CallCmds, Messages, Addressed
<1>6. CASE m.type = "Extract"
  <2>1. extracts' = Append(extracts, m) /\ bus' = bus /\ m \in ExtractCmds
    BY <1>2, <1>4, <1>6 DEF Forward
  <2>2. QueuesType'
    BY <1>1, <1>3, <2>1, Grown DEF QueuesType
  <2>3. ASSUME NEW k \in Nat \ {0}
        PROVE  /\ Single(k) => Single(k)'
               /\ AllClear(k)' <=> AllClear(k)
               /\ \A type \in CallTypes : Single(k) /\ AllOfKind(k, type) => AllOfKind(k, type)'
    <3>1. /\ Clear(cmds, k) <=> ~ To(m, k) /\ Clear(cmds', k)
          /\ AtMostOne(cmds, k) => AtMostOne(cmds', k)
          /\ AtMostOne(cmds, k) /\ To(m, k) => Clear(cmds', k)
          /\ \A type : OfKind(cmds, k, type) => OfKind(cmds', k, type)
          /\ \A type : OfKind(cmds, k, type) /\ To(m, k) => m.type \in {type, ReplyTo[type]}
      BY <1>1, <1>2, TailClear
    <3>2. /\ Clear(extracts', k) <=> Clear(extracts, k) /\ ~ To(m, k)
          /\ AtMostOne(extracts, k) /\ (Clear(extracts, k) \/ ~ To(m, k))
               => AtMostOne(extracts', k)
          /\ \A type : OfKind(extracts, k, type) /\ (To(m, k) => m.type \in {type, ReplyTo[type]})
                         => OfKind(extracts', k, type)
      BY <1>1, <2>1, GrownClear
    <3>3. Single(k) => Single(k)'
      BY <2>1, <3>1, <3>2 DEF Single
    <3>4. AllClear(k)' <=> AllClear(k)
      BY <2>1, <3>1, <3>2 DEF AllClear
    <3>5. \A type \in CallTypes : AllOfKind(k, type) => AllOfKind(k, type)'
      BY <2>1, <3>1, <3>2 DEF AllOfKind
    <3>6. QED
      BY <3>3, <3>4, <3>5
  <2>4. QED
    BY <2>2, <2>3 DEF Passes
<1>7. CASE m.type # "Extract"
  <2>1. bus' = Append(bus, m) /\ extracts' = extracts /\ m \in Messages
    BY <1>2, <1>5, <1>7 DEF Forward
  <2>2. QueuesType'
    BY <1>1, <1>3, <2>1, Grown DEF QueuesType
  <2>3. ASSUME NEW k \in Nat \ {0}
        PROVE  /\ Single(k) => Single(k)'
               /\ AllClear(k)' <=> AllClear(k)
               /\ \A type \in CallTypes : Single(k) /\ AllOfKind(k, type) => AllOfKind(k, type)'
    <3>1. /\ Clear(cmds, k) <=> ~ To(m, k) /\ Clear(cmds', k)
          /\ AtMostOne(cmds, k) => AtMostOne(cmds', k)
          /\ AtMostOne(cmds, k) /\ To(m, k) => Clear(cmds', k)
          /\ \A type : OfKind(cmds, k, type) => OfKind(cmds', k, type)
          /\ \A type : OfKind(cmds, k, type) /\ To(m, k) => m.type \in {type, ReplyTo[type]}
      BY <1>1, <1>2, TailClear
    <3>2. /\ Clear(bus', k) <=> Clear(bus, k) /\ ~ To(m, k)
          /\ AtMostOne(bus, k) /\ (Clear(bus, k) \/ ~ To(m, k)) => AtMostOne(bus', k)
          /\ \A type : OfKind(bus, k, type) /\ (To(m, k) => m.type \in {type, ReplyTo[type]})
                         => OfKind(bus', k, type)
      BY <1>1, <2>1, GrownClear
    <3>3. Single(k) => Single(k)'
      BY <2>1, <3>1, <3>2 DEF Single
    <3>4. AllClear(k)' <=> AllClear(k)
      BY <2>1, <3>1, <3>2 DEF AllClear
    <3>5. \A type \in CallTypes : AllOfKind(k, type) => AllOfKind(k, type)'
      BY <2>1, <3>1, <3>2 DEF AllOfKind
    <3>6. QED
      BY <3>3, <3>4, <3>5
  <2>4. QED
    BY <2>2, <2>3 DEF Passes
<1>8. QED
  BY <1>6, <1>7

\* A request of the extract worker, and the result that takes its place.
LEMMA ExtractFacts ==
  ASSUME QueuesType, Extract
  PROVE  \E m \in ExtractCmds, answer \in Messages :
           /\ extracts # <<>> /\ m = Head(extracts) /\ extracts' = Tail(extracts)
           /\ answer.type = "ExtractResult" /\ "corr" \in DOMAIN answer
           /\ answer.corr = m.corr /\ bus' = Append(bus, answer)
<1>1. extracts # <<>> /\ extracts' = Tail(extracts) /\ extracts \in Seq(ExtractCmds)
  BY DEF Extract, QueuesType
<1>2. PICK m \in ExtractCmds : m = Head(extracts)
  BY <1>1, HeadTail
<1>3. PICK found \in {<<>>, <<1, 2>>, <<1>>}, error \in BOOLEAN :
        bus' = Append(bus, [type |-> "ExtractResult", corr |-> m.corr,
                            result |-> [error |-> error, found |-> found]])
  BY <1>2 DEF Extract
<1>4. found \in Seq({1, 2})
  <2>1. <<>> \in Seq({1, 2}) /\ <<1, 2>> \in Seq({1, 2}) /\ <<1>> \in Seq({1, 2})
    OBVIOUS
  <2>2. QED
    BY <1>3, <2>1
<1>5. m.corr \in Nat
  BY DEF ExtractCmds
<1>6. PICK result : result = [error |-> error, found |-> found]
  OBVIOUS
<1>7. result \in ExtractRes
  BY <1>4, <1>6 DEF ExtractRes
<1>8. PICK answer : answer = [type |-> "ExtractResult", corr |-> m.corr, result |-> result]
  OBVIOUS
<1>9. answer \in Messages /\ answer.type = "ExtractResult" /\ "corr" \in DOMAIN answer
      /\ answer.corr = m.corr
  BY <1>5, <1>7, <1>8 DEF Messages, Addressed
<1>10. QED
  BY <1>1, <1>2, <1>3, <1>6, <1>8, <1>9

LEMMA ExtractPasses ==
  ASSUME QueuesType, Extract
  PROVE  QueuesType' /\ Passes
<1>1. PICK m \in ExtractCmds, answer \in Messages :
        /\ extracts # <<>> /\ m = Head(extracts) /\ extracts' = Tail(extracts)
        /\ answer.type = "ExtractResult" /\ "corr" \in DOMAIN answer
        /\ answer.corr = m.corr /\ bus' = Append(bus, answer)
  BY ExtractFacts
<1>2. cmds' = cmds /\ cmds \in Seq(CallCmds \cup RemoveCmds)
      /\ extracts \in Seq(ExtractCmds) /\ bus \in Seq(Messages)
  BY DEF Extract, QueuesType
<1>3. extracts' \in Seq(ExtractCmds)
  BY <1>1, <1>2, HeadTail
<1>4. QueuesType'
  BY <1>1, <1>2, <1>3, Grown DEF QueuesType
<1>5. m.type = "Extract" /\ "corr" \in DOMAIN m
  BY DEF ExtractCmds
<1>6. ASSUME NEW k \in Nat \ {0}
      PROVE  /\ Single(k) => Single(k)'
             /\ AllClear(k)' <=> AllClear(k)
             /\ \A type \in CallTypes : Single(k) /\ AllOfKind(k, type) => AllOfKind(k, type)'
  <2>1. /\ Clear(extracts, k) <=> ~ To(m, k) /\ Clear(extracts', k)
        /\ AtMostOne(extracts, k) => AtMostOne(extracts', k)
        /\ AtMostOne(extracts, k) /\ To(m, k) => Clear(extracts', k)
        /\ \A type : OfKind(extracts, k, type) => OfKind(extracts', k, type)
        /\ \A type : OfKind(extracts, k, type) /\ To(m, k) => m.type \in {type, ReplyTo[type]}
    BY <1>1, <1>2, TailClear
  <2>2. /\ Clear(bus', k) <=> Clear(bus, k) /\ ~ To(answer, k)
        /\ AtMostOne(bus, k) /\ (Clear(bus, k) \/ ~ To(answer, k)) => AtMostOne(bus', k)
        /\ \A type : OfKind(bus, k, type)
                     /\ (To(answer, k) => answer.type \in {type, ReplyTo[type]})
                       => OfKind(bus', k, type)
    BY <1>1, <1>2, GrownClear
  <2>3. To(answer, k) <=> To(m, k)
    BY <1>1, <1>5 DEF To
  <2>4. \A type \in CallTypes : m.type \in {type, ReplyTo[type]} => answer.type = ReplyTo[type]
    BY <1>1, <1>5 DEF CallTypes, ReplyTo
  <2>5. Single(k) => Single(k)'
    BY <1>2, <2>1, <2>2, <2>3 DEF Single
  <2>6. AllClear(k)' <=> AllClear(k)
    BY <1>2, <2>1, <2>2, <2>3 DEF AllClear
  <2>7. \A type \in CallTypes : AllOfKind(k, type) => AllOfKind(k, type)'
    BY <1>2, <2>1, <2>2, <2>3, <2>4 DEF AllOfKind
  <2>8. QED
    BY <2>5, <2>6, <2>7
<1>7. QED
  BY <1>4, <1>6 DEF Passes

\* A command to remove a card is sent to the forwarding task.
LEMMA RemovalSent ==
  ASSUME QueuesType, NEW token \in Nat,
         cmds' = Append(cmds, [type |-> "RemoveSearch", corr |-> 0, token |-> token]),
         UNCHANGED <<extracts, bus>>
  PROVE  QueuesType' /\ Passes
<1>1. PICK m : m = [type |-> "RemoveSearch", corr |-> 0, token |-> token]
  OBVIOUS
<1>2. m \in CallCmds \cup RemoveCmds /\ \A k \in Nat \ {0} : ~ To(m, k)
  BY <1>1 DEF RemoveCmds, To
<1>3. cmds \in Seq(CallCmds \cup RemoveCmds) /\ extracts' = extracts /\ bus' = bus
      /\ cmds' = Append(cmds, m)
  BY <1>1 DEF QueuesType
<1>4. QueuesType'
  BY <1>2, <1>3, Grown DEF QueuesType
<1>5. ASSUME NEW k \in Nat \ {0}
      PROVE  /\ Single(k) => Single(k)'
             /\ AllClear(k)' <=> AllClear(k)
             /\ \A type \in CallTypes : Single(k) /\ AllOfKind(k, type) => AllOfKind(k, type)'
  <2>1. /\ Clear(cmds', k) <=> Clear(cmds, k) /\ ~ To(m, k)
        /\ AtMostOne(cmds, k) /\ (Clear(cmds, k) \/ ~ To(m, k)) => AtMostOne(cmds', k)
        /\ \A type : OfKind(cmds, k, type) /\ (To(m, k) => m.type \in {type, ReplyTo[type]})
                       => OfKind(cmds', k, type)
    BY <1>2, <1>3, GrownClear
  <2>2. QED
    BY <1>2, <1>3, <2>1 DEF Single, AllClear, AllOfKind
<1>6. QED
  BY <1>4, <1>5 DEF Passes

\* The answer of the server, and the outcome of a browse.
LEMMA OutcomePasses ==
  ASSUME QueuesType, BrowsesType,
         ServerAnswers \/ \E u \in Users : BrowseTask(u)
  PROVE  QueuesType' /\ Passes
<1>1. UNCHANGED <<cmds, extracts>> /\ bus \in Seq(Messages)
  BY DEF ServerAnswers, BrowseTask, QueuesType
<1>2. PICK r \in Seq(Unaddressed) : bus' = bus \o r
  <2>1. CASE ServerAnswers
    <3>1. lookups # <<>> /\ lookups \in Seq(Users)
      BY <2>1 DEF ServerAnswers, BrowsesType
    <3>2. PICK u \in Users : u = Head(lookups)
      BY <3>1, HeadTail
    <3>3. PICK offline \in BOOLEAN :
            bus' = Append(bus, [type |-> "GetPeerAddress", user |-> u, offline |-> offline])
      BY <2>1, <3>2 DEF ServerAnswers
    <3>4. PICK m : m = [type |-> "GetPeerAddress", user |-> u, offline |-> offline]
      OBVIOUS
    <3>5. m \in Unaddressed /\ m \in Messages
      BY <3>4 DEF Unaddressed, Messages
    <3>6. <<m>> \in Seq(Unaddressed) /\ bus' = bus \o <<m>>
      BY <1>1, <3>3, <3>4, <3>5, Grown
    <3>7. QED
      BY <3>6
  <2>2. ASSUME NEW u \in Users, BrowseTask(u)
        PROVE  \E r \in Seq(Unaddressed) : bus' = bus \o r
    <3>1. PICK type \in {"BrowseListing", "BrowseFailed"} :
            bus' = bus \o << [type |-> type, user |-> u] >>
      BY <2>2 DEF BrowseTask, Outcomes
    <3>2. [type |-> type, user |-> u] \in Unaddressed
      BY DEF Unaddressed
    <3>3. << [type |-> type, user |-> u] >> \in Seq(Unaddressed)
      BY <3>2
    <3>4. QED
      BY <3>1, <3>3
  <2>3. QED
    BY <2>1, <2>2
<1>3. r \in Seq(Messages) /\ \A k : Clear(r, k)
  BY NoCallClear
<1>4. QED
  BY <1>1, <1>2, <1>3, BusAdded

-----------------------------------------------------------------------------
(* The entries after the steps that make, complete or end a call.            *)

\* The queues after a step that changes nothing in them but sends a fresh command.
LEMMA RoundTripEntries ==
  ASSUME EntriesInv, NEW c \in Callers, NEW cmd \in CallCmds, NEW replace \in Nat,
         RoundTrip(c, cmd, replace), UNCHANGED <<extracts, bus>>
  PROVE  EntriesType' /\ QueuesType' /\ OneUnderWay' /\ CallersFit'
<1>1. EntriesType /\ QueuesType /\ OneUnderWay /\ CallersFit
  BY DEF EntriesInv, BridgeType
<1>2. /\ corr' = corr + 1 /\ corr + 1 \notin DOMAIN pending
      /\ DOMAIN pending' = DOMAIN pending \cup {corr + 1} /\ pending'[corr + 1] = c
      /\ \A k \in DOMAIN pending : pending'[k] = pending[k]
      /\ caller'[c].pc = "waiting" /\ caller'[c].corr = corr + 1 /\ caller'[c].cmd = cmd
      /\ caller'[c].reply = <<>>
      /\ \A d \in Callers : d # c => caller'[d] = caller[d]
      /\ cmds' = Append(cmds, [cmd EXCEPT !.corr = corr + 1])
      /\ EntriesType'
  BY <1>1, RoundTripFacts
<1>3. corr \in Nat /\ corr + 1 \in Nat \ {0} /\ cmds \in Seq(CallCmds \cup RemoveCmds)
      /\ DOMAIN pending \subseteq 1 .. corr /\ extracts' = extracts /\ bus' = bus
  BY <1>1 DEF EntriesType, QueuesType
<1>4. PICK m \in CallCmds : m = [cmd EXCEPT !.corr = corr + 1]
  BY <1>3, Stamped
<1>5. m.type = cmd.type /\ To(m, corr + 1) /\ \A other : To(m, other) => other = corr + 1
  BY <1>3, <1>4, Stamped
<1>6. cmds' = Append(cmds, m) /\ m \in CallCmds \cup RemoveCmds
  BY <1>2, <1>4
<1>7. QueuesType'
  BY <1>1, <1>3, <1>6, Grown DEF QueuesType
<1>8. \A k :
        /\ Clear(cmds', k) <=> Clear(cmds, k) /\ ~ To(m, k)
        /\ AtMostOne(cmds, k) /\ (Clear(cmds, k) \/ ~ To(m, k)) => AtMostOne(cmds', k)
        /\ \A type : OfKind(cmds, k, type) /\ (To(m, k) => m.type \in {type, ReplyTo[type]})
                       => OfKind(cmds', k, type)
  BY <1>3, <1>6, GrownClear
<1>9. Single(corr + 1) /\ AllClear(corr + 1)
  BY <1>1, <1>3 DEF OneUnderWay
<1>10. OneUnderWay'
  <2>1. ASSUME NEW k \in Nat \ {0}
        PROVE  /\ Single(k)'
               /\ k > corr' => AllClear(k)'
               /\ k \in DOMAIN pending' => ~ AllClear(k)'
    <3>1. /\ Single(k) /\ (k > corr => AllClear(k))
          /\ (k \in DOMAIN pending => ~ AllClear(k))
      BY <1>1 DEF OneUnderWay
    <3>2. CASE k = corr + 1
      <4>1. ~ Clear(cmds', k) /\ AtMostOne(cmds', k)
        BY <1>5, <1>8, <1>9, <3>2 DEF AllClear, Single
      <4>2. Clear(extracts', k) /\ Clear(bus', k) /\ AtMostOne(extracts', k)
            /\ AtMostOne(bus', k)
        BY <1>3, <1>9, <3>2 DEF AllClear, Single
      <4>3. ~ (k > corr')
        BY <1>2, <1>3, <3>2
      <4>4. QED
        BY <4>1, <4>2, <4>3 DEF AllClear, Single
    <3>3. CASE k # corr + 1
      <4>1. ~ To(m, k)
        BY <1>5, <3>3
      <4>2. (Clear(cmds', k) <=> Clear(cmds, k)) /\ (AtMostOne(cmds, k) => AtMostOne(cmds', k))
        BY <1>8, <4>1
      <4>3. Single(k)' /\ (AllClear(k)' <=> AllClear(k))
        BY <1>3, <3>1, <4>2 DEF Single, AllClear
      <4>4. (k > corr' => k > corr) /\ (k \in DOMAIN pending' => k \in DOMAIN pending)
        BY <1>2, <1>3, <3>3
      <4>5. QED
        BY <3>1, <4>3, <4>4
    <3>4. QED
      BY <3>2, <3>3
  <2>2. QED
    BY <2>1 DEF OneUnderWay
<1>11. ASSUME NEW d \in Callers
       PROVE  CallerFits(d)'
  <2>1. CASE d = c
    <3>1. m.type \in CallTypes
      BY <1>5, CallKinds DEF CallCmds, CallTypes, ExtractCmds, StartCmds, BrowseCmds
    <3>2. OfKind(cmds, corr + 1, m.type) /\ OfKind(extracts, corr + 1, m.type)
          /\ OfKind(bus, corr + 1, m.type)
      BY <1>9 DEF AllClear, Clear, OfKind
    <3>3. OfKind(cmds', corr + 1, m.type)
      BY <1>8, <3>2
    <3>5. corr + 1 \in 1 .. corr'
      BY <1>2, <1>3
    <3>6. AllOfKind(caller[d].corr, caller[d].cmd.type)'
      BY <1>2, <1>5, <2>1, <3>2, <3>3, <1>3 DEF AllOfKind
    <3>7. QED
      BY <1>2, <1>5, <2>1, <3>1, <3>5, <3>6 DEF CallerFits
  <2>2. CASE d # c
    <3>1. CallerFits(d) /\ caller'[d] = caller[d]
      BY <1>1, <1>2, <2>2 DEF CallersFit
    <3>2. CASE caller[d].pc # "waiting"
      <4>1. caller[d].pc = "expiring" =>
              /\ caller[d].corr \in 1 .. corr' /\ caller[d].corr # corr + 1
              /\ caller[d].corr \in DOMAIN pending => pending[caller[d].corr] = d
        BY <1>2, <1>3, <3>1 DEF CallerFits
      <4>2. caller[d].pc = "expiring" =>
              (caller[d].corr \in DOMAIN pending' => pending'[caller[d].corr] = d)
        BY <1>2, <4>1
      <4>3. QED
        BY <3>1, <3>2, <4>1, <4>2 DEF CallerFits
    <3>3. CASE caller[d].pc = "waiting"
      <4>1. caller[d].corr \in 1 .. corr /\ caller[d].cmd.type \in CallTypes
        BY <3>1, <3>3 DEF CallerFits
      <4>2. caller[d].corr \in 1 .. corr' /\ caller[d].corr # corr + 1
        BY <1>2, <1>3, <4>1
      <4>3. caller[d].reply = <<>> => AllOfKind(caller[d].corr, caller[d].cmd.type)'
        <5> SUFFICES ASSUME caller[d].reply = <<>>
                     PROVE  AllOfKind(caller[d].corr, caller[d].cmd.type)'
          OBVIOUS
        <5>1. AllOfKind(caller[d].corr, caller[d].cmd.type) /\ ~ To(m, caller[d].corr)
          BY <1>5, <3>1, <3>3, <4>2 DEF CallerFits
        <5>2. OfKind(cmds', caller[d].corr, caller[d].cmd.type)
          BY <1>8, <5>1 DEF AllOfKind
        <5>3. QED
          BY <1>3, <3>1, <5>1, <5>2 DEF AllOfKind
      <4>4. QED
        BY <1>2, <3>1, <3>3, <4>1, <4>2, <4>3 DEF CallerFits
    <3>4. QED
      BY <3>2, <3>3
  <2>3. QED
    BY <2>1, <2>2
<1>12. QED
  BY <1>2, <1>7, <1>10, <1>11 DEF CallersFit

\* A call that stops to wait, or that is over, with or without its entry.
LEMMA CallEndsEntries ==
  ASSUME EntriesInv, NEW c \in Callers, EntriesType', Passes, corr' = corr,
         caller'[c].pc # "waiting", \A d \in Callers : d # c => caller'[d] = caller[d],
         caller'[c].pc = "expiring" =>
           /\ caller'[c].corr \in 1 .. corr
           /\ caller'[c].corr \in DOMAIN pending => pending[caller'[c].corr] = c,
         \A k \in DOMAIN pending' : k \in DOMAIN pending /\ pending'[k] = pending[k],
         \A k \in DOMAIN pending : pending[k] # c => k \in DOMAIN pending'
  PROVE  OneUnderWay' /\ CallersFit'
<1>1. EntriesType /\ OneUnderWay /\ CallersFit
  BY DEF EntriesInv, BridgeType
<1>2. \A k \in DOMAIN pending' : k \in DOMAIN pending /\ pending'[k] = pending[k]
  OBVIOUS
<1>3. OneUnderWay'
  BY <1>1, <1>2 DEF OneUnderWay, Passes
<1>4. ASSUME NEW d \in Callers
      PROVE  CallerFits(d)'
  <2>1. CASE d = c
    BY <2>1 DEF CallerFits
  <2>2. CASE d # c
    <3>1. CallerFits(d) /\ caller'[d] = caller[d] /\ corr \in Nat
      BY <1>1, <2>2 DEF CallersFit, EntriesType
    <3>2. caller[d].pc = "waiting" /\ caller[d].reply = <<>> =>
            AllOfKind(caller[d].corr, caller[d].cmd.type)'
      <4> SUFFICES ASSUME caller[d].pc = "waiting", caller[d].reply = <<>>
                   PROVE  AllOfKind(caller[d].corr, caller[d].cmd.type)'
        OBVIOUS
      <4>1. /\ caller[d].cmd.type \in CallTypes /\ caller[d].corr \in Nat \ {0}
            /\ AllOfKind(caller[d].corr, caller[d].cmd.type)
        BY <3>1 DEF CallerFits
      <4>2. PICK k \in Nat \ {0}, type \in CallTypes :
              k = caller[d].corr /\ type = caller[d].cmd.type
        BY <4>1
      <4>3. AllOfKind(k, type)'
        BY <1>1, <4>1, <4>2 DEF OneUnderWay, Passes
      <4>4. k = caller'[d].corr /\ type = caller'[d].cmd.type
        BY <3>1, <4>2
      <4>5. QED
        BY <4>3, <4>4, Zenon DEF AllOfKind
    <3>3. caller[d].pc = "waiting" /\ caller[d].reply = <<>> =>
            caller[d].corr \in DOMAIN pending' /\ pending'[caller[d].corr] = d
      BY <1>2, <2>2, <3>1 DEF CallerFits
    <3>4. caller[d].pc = "waiting" /\ caller[d].reply # <<>> =>
            caller[d].corr \notin DOMAIN pending'
      BY <1>2, <3>1 DEF CallerFits
    <3>5. QED
      BY <3>1, <3>2, <3>3, <3>4 DEF CallerFits
  <2>3. QED
    BY <2>1, <2>2
<1>5. QED
  BY <1>3, <1>4 DEF CallersFit

\* A result completes the call it answers.
LEMMA TakeResultEntries ==
  ASSUME EntriesInv, TakeResult
  PROVE  EntriesType' /\ QueuesType' /\ OneUnderWay' /\ CallersFit'
<1>1. EntriesType /\ QueuesType /\ OneUnderWay /\ CallersFit
  BY DEF EntriesInv, BridgeType
<1>2. /\ bus # <<>> /\ bus \in Seq(Messages) /\ bus' = Tail(bus)
      /\ corr' = corr /\ corr \in Nat /\ cmds' = cmds /\ extracts' = extracts
      /\ Head(bus).type \in {"ExtractResult", "StartSearchResult", "BrowseAccepted"}
      /\ Complete(Head(bus))
      /\ cmds \in Seq(CallCmds \cup RemoveCmds) /\ extracts \in Seq(ExtractCmds)
  BY <1>1 DEF TakeResult, QueuesType, EntriesType
<1>3. PICK m \in Messages : m = Head(bus)
  BY <1>2, HeadTail
<1>4. m \in Addressed
  BY <1>2, <1>3, MessageKinds
<1>5. /\ m.type \in {"ExtractResult", "StartSearchResult", "BrowseAccepted"}
      /\ To(m, m.corr) /\ m.corr \in Nat
      /\ \A k : To(m, k) => k = m.corr
      /\ m.type = "ExtractResult" => m.result \in ExtractRes
      /\ m.type = "StartSearchResult" => m.result \in StartRes
      /\ m.type = "BrowseAccepted" => m.result \in BrowseRes
  BY <1>2, <1>3, <1>4, AddressedKinds DEF To
<1>6. m.result \in ExtractRes \cup StartRes \cup BrowseRes /\ Complete(m)
  BY <1>2, <1>3, <1>5
<1>7. /\ EntriesType' /\ DOMAIN pending' = DOMAIN pending \ {m.corr}
      /\ \A k \in DOMAIN pending' : pending'[k] = pending[k]
      /\ \A d \in Callers :
           \/ caller'[d] = caller[d]
              /\ (m.corr \in DOMAIN pending /\ pending[m.corr] = d
                    => caller[d].pc # "waiting" \/ caller[d].corr # m.corr)
           \/ /\ m.corr \in DOMAIN pending /\ pending[m.corr] = d
              /\ caller[d].pc = "waiting" /\ caller[d].corr = m.corr
              /\ caller'[d] = [caller[d] EXCEPT !.reply = <<m.result>>]
  BY <1>1, <1>2, <1>6, CompleteFacts
<1>8. bus' \in Seq(Messages)
  BY <1>2, HeadTail
<1>9. QueuesType'
  BY <1>2, <1>8 DEF QueuesType
<1>10. \A k :
         /\ Clear(bus, k) <=> ~ To(m, k) /\ Clear(bus', k)
         /\ AtMostOne(bus, k) => AtMostOne(bus', k)
         /\ AtMostOne(bus, k) /\ To(m, k) => Clear(bus', k)
         /\ \A type : OfKind(bus, k, type) => OfKind(bus', k, type)
         /\ \A type : OfKind(bus, k, type) /\ To(m, k) => m.type \in {type, ReplyTo[type]}
  BY <1>2, <1>3, TailClear
<1>11. OneUnderWay'
  <2>1. ASSUME NEW k \in Nat \ {0}
        PROVE  /\ Single(k)'
               /\ k > corr' => AllClear(k)'
               /\ k \in DOMAIN pending' => ~ AllClear(k)'
    <3>1. /\ Single(k) /\ (k > corr => AllClear(k))
          /\ (k \in DOMAIN pending => ~ AllClear(k))
      BY <1>1 DEF OneUnderWay
    <3>2. Single(k)'
      BY <1>2, <1>10, <3>1 DEF Single
    <3>3. k > corr' => AllClear(k)'
      BY <1>2, <1>10, <3>1 DEF AllClear
    <3>4. k \in DOMAIN pending' => ~ To(m, k) /\ k \in DOMAIN pending
      BY <1>5, <1>7
    <3>5. k \in DOMAIN pending' => ~ AllClear(k)'
      BY <1>2, <1>10, <3>1, <3>4 DEF AllClear
    <3>6. QED
      BY <3>2, <3>3, <3>5
  <2>2. QED
    BY <2>1 DEF OneUnderWay
<1>12. ASSUME NEW d \in Callers
       PROVE  CallerFits(d)'
  <2>1. CallerFits(d) /\ caller[d] \in CallStates
    BY <1>1 DEF CallersFit, EntriesType
  <2>2. CASE caller'[d] = caller[d]
    <3>1. caller[d].pc = "expiring" =>
            (caller[d].corr \in DOMAIN pending' => pending'[caller[d].corr] = d)
      BY <1>7, <2>1 DEF CallerFits
    <3>2. caller[d].pc = "waiting" /\ caller[d].reply = <<>> => caller[d].corr # m.corr
      <4>1. [caller[d] EXCEPT !.reply = <<m.result>>].reply = <<m.result>>
        BY <2>1 DEF CallStates
      <4>2. <<m.result>> # <<>>
        OBVIOUS
      <4>3. caller[d].reply = <<>> => caller[d] # [caller[d] EXCEPT !.reply = <<m.result>>]
        BY <4>1, <4>2
      <4>4. QED
        BY <1>7, <2>1, <2>2, <4>3 DEF CallerFits
    <3>3. caller[d].pc = "waiting" /\ caller[d].reply = <<>> =>
            caller[d].corr \in DOMAIN pending' /\ pending'[caller[d].corr] = d
      BY <1>7, <2>1, <3>2 DEF CallerFits
    <3>4. caller[d].pc = "waiting" /\ caller[d].reply = <<>> =>
            AllOfKind(caller[d].corr, caller[d].cmd.type)'
      BY <1>2, <1>10, <2>1, <2>2 DEF CallerFits, AllOfKind
    <3>5. caller[d].pc = "waiting" /\ caller[d].reply # <<>> =>
            caller[d].corr \notin DOMAIN pending'
      BY <1>7, <2>1 DEF CallerFits
    <3>6. QED
      BY <1>2, <2>1, <2>2, <3>1, <3>3, <3>4, <3>5 DEF CallerFits
  <2>3. CASE caller'[d] # caller[d]
    <3>1. /\ m.corr \in DOMAIN pending
          /\ caller[d].pc = "waiting" /\ caller[d].corr = m.corr
          /\ caller'[d] = [caller[d] EXCEPT !.reply = <<m.result>>]
      BY <1>7, <2>3
    <3>2. /\ caller'[d].pc = "waiting" /\ caller'[d].corr = m.corr
          /\ caller'[d].cmd = caller[d].cmd /\ caller'[d].reply = <<m.result>>
      BY <2>1, <3>1 DEF CallStates
    <3>3. /\ caller[d].cmd.type \in CallTypes /\ caller[d].corr \in 1 .. corr
          /\ caller[d].reply = <<>>
      BY <2>1, <3>1 DEF CallerFits
    <3>4. AllOfKind(m.corr, caller[d].cmd.type)
      BY <2>1, <3>1, <3>3 DEF CallerFits
    <3>5. m.type \in {caller[d].cmd.type, ReplyTo[caller[d].cmd.type]}
      BY <1>5, <1>10, <3>4 DEF AllOfKind
    <3>6. m.type = ReplyTo[caller[d].cmd.type]
      BY <1>5, <3>3, <3>5 DEF CallTypes
    <3>7. m.result \in ResultOf[caller[d].cmd.type]
      BY <1>5, <3>3, <3>6 DEF CallTypes, ReplyTo, ResultOf
    <3>8. <<m.result>> # <<>> /\ Head(<<m.result>>) = m.result
      OBVIOUS
    <3>9. QED
      BY <1>2, <1>7, <3>1, <3>2, <3>3, <3>7, <3>8 DEF CallerFits
  <2>4. QED
    BY <2>2, <2>3
<1>13. QED
  BY <1>7, <1>9, <1>11, <1>12 DEF CallersFit

-----------------------------------------------------------------------------
(* The invariant of the entries is inductive.                                *)

LEMMA PassedEntries ==
  ASSUME EntriesInv, QueuesType', Passes, UNCHANGED callVars
  PROVE  EntriesType' /\ QueuesType' /\ OneUnderWay' /\ CallersFit'
<1>1. EntriesType /\ OneUnderWay /\ CallersFit
  BY DEF EntriesInv, BridgeType
<1>2. EntriesType'
  BY <1>1 DEF EntriesType, callVars
<1>3. OneUnderWay' /\ CallersFit'
  BY <1>1, PassedOn DEF Passes
<1>4. QED
  BY <1>2, <1>3

\* The rows of a list made out of an extraction.
LEMMA JobsType ==
  ASSUME CardsType, NEW c \in Callers, NEW found \in Seq({1, 2})
  PROVE  /\ Jobs(c, found) \in Seq(Tracks)
         /\ caller[c].cmd.input = "plain" =>
              /\ Len(Jobs(c, found)) = 1
              /\ caller[c].replace # 0 => Jobs(c, found)[1] = Placement(caller[c].replace)
<1>1. \A token : Placement(token) \in Tracks
  <2> TAKE token
  <2>1. CASE token \in Tokens
    <3>1. \E row \in searches : row.token = token
      BY <2>1 DEF Tokens
    <3>2. (CHOOSE row \in searches : row.token = token) \in searches
      BY <3>1
    <3>3. QED
      BY <2>1, <3>2 DEF Placement, CardsType
  <2>2. CASE token \notin Tokens
    BY <2>2 DEF Placement, Tracks
  <2>3. QED
    BY <2>1, <2>2
<1>2. CASE caller[c].cmd.input = "list"
  <2>1. PICK e : e = [i \in DOMAIN found |-> <<c, found[i]>>]
    OBVIOUS
  <2>2. DOMAIN found = 1 .. Len(found) /\ Len(found) \in Nat
        /\ \A i \in 1 .. Len(found) : found[i] \in {1, 2}
    OBVIOUS
  <2>3. \A i \in 1 .. Len(found) : <<c, found[i]>> \in Tracks
    BY <2>2 DEF Tracks
  <2>4. e \in Seq(Tracks)
    BY <2>1, <2>2, <2>3
  <2>5. QED
    BY <1>2, <2>1, <2>4 DEF Jobs
<1>3. CASE caller[c].cmd.input # "list"
  <2>1. PICK track : track = IF caller[c].replace = 0 THEN NoTrack
                             ELSE Placement(caller[c].replace)
    OBVIOUS
  <2>2. track \in Tracks
    BY <1>1, <2>1 DEF Tracks
  <2>3. Jobs(c, found) = <<track>>
    BY <1>3, <2>1 DEF Jobs
  <2>4. QED
    BY <2>1, <2>2, <2>3
<1>4. QED
  BY <1>2, <1>3

\* What a caller with its reply has to go on with.
LEMMA ReplyFacts ==
  ASSUME EntriesInv, NEW c \in Callers, NEW type \in CallTypes, Replied(c, type)
  PROVE  /\ caller[c].pc = "waiting" /\ caller[c].cmd.type = type /\ caller[c].reply # <<>>
         /\ Reply(c) \in ResultOf[type] /\ caller[c].corr \notin DOMAIN pending
         /\ caller[c].replace \in Nat
         /\ type = "Extract" => caller[c].cmd \in ExtractCmds
         /\ type = "StartSearch" => caller[c].cmd \in StartCmds
<1>1. CallerFits(c) /\ caller[c] \in CallStates
  BY DEF EntriesInv, CallersFit, BridgeType, EntriesType
<1>2. caller[c].pc = "waiting" /\ caller[c].cmd.type = type /\ caller[c].reply # <<>>
  BY DEF Replied
<1>3. caller[c].cmd \in {NoCall.cmd} \cup CallCmds /\ caller[c].replace \in Nat
  BY <1>1 DEF CallStates
<1>4. caller[c].cmd \in CallCmds
  BY <1>2, <1>3 DEF NoCall, CallTypes
<1>5. QED
  BY <1>1, <1>2, <1>3, <1>4, CallKinds DEF CallerFits, Reply

\* What Extracted sends out.
LEMMA ExtractedFacts ==
  ASSUME EntriesInv, NEW c \in Callers, Extracted(c), ~ Reply(c).error
  PROVE  \E cmd \in StartCmds :
           /\ cmd.input = caller[c].cmd.input /\ cmd.jobs = Jobs(c, Reply(c).found)
           /\ Reply(c).found \in Seq({1, 2}) /\ caller[c].replace \in Nat
           /\ RoundTrip(c, cmd, caller[c].replace)
<1>1. Reply(c) \in ExtractRes /\ caller[c].cmd \in ExtractCmds /\ caller[c].replace \in Nat
  BY ReplyFacts DEF Extracted, CallTypes, ResultOf
<1>2. Reply(c).found \in Seq({1, 2}) /\ caller[c].cmd.input \in Inputs
  BY <1>1 DEF ExtractRes, ExtractCmds
<1>3. Jobs(c, Reply(c).found) \in Seq(Tracks)
  BY <1>2, JobsType DEF EntriesInv, BridgeType
<1>4. PICK cmd : cmd = [type |-> "StartSearch", corr |-> 0, input |-> caller[c].cmd.input,
                        jobs |-> Jobs(c, Reply(c).found)]
  OBVIOUS
<1>5. cmd \in StartCmds
  BY <1>2, <1>3, <1>4 DEF StartCmds
<1>6. RoundTrip(c, cmd, caller[c].replace)
  BY <1>4 DEF Extracted
<1>7. cmd.input = caller[c].cmd.input /\ cmd.jobs = Jobs(c, Reply(c).found)
  BY <1>4
<1>8. QED
  BY <1>1, <1>2, <1>5, <1>6, <1>7

\* A call that is over leaves the entries as they are, or takes out its own.
LEMMA ReturnEntries ==
  ASSUME EntriesInv, NEW c \in Callers, NEW started \in SUBSET Nat, Return(c, started),
         corr' = corr, Passes,
         \/ pending' = pending
         \/ /\ caller[c].pc = "expiring"
            /\ pending' = Restrict(pending, DOMAIN pending \ {caller[c].corr})
  PROVE  EntriesType' /\ OneUnderWay' /\ CallersFit'
<1>1. EntriesType /\ CallersFit
  BY DEF EntriesInv, BridgeType
<1>2. /\ caller' \in [Callers -> CallStates] /\ caller'[c].pc = "over"
      /\ \A d \in Callers : d # c => caller'[d] = caller[d]
  BY <1>1, ReturnFacts
<1>3. /\ \A k \in DOMAIN pending' : k \in DOMAIN pending /\ pending'[k] = pending[k]
      /\ \A k \in DOMAIN pending : pending[k] # c => k \in DOMAIN pending'
  <2>1. CASE pending' = pending
    BY <2>1
  <2>2. CASE /\ caller[c].pc = "expiring"
             /\ pending' = Restrict(pending, DOMAIN pending \ {caller[c].corr})
    <3>1. pending' = [k \in DOMAIN pending \ {caller[c].corr} |-> pending[k]]
      BY <2>2 DEF Restrict
    <3>2. caller[c].corr \in DOMAIN pending => pending[caller[c].corr] = c
      BY <1>1, <2>2 DEF CallersFit, CallerFits
    <3>3. QED
      BY <3>1, <3>2
  <2>3. QED
    BY <2>1, <2>2
<1>4. EntriesType'
  BY <1>1, <1>2, <1>3 DEF EntriesType
<1>5. caller'[c].pc # "waiting" /\ caller'[c].pc # "expiring"
  BY <1>2
<1>6. QED
  BY <1>2, <1>3, <1>4, <1>5, CallEndsEntries

LEMMA QueuesSame ==
  ASSUME QueuesType, UNCHANGED <<cmds, extracts, bus>>
  PROVE  QueuesType' /\ Passes
BY PassesNothing DEF QueuesType

LEMMA CallEntries ==
  ASSUME EntriesInv, NEW c \in Callers, Call(c) \/ Wake(c) \/ TimeOut(c) \/ GoAway(c)
  PROVE  EntriesType' /\ QueuesType' /\ OneUnderWay' /\ CallersFit'
<1>1. EntriesType /\ QueuesType /\ CallersFit /\ CardsType
  BY DEF EntriesInv, BridgeType
<1>2. CASE Search(c)
  <2>1. PICK input \in {"plain", "list"}, replace \in {0} \cup Tokens :
          RoundTrip(c, [type |-> "Extract", corr |-> 0, input |-> input], replace)
    BY <1>2 DEF Search
  <2>2. PICK cmd : cmd = [type |-> "Extract", corr |-> 0, input |-> input]
    OBVIOUS
  <2>3. cmd \in CallCmds
    BY <2>2 DEF CallCmds, ExtractCmds, Inputs
  <2>4. replace \in Nat
    BY <1>1 DEF CardsType, Tokens
  <2>5. RoundTrip(c, cmd, replace) /\ UNCHANGED <<extracts, bus>>
    BY <1>2, <2>1, <2>2 DEF Search
  <2>6. QED
    BY <2>3, <2>4, <2>5, RoundTripEntries
<1>3. CASE Browse(c)
  <2>1. PICK u \in Users \cup {Nobody} :
          RoundTrip(c, [type |-> "BrowseUser", corr |-> 0, user |-> u], 0)
    BY <1>3 DEF Browse
  <2>2. PICK cmd : cmd = [type |-> "BrowseUser", corr |-> 0, user |-> u]
    OBVIOUS
  <2>3. cmd \in CallCmds
    BY <2>2 DEF CallCmds, BrowseCmds
  <2>4. RoundTrip(c, cmd, 0) /\ UNCHANGED <<extracts, bus>>
    BY <1>3, <2>1, <2>2 DEF Browse
  <2>5. QED
    BY <2>3, <2>4, RoundTripEntries
<1>4. CASE TimeOut(c)
  <2>1. /\ caller' \in [Callers -> CallStates]
        /\ caller'[c].pc = "expiring" /\ caller'[c].corr = caller[c].corr
        /\ \A d \in Callers : d # c => caller'[d] = caller[d]
    BY <1>1, <1>4, TimeOutFacts
  <2>2. corr' = corr /\ pending' = pending /\ UNCHANGED <<cmds, extracts, bus>>
        /\ caller[c].pc = "waiting" /\ caller[c].reply = <<>>
    BY <1>4 DEF TimeOut
  <2>3. EntriesType' /\ QueuesType' /\ Passes
    BY <1>1, <2>1, <2>2, QueuesSame DEF EntriesType
  <2>4. caller[c].corr \in 1 .. corr /\ pending[caller[c].corr] = c
    BY <1>1, <2>2 DEF CallersFit, CallerFits
  <2>5. QED
    BY <2>1, <2>2, <2>3, <2>4, CallEndsEntries
<1>5. CASE Withdraw(c)
  <2>1. /\ Return(c, {}) /\ corr' = corr /\ UNCHANGED <<cmds, extracts, bus>>
        /\ caller[c].pc = "expiring"
        /\ pending' = Restrict(pending, DOMAIN pending \ {caller[c].corr})
    BY <1>5 DEF Withdraw
  <2>2. QED
    BY <1>1, <2>1, QueuesSame, ReturnEntries
<1>6. CASE GoAway(c) \/ Answered(c)
  <2>1. Return(c, {}) /\ corr' = corr /\ UNCHANGED <<cmds, extracts, bus>>
        /\ pending' = pending
    BY <1>6 DEF GoAway, Answered
  <2>2. QED
    BY <1>1, <2>1, QueuesSame, ReturnEntries
<1>7. CASE Extracted(c)
  <2>1. CASE Reply(c).error
    <3>1. Return(c, {}) /\ corr' = corr /\ UNCHANGED <<cmds, extracts, bus>>
          /\ pending' = pending
      BY <1>7, <2>1 DEF Extracted
    <3>2. QED
      BY <1>1, <3>1, QueuesSame, ReturnEntries
  <2>2. CASE ~ Reply(c).error
    <3>1. PICK cmd \in StartCmds :
            RoundTrip(c, cmd, caller[c].replace) /\ caller[c].replace \in Nat
      BY <1>7, <2>2, ExtractedFacts
    <3>2. cmd \in CallCmds /\ UNCHANGED <<extracts, bus>>
      BY <1>7 DEF CallCmds, Extracted
    <3>3. QED
      BY <3>1, <3>2, RoundTripEntries
  <2>3. QED
    BY <2>1, <2>2
<1>8. CASE Started(c)
  <2>1. Reply(c) \in StartRes /\ caller[c].replace \in Nat
    BY <1>8, ReplyFacts DEF Started, CallTypes, ResultOf
  <2>2. PICK started \in SUBSET Nat : started = Reply(c).started
    BY <2>1 DEF StartRes
  <2>3. Return(c, started) /\ corr' = corr /\ pending' = pending
        /\ UNCHANGED <<extracts, bus>>
    BY <1>8, <2>2 DEF Started
  <2>4. QueuesType' /\ Passes
    <3>1. CASE Replaces(c)
      <4>1. cmds' = Append(cmds, [type |-> "RemoveSearch", corr |-> 0,
                                  token |-> caller[c].replace])
        BY <1>8, <3>1 DEF Started
      <4>2. QED
        BY <1>1, <2>1, <2>3, <4>1, RemovalSent
    <3>2. CASE ~ Replaces(c)
      BY <1>1, <1>8, <2>3, <3>2, QueuesSame DEF Started
    <3>3. QED
      BY <3>1, <3>2
  <2>5. QED
    BY <2>3, <2>4, ReturnEntries
<1>9. QED
  BY <1>2, <1>3, <1>4, <1>5, <1>6, <1>7, <1>8 DEF Call, Wake

LEMMA RemoveCardEntries ==
  ASSUME EntriesInv, NEW token \in Tokens, RemoveCard(token)
  PROVE  EntriesType' /\ QueuesType' /\ OneUnderWay' /\ CallersFit'
<1>1. QueuesType /\ token \in Nat
  BY DEF EntriesInv, BridgeType, CardsType, Tokens
<1>2. /\ cmds' = Append(cmds, [type |-> "RemoveSearch", corr |-> 0, token |-> token])
      /\ UNCHANGED <<extracts, bus>> /\ UNCHANGED callVars
  BY DEF RemoveCard
<1>3. QED
  BY <1>1, <1>2, RemovalSent, PassedEntries

LEMMA CoreEntries ==
  ASSUME EntriesInv, CoreWorker
  PROVE  EntriesType' /\ QueuesType' /\ OneUnderWay' /\ CallersFit'
<1>1. QueuesType /\ CardsType
  BY DEF EntriesInv, BridgeType
<1>2. CASE TakeResult
  BY <1>2, TakeResultEntries
<1>3. CASE StartSearch
  <2>1. UNCHANGED callVars
    BY <1>3 DEF StartSearch
  <2>2. QED
    BY <1>1, <1>3, <2>1, StartSearchPasses, PassedEntries
<1>4. CASE BrowseUser
  <2>1. UNCHANGED callVars
    BY <1>4 DEF BrowseUser
  <2>2. QED
    BY <1>1, <1>4, <2>1, BrowseUserPasses, PassedEntries
<1>5. CASE GetPeerAddress
  <2>1. UNCHANGED callVars
    BY <1>5 DEF GetPeerAddress
  <2>2. QED
    BY <1>1, <1>5, <2>1, GetPeerAddressPasses, PassedEntries
<1>6. CASE SearchStarted \/ RemoveSearch \/ PeerBrowseConnect \/ BrowseEnded
  <2>1. UNCHANGED callVars
    BY <1>6 DEF SearchStarted, RemoveSearch, PeerBrowseConnect, BrowseEnded
  <2>2. QED
    BY <1>1, <1>6, <2>1, DropsPass, PassedEntries
<1>7. QED
  BY <1>2, <1>3, <1>4, <1>5, <1>6 DEF CoreWorker

LEMMA OtherEntries ==
  ASSUME EntriesInv,
         \/ Forward \/ Extract \/ LogIn \/ LinkLost \/ ServerAnswers
         \/ \E u \in Users : BrowseTask(u)
  PROVE  EntriesType' /\ QueuesType' /\ OneUnderWay' /\ CallersFit'
<1>1. QueuesType /\ BrowsesType
  BY DEF EntriesInv, BridgeType
<1>2. UNCHANGED callVars
  BY DEF Forward, Extract, LogIn, LinkLost, ServerAnswers, BrowseTask
<1>3. CASE Forward
  BY <1>1, <1>2, <1>3, ForwardPasses, PassedEntries
<1>4. CASE Extract
  BY <1>1, <1>2, <1>4, ExtractPasses, PassedEntries
<1>5. CASE LogIn \/ LinkLost
  <2>1. UNCHANGED <<cmds, extracts, bus>>
    BY <1>5 DEF LogIn, LinkLost
  <2>2. QED
    BY <1>1, <1>2, <2>1, QueuesSame, PassedEntries
<1>6. CASE ServerAnswers \/ \E u \in Users : BrowseTask(u)
  BY <1>1, <1>2, <1>6, OutcomePasses, PassedEntries
<1>7. QED
  BY <1>3, <1>4, <1>5, <1>6

LEMMA SameEntries ==
  ASSUME EntriesInv, UNCHANGED vars
  PROVE  EntriesType' /\ QueuesType' /\ OneUnderWay' /\ CallersFit'
<1>1. UNCHANGED callVars /\ UNCHANGED <<cmds, extracts, bus>> /\ QueuesType
  BY DEF vars, EntriesInv, BridgeType
<1>2. QED
  BY <1>1, QueuesSame, PassedEntries

\* The cards and the browses keep their types.
LEMMA CardsTypeStep ==
  ASSUME BridgeType, [Next]_vars
  PROVE  CardsType'
<1>1. CardsType /\ QueuesType
  BY DEF BridgeType
<1>2. CASE UNCHANGED <<next_token, searches, removed>>
  BY <1>1, <1>2 DEF CardsType
<1>3. CASE StartSearch
  <2>1. PICK m \in StartCmds, events \in Seq(Unaddressed), answer \in Messages :
          Len(events) \in Nat /\ next_token' = next_token + Len(events)
    BY <1>1, <1>3, StartSearchFacts
  <2>2. UNCHANGED <<searches, removed>>
    BY <1>3 DEF StartSearch, cardVars
  <2>3. QED
    BY <1>1, <2>1, <2>2 DEF CardsType
<1>4. CASE SearchStarted
  <2>1. Head(bus).token \in Nat /\ Head(bus).track \in Tracks
    BY <1>1, <1>4, HeadOfNoCall DEF SearchStarted, Arrived
  <2>2. /\ searches' = searches \cup {[token |-> Head(bus).token, track |-> Head(bus).track]}
        /\ next_token' = next_token /\ removed' = removed
    BY <1>4 DEF SearchStarted, sessionVars
  <2>3. QED
    BY <1>1, <2>1, <2>2 DEF CardsType
<1>5. CASE RemoveSearch
  <2>1. Head(bus).token \in Nat
    BY <1>1, <1>5, HeadOfNoCall DEF RemoveSearch, Arrived
  <2>2. /\ searches' = {row \in searches : row.token # Head(bus).token}
        /\ removed' = removed \cup {Head(bus).token} /\ next_token' = next_token
    BY <1>5 DEF RemoveSearch, sessionVars
  <2>3. QED
    BY <1>1, <2>1, <2>2 DEF CardsType
<1>6. CASE \E c \in Callers : Call(c) \/ Wake(c) \/ TimeOut(c) \/ GoAway(c)
  <2>1. UNCHANGED <<next_token, searches, removed>>
    BY <1>6 DEF Call, Wake, Search, Browse, Withdraw, Extracted, Started, Answered, TimeOut,
                GoAway, sessionVars, cardVars
  <2>2. QED
    BY <1>2, <2>1
<1>7. CASE \/ BrowseUser \/ GetPeerAddress \/ PeerBrowseConnect \/ BrowseEnded \/ TakeResult
           \/ Forward \/ Extract \/ LogIn \/ LinkLost \/ ServerAnswers
           \/ \E u \in Users : BrowseTask(u)
           \/ \E token \in Tokens : RemoveCard(token)
           \/ UNCHANGED vars
  <2>1. UNCHANGED <<next_token, searches, removed>>
    BY <1>7 DEF BrowseUser, GetPeerAddress, PeerBrowseConnect, BrowseEnded, TakeResult,
                Forward, Extract, LogIn, LinkLost, ServerAnswers, BrowseTask, RemoveCard,
                vars, sessionVars, cardVars
  <2>2. QED
    BY <1>2, <2>1
<1>8. QED
  BY <1>3, <1>4, <1>5, <1>6, <1>7 DEF Next, CoreWorker

LEMMA BrowsesTypeStep ==
  ASSUME BridgeType, [Next]_vars
  PROVE  BrowsesType'
<1>1. BrowsesType /\ QueuesType
  BY DEF BridgeType
<1>2. CASE UNCHANGED <<lookups, pending_browses, browsing, owed>>
  BY <1>1, <1>2 DEF BrowsesType
<1>3. CASE BrowseUser
  <2>1. PICK m \in BrowseCmds :
          IF logged_in /\ m.user # Nobody
          THEN /\ lookups' = Append(lookups, m.user) /\ m.user \in Users
               /\ pending_browses' = pending_browses \cup {m.user}
               /\ owed' = owed \cup {m.user}
          ELSE UNCHANGED <<lookups, pending_browses, owed>>
    BY <1>1, <1>3, BrowseUserFacts
  <2>2. browsing' = browsing
    BY <1>3 DEF BrowseUser
  <2>3. CASE logged_in /\ m.user # Nobody
    <3>1. lookups' \in Seq(Users)
      BY <1>1, <2>1, <2>3, Grown DEF BrowsesType
    <3>2. QED
      BY <1>1, <2>1, <2>2, <2>3, <3>1 DEF BrowsesType
  <2>4. CASE ~ (logged_in /\ m.user # Nobody)
    BY <1>1, <2>1, <2>2, <2>4 DEF BrowsesType
  <2>5. QED
    BY <2>3, <2>4
<1>4. CASE GetPeerAddress
  <2>1. PICK u \in Users, next \in Unaddressed : pending_browses' = pending_browses \ {u}
    BY <1>1, <1>4, GetPeerAddressFacts
  <2>2. UNCHANGED <<lookups, browsing, owed>>
    BY <1>4 DEF GetPeerAddress, browseVars
  <2>3. QED
    BY <1>1, <2>1, <2>2 DEF BrowsesType
<1>5. CASE PeerBrowseConnect
  <2>1. Head(bus).user \in Users
    BY <1>1, <1>5, HeadOfNoCall DEF PeerBrowseConnect, Arrived
  <2>2. /\ browsing' = [browsing EXCEPT ![Head(bus).user] = @ + 1]
        /\ UNCHANGED <<lookups, pending_browses, owed>>
    BY <1>5 DEF PeerBrowseConnect, sessionVars
  <2>3. QED
    BY <1>1, <2>1, <2>2 DEF BrowsesType
<1>6. CASE BrowseEnded
  <2>1. owed' \subseteq owed /\ UNCHANGED <<lookups, pending_browses, browsing>>
    BY <1>6 DEF BrowseEnded, sessionVars
  <2>2. QED
    BY <1>1, <2>1 DEF BrowsesType
<1>7. CASE LinkLost
  <2>1. owed' \subseteq owed /\ lookups' = <<>> /\ UNCHANGED <<pending_browses, browsing>>
    BY <1>7 DEF LinkLost
  <2>2. QED
    BY <1>1, <2>1 DEF BrowsesType
<1>8. CASE ServerAnswers
  <2>1. lookups # <<>> /\ lookups' = Tail(lookups) /\ UNCHANGED <<pending_browses, browsing, owed>>
    BY <1>8 DEF ServerAnswers, browseVars
  <2>2. lookups' \in Seq(Users)
    BY <1>1, <2>1, HeadTail DEF BrowsesType
  <2>3. QED
    BY <1>1, <2>1, <2>2 DEF BrowsesType
<1>9. ASSUME NEW u \in Users, BrowseTask(u)
      PROVE  BrowsesType'
  <2>1. /\ browsing[u] > 0 /\ browsing' = [browsing EXCEPT ![u] = @ - 1]
        /\ UNCHANGED <<lookups, pending_browses, owed>>
    BY <1>9 DEF BrowseTask, sessionVars
  <2>2. browsing[u] \in Nat
    BY <1>1 DEF BrowsesType
  <2>3. browsing[u] - 1 \in Nat
    BY <2>1, <2>2
  <2>4. QED
    BY <1>1, <2>1, <2>3 DEF BrowsesType
<1>10. CASE \E c \in Callers : Call(c) \/ Wake(c) \/ TimeOut(c) \/ GoAway(c)
  <2>1. UNCHANGED <<lookups, pending_browses, browsing, owed>>
    BY <1>10 DEF Call, Wake, Search, Browse, Withdraw, Extracted, Started, Answered, TimeOut,
                 GoAway, sessionVars, browseVars
  <2>2. QED
    BY <1>2, <2>1
<1>11. CASE \/ StartSearch \/ SearchStarted \/ RemoveSearch \/ TakeResult
            \/ Forward \/ Extract \/ LogIn
            \/ \E token \in Tokens : RemoveCard(token)
            \/ UNCHANGED vars
  <2>1. UNCHANGED <<lookups, pending_browses, browsing, owed>>
    BY <1>11 DEF StartSearch, SearchStarted, RemoveSearch, TakeResult, Forward, Extract,
                 LogIn, RemoveCard, vars, sessionVars, browseVars
  <2>2. QED
    BY <1>2, <2>1
<1>12. QED
  BY <1>3, <1>4, <1>5, <1>6, <1>7, <1>8, <1>9, <1>10, <1>11 DEF Next, CoreWorker

LEMMA EntriesInit ==
  ASSUME Init
  PROVE  EntriesInv
<1>1. EntriesType
  <2>1. NoCall \in CallStates
    BY DEF NoCall, CallStates
  <2>2. corr = 0 /\ caller = [c \in Callers |-> NoCall] /\ pending = [k \in {} |-> NoTrack]
    BY DEF Init
  <2>3. DOMAIN pending = {}
    BY <2>2
  <2>4. QED
    BY <2>1, <2>2, <2>3 DEF EntriesType
<1>2. QueuesType
  BY DEF Init, QueuesType
<1>3. CardsType
  <2>1. Given \in Seq(ToSet(Given))
    BY BridgeAssumption
  <2>2. Len(Given) \in Nat /\ DOMAIN Given = 1 .. Len(Given)
        /\ \A t \in DOMAIN Given : Given[t] \in ToSet(Given)
    BY <2>1, LenProperties DEF ToSet
  <2>3. \A t \in DOMAIN Given : t \in Nat /\ Given[t] \in Tracks
    BY <2>2 DEF Tracks
  <2>4. searches = {[token |-> t, track |-> Given[t]] : t \in DOMAIN Given}
        /\ next_token = Len(Given) + 1 /\ removed = {}
    BY DEF Init
  <2>5. QED
    BY <2>2, <2>3, <2>4 DEF CardsType
<1>4. BrowsesType
  BY DEF Init, BrowsesType
<1>5. OneUnderWay
  <2>1. cmds = <<>> /\ extracts = <<>> /\ bus = <<>> /\ DOMAIN pending = {}
    BY DEF Init
  <2>2. \A k : AllClear(k) /\ Single(k)
    BY <2>1 DEF AllClear, Single, Clear, AtMostOne
  <2>3. QED
    BY <2>1, <2>2 DEF OneUnderWay
<1>6. CallersFit
  BY DEF Init, CallersFit, CallerFits, NoCall
<1>7. QED
  BY <1>1, <1>2, <1>3, <1>4, <1>5, <1>6 DEF EntriesInv, BridgeType

LEMMA EntriesStep ==
  ASSUME EntriesInv, [Next]_vars
  PROVE  EntriesInv'
<1>1. EntriesType' /\ QueuesType' /\ OneUnderWay' /\ CallersFit'
  BY CallEntries, RemoveCardEntries, CoreEntries, OtherEntries, SameEntries DEF Next
<1>2. CardsType' /\ BrowsesType'
  BY CardsTypeStep, BrowsesTypeStep DEF EntriesInv
<1>3. QED
  BY <1>1, <1>2 DEF EntriesInv, BridgeType

LEMMA EntriesAlways == Spec => []EntriesInv
<1>1. Init => EntriesInv
  BY EntriesInit
<1>2. EntriesInv /\ [Next]_vars => EntriesInv'
  BY EntriesStep
<1>3. QED
  BY <1>1, <1>2, PTL DEF Spec

\* The messages under way for a correlation, as the property counts them.
LEMMA UnderWayFacts ==
  ASSUME NEW k
  PROVE  \A w : w \in UnderWay(k) <=>
           \/ \E i \in DOMAIN cmds : To(cmds[i], k)
                /\ w = [at |-> "cmds", place |-> i, type |-> cmds[i].type]
           \/ \E i \in DOMAIN extracts : To(extracts[i], k)
                /\ w = [at |-> "extracts", place |-> i, type |-> extracts[i].type]
           \/ \E i \in DOMAIN bus : To(bus[i], k)
                /\ w = [at |-> "bus", place |-> i, type |-> bus[i].type]
BY Zenon DEF UnderWay, To

LEMMA EntriesImply ==
  ASSUME EntriesInv
  PROVE  EntriesAreOwed
<1>1. /\ OneUnderWay /\ CallersFit
      /\ corr \in Nat /\ DOMAIN pending \subseteq 1 .. corr
      /\ caller \in [Callers -> CallStates]
  BY DEF EntriesInv, BridgeType, EntriesType
<1>2. ASSUME NEW k \in DOMAIN pending
      PROVE  Cardinality(UnderWay(k)) = 1
  <2>1. k \in Nat \ {0}
    BY <1>1
  <2>2. Single(k) /\ ~ AllClear(k)
    BY <1>1, <2>1 DEF OneUnderWay
  <2>3. \A v, w \in UnderWay(k) : v = w
    BY <2>2, UnderWayFacts DEF Single, AtMostOne, Clear
  <2>4. \E w : w \in UnderWay(k)
    BY <2>2, UnderWayFacts DEF AllClear, Clear
  <2>5. PICK w : UnderWay(k) = {w}
    BY <2>3, <2>4
  <2>6. QED
    BY <2>5, FS_Singleton
<1>3. ASSUME NEW c \in Callers, caller[c].pc = "waiting", caller[c].reply = <<>>
      PROVE  /\ caller[c].corr \in DOMAIN pending /\ pending[caller[c].corr] = c
             /\ \A w \in UnderWay(caller[c].corr) :
                  w.type \in {caller[c].cmd.type, ReplyTo[caller[c].cmd.type]}
  <2>1. /\ caller[c].corr \in DOMAIN pending /\ pending[caller[c].corr] = c
        /\ AllOfKind(caller[c].corr, caller[c].cmd.type)
    BY <1>1, <1>3 DEF CallersFit, CallerFits
  <2>2. ASSUME NEW w \in UnderWay(caller[c].corr)
        PROVE  w.type \in {caller[c].cmd.type, ReplyTo[caller[c].cmd.type]}
    BY <2>1, UnderWayFacts DEF AllOfKind, OfKind
  <2>3. QED
    BY <2>1, <2>2
<1>4. QED
  BY <1>2, <1>3 DEF EntriesAreOwed

\* Every entry has exactly one command, request or result under way, and every caller that
\* waits without a reply has its entry (round_trip, complete): for any calls.
THEOREM EntriesAreAlwaysOwed == Spec => []EntriesAreOwed
<1>1. EntriesInv => EntriesAreOwed
  BY EntriesImply
<1>2. QED
  BY <1>1, EntriesAlways, PTL

-----------------------------------------------------------------------------
(* Browses.                                                                  *)

\* A message by which a browse of a user is on its way.
Carries(m, u) ==
  \/ m.type \in {"PeerBrowseConnect", "BrowseListing", "BrowseFailed"} /\ m.user = u
  \/ m.type = "GetPeerAddress" /\ m.user = u /\ u \in pending_browses

OnItsWay(u) ==
  \/ u \in ToSet(lookups) /\ u \in pending_browses
  \/ browsing[u] > 0
  \/ \E i \in DOMAIN bus : Carries(bus[i], u)

LEMMA BrowseIsTrackedMeans ==
  /\ BrowseIsTracked <=> \A u \in owed : OnItsWay(u)
  /\ BrowseIsTracked' <=> \A u \in owed' : OnItsWay(u)'
BY DEF BrowseIsTracked, OnItsWay, Carries

\* A browse stays on its way while the questions, the tasks and the bus keep it.
LEMMA StaysOnItsWay ==
  ASSUME NEW u, OnItsWay(u),
         u \in ToSet(lookups) => u \in ToSet(lookups)',
         u \in pending_browses => u \in pending_browses',
         browsing[u] > 0 => browsing'[u] > 0,
         \A i \in DOMAIN bus : Carries(bus[i], u) => \E j \in DOMAIN bus' : bus'[j] = bus[i]
  PROVE  OnItsWay(u)'
<1>1. CASE u \in ToSet(lookups) /\ u \in pending_browses
  BY <1>1 DEF OnItsWay
<1>2. CASE browsing[u] > 0
  BY <1>2 DEF OnItsWay
<1>3. CASE \E i \in DOMAIN bus : Carries(bus[i], u)
  <2>1. PICK i \in DOMAIN bus : Carries(bus[i], u)
    BY <1>3
  <2>2. PICK j \in DOMAIN bus' : bus'[j] = bus[i]
    BY <2>1
  <2>3. Carries(bus[j], u)'
    BY <2>1, <2>2 DEF Carries
  <2>4. QED
    BY <2>3 DEF OnItsWay
<1>4. QED
  BY <1>1, <1>2, <1>3 DEF OnItsWay

\* What a longer bus, and the bus without its head, keep.
LEMMA LongerBus ==
  ASSUME NEW q \in Seq(Messages), NEW r \in Seq(Messages)
  PROVE  /\ \A i \in DOMAIN q : \E j \in DOMAIN (q \o r) : (q \o r)[j] = q[i]
         /\ \A i \in DOMAIN r : \E j \in DOMAIN (q \o r) : (q \o r)[j] = r[i]
<1>1. PICK s : s = q \o r
  OBVIOUS
<1>2. /\ Len(q) \in Nat /\ Len(r) \in Nat /\ DOMAIN q = 1 .. Len(q) /\ DOMAIN r = 1 .. Len(r)
      /\ DOMAIN s = 1 .. Len(q) + Len(r)
      /\ \A i \in 1 .. Len(q) : s[i] = q[i]
      /\ \A i \in 1 .. Len(r) : s[Len(q) + i] = r[i]
  BY <1>1
<1>3. ASSUME NEW i \in DOMAIN q
      PROVE  \E j \in DOMAIN s : s[j] = q[i]
  BY <1>2
<1>4. ASSUME NEW i \in DOMAIN r
      PROVE  \E j \in DOMAIN s : s[j] = r[i]
  <2>1. Len(q) + i \in DOMAIN s /\ s[Len(q) + i] = r[i]
    BY <1>2
  <2>2. QED
    BY <2>1
<1>5. QED
  BY <1>1, <1>3, <1>4

LEMMA ShorterBus ==
  ASSUME NEW q \in Seq(Messages), q # <<>>
  PROVE  /\ Tail(q) \in Seq(Messages)
         /\ \A i \in DOMAIN q : q[i] = Head(q) \/ \E j \in DOMAIN Tail(q) : Tail(q)[j] = q[i]
<1>1. /\ Len(q) \in Nat \ {0} /\ DOMAIN q = 1 .. Len(q) /\ Head(q) = q[1]
      /\ Tail(q) \in Seq(Messages) /\ DOMAIN Tail(q) = 1 .. Len(q) - 1
      /\ \A i \in DOMAIN Tail(q) : i + 1 \in DOMAIN q /\ Tail(q)[i] = q[i + 1]
  BY HeadTail
<1>2. \A i \in DOMAIN q : i = 1 \/ (i - 1 \in DOMAIN Tail(q) /\ Tail(q)[i - 1] = q[i])
  BY <1>1
<1>3. QED
  BY <1>1, <1>2

LEMMA TurnedBus ==
  ASSUME NEW q \in Seq(Messages), q # <<>>, NEW r \in Seq(Messages)
  PROVE  /\ \A i \in DOMAIN q : q[i] = Head(q) \/ \E j \in DOMAIN (Tail(q) \o r) :
                                                     (Tail(q) \o r)[j] = q[i]
         /\ \A i \in DOMAIN r : \E j \in DOMAIN (Tail(q) \o r) : (Tail(q) \o r)[j] = r[i]
<1>1. PICK t \in Seq(Messages) :
        t = Tail(q) /\ \A i \in DOMAIN q : q[i] = Head(q) \/ \E j \in DOMAIN t : t[j] = q[i]
  BY ShorterBus
<1>2. PICK s : s = t \o r
  OBVIOUS
<1>3. \A i \in DOMAIN t : \E j \in DOMAIN s : s[j] = t[i]
  BY <1>2, LongerBus
<1>4. \A i \in DOMAIN r : \E j \in DOMAIN s : s[j] = r[i]
  BY <1>2, LongerBus
<1>5. ASSUME NEW i \in DOMAIN q, q[i] # Head(q)
      PROVE  \E j \in DOMAIN s : s[j] = q[i]
  <2>1. PICK n \in DOMAIN t : t[n] = q[i]
    BY <1>1, <1>5
  <2>2. QED
    BY <1>3, <2>1
<1>6. s = Tail(q) \o r
  BY <1>1, <1>2
<1>7. QED
  BY <1>4, <1>5, <1>6

\* The bus keeps what carries a browse, whatever the step.
LEMMA BusKeeps ==
  ASSUME EntriesInv, NEW u,
         \/ StartSearch \/ SearchStarted \/ RemoveSearch \/ BrowseUser \/ TakeResult
         \/ Forward \/ Extract \/ ServerAnswers \/ UNCHANGED bus
         \/ \E v \in Users : BrowseTask(v)
  PROVE  \A i \in DOMAIN bus : Carries(bus[i], u) => \E j \in DOMAIN bus' : bus'[j] = bus[i]
<1>1. QueuesType /\ CardsType /\ BrowsesType /\ bus \in Seq(Messages)
  BY DEF EntriesInv, BridgeType, QueuesType
<1>2. CASE UNCHANGED bus
  BY <1>2
<1>3. CASE \E r \in Seq(Messages) : bus' = bus \o r
  <2>1. PICK r \in Seq(Messages) : bus' = bus \o r
    BY <1>3
  <2>2. \A i \in DOMAIN bus : \E j \in DOMAIN (bus \o r) : (bus \o r)[j] = bus[i]
    BY <1>1, LongerBus
  <2>3. QED
    BY <2>1, <2>2
<1>4. CASE /\ bus # <<>> /\ ~ Carries(Head(bus), u)
           /\ \E r \in Seq(Messages) : bus' = Tail(bus) \o r
  <2>1. PICK r \in Seq(Messages) : bus' = Tail(bus) \o r
    BY <1>4
  <2>2. \A i \in DOMAIN bus : bus[i] = Head(bus) \/ \E j \in DOMAIN (Tail(bus) \o r) :
                                                       (Tail(bus) \o r)[j] = bus[i]
    BY <1>1, <1>4, TurnedBus
  <2>3. \A i \in DOMAIN bus : Carries(bus[i], u) => bus[i] # Head(bus)
    BY <1>4
  <2>4. QED
    BY <2>1, <2>2, <2>3
<1>5. CASE StartSearch
  <2>1. PICK m \in StartCmds, events \in Seq(Unaddressed), answer \in Messages :
          /\ bus # <<>> /\ m = Head(bus) /\ m.type = "StartSearch"
          /\ bus' = Tail(bus) \o (events \o <<answer>>)
    BY <1>1, <1>5, StartSearchFacts, ZenonT(30)
  <2>2. events \in Seq(Messages) /\ <<answer>> \in Seq(Messages)
    BY NoCallClear
  <2>3. events \o <<answer>> \in Seq(Messages)
    BY <2>2, Joined
  <2>4. ~ Carries(Head(bus), u)
    BY <2>1 DEF Carries
  <2>5. QED
    BY <1>4, <2>1, <2>3, <2>4
<1>6. CASE BrowseUser
  <2>1. PICK m \in BrowseCmds, answer \in Messages :
          /\ bus # <<>> /\ m = Head(bus) /\ m.type = "BrowseUser"
          /\ bus' = Tail(bus) \o <<answer>>
    BY <1>1, <1>6, BrowseUserFacts
  <2>2. ~ Carries(Head(bus), u) /\ <<answer>> \in Seq(Messages)
    BY <2>1 DEF Carries
  <2>3. QED
    BY <1>4, <2>1, <2>2
<1>7. CASE SearchStarted \/ RemoveSearch \/ TakeResult
  <2>1. /\ bus # <<>> /\ bus' = Tail(bus)
        /\ Head(bus).type \in {"SearchStarted", "RemoveSearch", "ExtractResult",
                               "StartSearchResult", "BrowseAccepted"}
    BY <1>7 DEF SearchStarted, RemoveSearch, TakeResult, Arrived
  <2>2. ~ Carries(Head(bus), u)
    BY <2>1 DEF Carries
  <2>3. Tail(bus) = Tail(bus) \o <<>> /\ <<>> \in Seq(Messages)
    BY <1>1, <2>1, NothingFollows
  <2>4. QED
    BY <1>4, <2>1, <2>2, <2>3
<1>8. CASE Forward
  <2>1. cmds # <<>> /\ cmds \in Seq(CallCmds \cup RemoveCmds)
    BY <1>1, <1>8 DEF Forward, QueuesType
  <2>2. CASE Head(cmds).type = "Extract"
    BY <1>2, <1>8, <2>2 DEF Forward
  <2>3. CASE Head(cmds).type # "Extract"
    <3>1. PICK m \in CallCmds \cup RemoveCmds : m = Head(cmds) /\ bus' = Append(bus, m)
      BY <1>8, <2>1, <2>3, HeadTail DEF Forward
    <3>2. m \in Messages
      <4>1. m \in ExtractCmds => m.type = "Extract"
        BY DEF ExtractCmds
      <4>2. QED
        BY <2>3, <3>1, <4>1 DEF CallCmds, Messages, Addressed
    <3>3. bus' = bus \o <<m>> /\ <<m>> \in Seq(Messages)
      BY <1>1, <3>1, <3>2, Grown
    <3>4. QED
      BY <1>3, <3>3
  <2>4. QED
    BY <2>2, <2>3
<1>9. CASE Extract
  <2>1. PICK answer \in Messages : bus' = Append(bus, answer)
    BY <1>1, <1>9, ExtractFacts
  <2>2. bus' = bus \o <<answer>> /\ <<answer>> \in Seq(Messages)
    BY <1>1, <2>1, Grown
  <2>3. QED
    BY <1>3, <2>2
<1>10. CASE ServerAnswers
  <2>1. PICK u0 \in Users, offline \in BOOLEAN :
          bus' = Append(bus, [type |-> "GetPeerAddress", user |-> u0, offline |-> offline])
    BY <1>1, <1>10, HeadTail DEF ServerAnswers, BrowsesType
  <2>2. [type |-> "GetPeerAddress", user |-> u0, offline |-> offline] \in Messages
    BY DEF Messages, Unaddressed
  <2>3. PICK m \in Messages : bus' = Append(bus, m)
    BY <2>1, <2>2
  <2>4. bus' = bus \o <<m>> /\ <<m>> \in Seq(Messages)
    BY <1>1, <2>3, Grown
  <2>5. QED
    BY <1>3, <2>4
<1>11. CASE \E v \in Users : BrowseTask(v)
  <2>1. PICK v \in Users, type \in {"BrowseListing", "BrowseFailed"} :
          bus' = bus \o << [type |-> type, user |-> v] >>
    BY <1>11 DEF BrowseTask, Outcomes
  <2>2. [type |-> type, user |-> v] \in Messages
    BY DEF Messages, Unaddressed
  <2>3. << [type |-> type, user |-> v] >> \in Seq(Messages)
    BY <2>2
  <2>4. QED
    BY <1>3, <2>1, <2>3
<1>12. QED
  BY <1>2, <1>5, <1>6, <1>7, <1>8, <1>9, <1>10, <1>11

LEMMA QuietBrowses ==
  ASSUME EntriesInv, BrowseIsTracked, UNCHANGED <<lookups, pending_browses, browsing>>,
         owed' \subseteq owed,
         \/ StartSearch \/ SearchStarted \/ RemoveSearch \/ TakeResult \/ Forward \/ Extract
         \/ UNCHANGED bus
  PROVE  BrowseIsTracked'
<1> SUFFICES ASSUME NEW u \in owed'
             PROVE  OnItsWay(u)'
  BY BrowseIsTrackedMeans
<1>1. OnItsWay(u)
  BY BrowseIsTrackedMeans
<1>2. \A i \in DOMAIN bus : Carries(bus[i], u) => \E j \in DOMAIN bus' : bus'[j] = bus[i]
  BY BusKeeps
<1>3. u \in ToSet(lookups) => u \in ToSet(lookups)'
  BY DEF ToSet
<1>4. QED
  BY <1>1, <1>2, <1>3, StaysOnItsWay

LEMMA CallTracked ==
  ASSUME EntriesInv, BrowseIsTracked,
         \/ \E c \in Callers : Call(c) \/ Wake(c) \/ TimeOut(c) \/ GoAway(c)
         \/ \E token \in Tokens : RemoveCard(token)
         \/ LogIn \/ Forward \/ Extract
         \/ StartSearch \/ SearchStarted \/ RemoveSearch \/ TakeResult \/ UNCHANGED vars
  PROVE  BrowseIsTracked'
<1>1. UNCHANGED <<lookups, pending_browses, browsing, owed>>
  BY DEF Call, Wake, Search, Browse, Withdraw, Extracted, Started, Answered, TimeOut, GoAway,
         RemoveCard, LogIn, Forward, Extract, StartSearch, SearchStarted, RemoveSearch,
         TakeResult, vars, sessionVars, browseVars
<1>2. \/ StartSearch \/ SearchStarted \/ RemoveSearch \/ TakeResult \/ Forward \/ Extract
      \/ UNCHANGED bus
  BY DEF Call, Wake, Search, Browse, Withdraw, Extracted, Started, Answered, TimeOut, GoAway,
         RemoveCard, LogIn, vars
<1>3. QED
  BY <1>1, <1>2, QuietBrowses

\* The server is asked where the user is.
LEMMA BrowseUserTracked ==
  ASSUME EntriesInv, BrowseIsTracked, BrowseUser
  PROVE  BrowseIsTracked'
<1>1. QueuesType /\ lookups \in Seq(Users) /\ browsing' = browsing
  BY DEF EntriesInv, BridgeType, BrowsesType, BrowseUser, browseVars, BrowseUser
<1>2. PICK u0 \in Users \cup {Nobody} :
        \/ /\ lookups' = Append(lookups, u0) /\ u0 \in Users
           /\ pending_browses' = pending_browses \cup {u0} /\ owed' = owed \cup {u0}
        \/ UNCHANGED <<lookups, pending_browses, owed>>
  <2>1. PICK m \in BrowseCmds :
          IF logged_in /\ m.user # Nobody
          THEN /\ lookups' = Append(lookups, m.user) /\ m.user \in Users
               /\ pending_browses' = pending_browses \cup {m.user}
               /\ owed' = owed \cup {m.user}
          ELSE UNCHANGED <<lookups, pending_browses, owed>>
    BY <1>1, BrowseUserFacts
  <2>2. m.user \in Users \cup {Nobody}
    BY DEF BrowseCmds
  <2>3. QED
    BY <2>1, <2>2
<1>3. \A u : u \in ToSet(lookups) => u \in ToSet(lookups)'
  <2>1. CASE UNCHANGED lookups
    BY <2>1 DEF ToSet
  <2>2. CASE lookups' = Append(lookups, u0) /\ u0 \in Users
    <3>1. \A i \in DOMAIN lookups : i \in DOMAIN lookups' /\ lookups'[i] = lookups[i]
      BY <1>1, <2>2
    <3>2. QED
      BY <3>1 DEF ToSet
  <2>3. QED
    BY <1>2, <2>1, <2>2
<1>4. lookups' = Append(lookups, u0) /\ u0 \in Users => u0 \in ToSet(lookups)'
  <2> SUFFICES ASSUME lookups' = Append(lookups, u0), u0 \in Users
               PROVE  u0 \in ToSet(lookups)'
    OBVIOUS
  <2>1. Len(lookups) + 1 \in DOMAIN lookups' /\ lookups'[Len(lookups) + 1] = u0
    BY <1>1
  <2>2. QED
    BY <2>1 DEF ToSet
<1>5. ASSUME NEW u \in owed
      PROVE  OnItsWay(u)'
  <2>1. OnItsWay(u)
    BY BrowseIsTrackedMeans
  <2>2. \A i \in DOMAIN bus : Carries(bus[i], u) => \E j \in DOMAIN bus' : bus'[j] = bus[i]
    BY BusKeeps
  <2>3. u \in pending_browses => u \in pending_browses'
    BY <1>2
  <2>4. QED
    BY <1>1, <1>3, <2>1, <2>2, <2>3, StaysOnItsWay
<1>6. u0 \in owed' => OnItsWay(u0)'
  BY <1>2, <1>4, <1>5 DEF OnItsWay
<1>7. \A u \in owed' : OnItsWay(u)'
  BY <1>2, <1>5, <1>6
<1>8. QED
  BY <1>7, BrowseIsTrackedMeans

\* The address takes the browse of its user on, and leaves those of the others.
LEMMA GetPeerAddressTracked ==
  ASSUME EntriesInv, BrowseIsTracked, GetPeerAddress
  PROVE  BrowseIsTracked'
<1>1. QueuesType /\ bus \in Seq(Messages) /\ UNCHANGED <<lookups, browsing, owed>>
  BY DEF EntriesInv, BridgeType, QueuesType, GetPeerAddress, browseVars
<1>2. PICK u0 \in Users, next \in Unaddressed :
        /\ bus # <<>> /\ u0 = Head(bus).user /\ Head(bus).type = "GetPeerAddress"
        /\ pending_browses' = pending_browses \ {u0}
        /\ next.type \in {"BrowseFailed", "PeerBrowseConnect"} /\ next.user = u0
        /\ bus' = IF u0 \notin pending_browses THEN Tail(bus) ELSE Tail(bus) \o <<next>>
  BY <1>1, GetPeerAddressFacts
<1>3. PICK r \in Seq(Messages) :
        bus' = Tail(bus) \o r /\ (u0 \in pending_browses => r = <<next>>)
  <2>1. <<next>> \in Seq(Messages) /\ <<>> \in Seq(Messages)
    BY DEF Messages
  <2>2. Tail(bus) = Tail(bus) \o <<>>
    BY <1>1, <1>2, NothingFollows
  <2>3. QED
    BY <1>2, <2>1, <2>2
<1>4. /\ \A i \in DOMAIN bus : bus[i] = Head(bus) \/ \E j \in DOMAIN bus' : bus'[j] = bus[i]
      /\ \A i \in DOMAIN r : \E j \in DOMAIN bus' : bus'[j] = r[i]
  <2>1. PICK s : s = Tail(bus) \o r
    OBVIOUS
  <2>2. /\ \A i \in DOMAIN bus : bus[i] = Head(bus) \/ \E j \in DOMAIN s : s[j] = bus[i]
        /\ \A i \in DOMAIN r : \E j \in DOMAIN s : s[j] = r[i]
    BY <1>1, <1>2, <2>1, TurnedBus
  <2>3. bus' = s
    BY <1>3, <2>1
  <2>4. QED
    BY <2>2, <2>3
<1>5. ASSUME NEW u \in owed, u # u0
      PROVE  OnItsWay(u)'
  <2>1. OnItsWay(u)
    BY BrowseIsTrackedMeans
  <2>2. ~ Carries(Head(bus), u)
    BY <1>2, <1>5 DEF Carries
  <2>3. \A i \in DOMAIN bus : Carries(bus[i], u) => \E j \in DOMAIN bus' : bus'[j] = bus[i]
    BY <1>4, <2>2
  <2>4. u \in pending_browses => u \in pending_browses'
    BY <1>2, <1>5
  <2>5. u \in ToSet(lookups) => u \in ToSet(lookups)'
    BY <1>1 DEF ToSet
  <2>6. QED
    BY <1>1, <2>1, <2>3, <2>4, <2>5, StaysOnItsWay
<1>6. ASSUME u0 \in owed, u0 \in pending_browses
      PROVE  OnItsWay(u0)'
  <2>1. 1 \in DOMAIN r /\ r[1] = next
    BY <1>3, <1>6
  <2>2. PICK j \in DOMAIN bus' : bus'[j] = next
    BY <1>4, <2>1
  <2>3. Carries(bus[j], u0)'
    BY <1>2, <2>2 DEF Carries
  <2>4. QED
    BY <2>3 DEF OnItsWay
<1>7. ASSUME u0 \in owed, u0 \notin pending_browses
      PROVE  OnItsWay(u0)'
  <2>1. OnItsWay(u0)
    BY <1>7, BrowseIsTrackedMeans
  <2>2. ~ Carries(Head(bus), u0)
    BY <1>2, <1>7 DEF Carries
  <2>3. \A i \in DOMAIN bus : Carries(bus[i], u0) => \E j \in DOMAIN bus' : bus'[j] = bus[i]
    BY <1>4, <2>2
  <2>4. u0 \in ToSet(lookups) => u0 \in ToSet(lookups)'
    BY <1>1 DEF ToSet
  <2>5. u0 \in pending_browses => u0 \in pending_browses'
    BY <1>7
  <2>6. QED
    BY <1>1, <2>1, <2>3, <2>4, <2>5, StaysOnItsWay
<1>8. \A u \in owed' : OnItsWay(u)'
  BY <1>1, <1>5, <1>6, <1>7
<1>9. QED
  BY <1>8, BrowseIsTrackedMeans

\* A browse gets its task, and one that has ended is not owed any more.
LEMMA BrowseTakenTracked ==
  ASSUME EntriesInv, BrowseIsTracked, PeerBrowseConnect \/ BrowseEnded
  PROVE  BrowseIsTracked'
<1>1. /\ bus \in Seq(Messages) /\ UNCHANGED <<lookups, pending_browses>> /\ bus # <<>>
      /\ bus' = Tail(bus) /\ browsing \in [Users -> Nat] /\ owed \subseteq Users
  BY DEF EntriesInv, BridgeType, QueuesType, BrowsesType, PeerBrowseConnect, BrowseEnded,
         Arrived, sessionVars
<1>2. PICK u0 : u0 = Head(bus).user
  OBVIOUS
<1>3. \A i \in DOMAIN bus : bus[i] = Head(bus) \/ \E j \in DOMAIN bus' : bus'[j] = bus[i]
  BY <1>1, ShorterBus
<1>4. Head(bus).type \in {"PeerBrowseConnect", "BrowseListing", "BrowseFailed"}
  BY DEF PeerBrowseConnect, BrowseEnded, Arrived
<1>5. \A u \in Users : browsing[u] > 0 => browsing'[u] > 0
  <2>1. CASE PeerBrowseConnect
    <3>1. browsing' = [browsing EXCEPT ![u0] = @ + 1]
      BY <1>2, <2>1 DEF PeerBrowseConnect
    <3>2. QED
      BY <1>1, <3>1
  <2>2. CASE BrowseEnded
    BY <2>2 DEF BrowseEnded
  <2>3. QED
    BY <2>1, <2>2
<1>6. ASSUME NEW u \in owed, u # u0
      PROVE  OnItsWay(u)'
  <2>1. OnItsWay(u)
    BY BrowseIsTrackedMeans
  <2>2. ~ Carries(Head(bus), u)
    BY <1>2, <1>4, <1>6 DEF Carries
  <2>3. \A i \in DOMAIN bus : Carries(bus[i], u) => \E j \in DOMAIN bus' : bus'[j] = bus[i]
    BY <1>3, <2>2
  <2>4. u \in ToSet(lookups) => u \in ToSet(lookups)'
    BY <1>1 DEF ToSet
  <2>5. browsing[u] > 0 => browsing'[u] > 0
    BY <1>1, <1>5
  <2>6. u \in pending_browses => u \in pending_browses'
    BY <1>1
  <2>7. QED
    BY <2>1, <2>3, <2>4, <2>5, <2>6, StaysOnItsWay
<1>7. CASE PeerBrowseConnect
  <2>1. browsing' = [browsing EXCEPT ![u0] = @ + 1] /\ owed' = owed
    BY <1>2, <1>7 DEF PeerBrowseConnect
  <2>2. u0 \in owed => browsing'[u0] > 0
    BY <1>1, <2>1
  <2>3. u0 \in owed => OnItsWay(u0)'
    BY <2>2 DEF OnItsWay
  <2>4. \A u \in owed' : OnItsWay(u)'
    BY <1>6, <2>1, <2>3
  <2>5. QED
    BY <2>4, BrowseIsTrackedMeans
<1>8. CASE BrowseEnded
  <2>1. owed' = owed \ {u0}
    BY <1>2, <1>8 DEF BrowseEnded
  <2>2. \A u \in owed' : OnItsWay(u)'
    BY <1>6, <2>1
  <2>3. QED
    BY <2>2, BrowseIsTrackedMeans
<1>9. QED
  BY <1>7, <1>8

\* The questions the server has not answered are lost with the link, and are owed no more.
LEMMA LinkLostTracked ==
  ASSUME EntriesInv, BrowseIsTracked, LinkLost
  PROVE  BrowseIsTracked'
<1>1. UNCHANGED <<bus, pending_browses, browsing>> /\ owed' = owed \ ToSet(lookups)
  BY DEF LinkLost
<1>2. ASSUME NEW u \in owed'
      PROVE  OnItsWay(u)'
  <2>1. OnItsWay(u) /\ u \notin ToSet(lookups)
    BY <1>1, <1>2, BrowseIsTrackedMeans
  <2>2. \A i \in DOMAIN bus : Carries(bus[i], u) => \E j \in DOMAIN bus' : bus'[j] = bus[i]
    BY <1>1
  <2>3. u \in pending_browses => u \in pending_browses'
    BY <1>1
  <2>4. browsing[u] > 0 => browsing'[u] > 0
    BY <1>1
  <2>5. QED
    BY <2>1, <2>2, <2>3, <2>4, StaysOnItsWay
<1>3. QED
  BY <1>2, BrowseIsTrackedMeans

\* The answer of the server carries the browse it was asked for.
LEMMA ServerAnswersTracked ==
  ASSUME EntriesInv, BrowseIsTracked, ServerAnswers
  PROVE  BrowseIsTracked'
<1>1. /\ bus \in Seq(Messages) /\ lookups \in Seq(Users) /\ lookups # <<>>
      /\ lookups' = Tail(lookups) /\ UNCHANGED <<pending_browses, browsing, owed>>
  BY DEF EntriesInv, BridgeType, QueuesType, BrowsesType, ServerAnswers, browseVars
<1>2. PICK u0 \in Users, m \in Messages :
        /\ u0 = Head(lookups) /\ bus' = Append(bus, m)
        /\ m.type = "GetPeerAddress" /\ m.user = u0
  <2>1. PICK offline \in BOOLEAN :
          bus' = Append(bus, [type |-> "GetPeerAddress", user |-> Head(lookups),
                              offline |-> offline])
    BY DEF ServerAnswers
  <2>2. Head(lookups) \in Users
    BY <1>1
  <2>3. [type |-> "GetPeerAddress", user |-> Head(lookups), offline |-> offline] \in Messages
    BY <2>2 DEF Messages, Unaddressed
  <2>4. QED
    BY <2>1, <2>2, <2>3
<1>3. Len(bus) + 1 \in DOMAIN bus' /\ bus'[Len(bus) + 1] = m
  BY <1>1, <1>2
<1>4. \A u : u \in ToSet(lookups) => u = u0 \/ u \in ToSet(lookups)'
  <2>1. /\ Len(lookups) \in Nat \ {0} /\ DOMAIN lookups = 1 .. Len(lookups)
        /\ Head(lookups) = lookups[1] /\ DOMAIN lookups' = 1 .. Len(lookups) - 1
        /\ \A i \in DOMAIN lookups' : lookups'[i] = lookups[i + 1]
    BY <1>1, HeadTail
  <2>2. \A i \in DOMAIN lookups : i = 1 \/ (i - 1 \in DOMAIN lookups'
                                             /\ lookups'[i - 1] = lookups[i])
    BY <2>1
  <2>3. QED
    BY <1>2, <2>1, <2>2 DEF ToSet
<1>5. ASSUME NEW u \in owed
      PROVE  OnItsWay(u)'
  <2>1. OnItsWay(u)
    BY BrowseIsTrackedMeans
  <2>2. \A i \in DOMAIN bus : Carries(bus[i], u) => \E j \in DOMAIN bus' : bus'[j] = bus[i]
    BY BusKeeps
  <2>3. CASE u = u0 /\ u \in pending_browses
    <3>1. PICK j \in DOMAIN bus' : bus'[j] = m
      BY <1>3
    <3>2. Carries(bus[j], u)'
      BY <1>1, <1>2, <2>3, <3>1 DEF Carries
    <3>3. QED
      BY <3>2 DEF OnItsWay
  <2>4. CASE u # u0 \/ u \notin pending_browses
    <3>1. CASE u \in ToSet(lookups) /\ u \in pending_browses
      BY <1>1, <1>4, <2>4, <3>1 DEF OnItsWay
    <3>2. CASE browsing[u] > 0
      BY <1>1, <3>2 DEF OnItsWay
    <3>3. CASE \E i \in DOMAIN bus : Carries(bus[i], u)
      <4>1. PICK i \in DOMAIN bus : Carries(bus[i], u)
        BY <3>3
      <4>2. PICK j \in DOMAIN bus' : bus'[j] = bus[i]
        BY <2>2, <4>1
      <4>3. Carries(bus[j], u)'
        BY <1>1, <4>1, <4>2 DEF Carries
      <4>4. QED
        BY <4>3 DEF OnItsWay
    <3>4. QED
      BY <2>1, <3>1, <3>2, <3>3 DEF OnItsWay
  <2>5. QED
    BY <2>3, <2>4
<1>6. QED
  BY <1>1, <1>5, BrowseIsTrackedMeans

\* The end of a task is on the bus when the task is gone.
LEMMA BrowseTaskTracked ==
  ASSUME EntriesInv, BrowseIsTracked, NEW u0 \in Users, BrowseTask(u0)
  PROVE  BrowseIsTracked'
<1>1. /\ bus \in Seq(Messages) /\ browsing \in [Users -> Nat] /\ owed \subseteq Users
      /\ browsing' = [browsing EXCEPT ![u0] = @ - 1]
      /\ UNCHANGED <<lookups, pending_browses, owed>>
  BY DEF EntriesInv, BridgeType, QueuesType, BrowsesType, BrowseTask, sessionVars
<1>2. PICK m \in Messages :
        /\ m.type \in {"BrowseListing", "BrowseFailed"} /\ m.user = u0
        /\ bus' = bus \o <<m>>
  <2>1. PICK type \in {"BrowseListing", "BrowseFailed"} :
          bus' = bus \o << [type |-> type, user |-> u0] >>
    BY DEF BrowseTask, Outcomes
  <2>2. [type |-> type, user |-> u0] \in Messages
    BY DEF Messages, Unaddressed
  <2>3. QED
    BY <2>1, <2>2
<1>3. PICK j0 \in DOMAIN bus' : bus'[j0] = m
  <2>1. <<m>> \in Seq(Messages) /\ 1 \in DOMAIN <<m>> /\ <<m>>[1] = m
    OBVIOUS
  <2>2. \A i \in DOMAIN <<m>> : \E j \in DOMAIN (bus \o <<m>>) : (bus \o <<m>>)[j] = <<m>>[i]
    BY <1>1, <2>1, LongerBus
  <2>3. \E j \in DOMAIN (bus \o <<m>>) : (bus \o <<m>>)[j] = m
    BY <2>1, <2>2
  <2>4. QED
    BY <1>2, <2>3
<1>4. ASSUME NEW u \in owed
      PROVE  OnItsWay(u)'
  <2>1. OnItsWay(u)
    BY BrowseIsTrackedMeans
  <2>2. \A i \in DOMAIN bus : Carries(bus[i], u) => \E j \in DOMAIN bus' : bus'[j] = bus[i]
    BY BusKeeps
  <2>3. CASE u = u0
    <3>1. Carries(bus[j0], u)'
      BY <1>2, <1>3, <2>3 DEF Carries
    <3>2. QED
      BY <1>3, <3>1 DEF OnItsWay
  <2>4. CASE u # u0
    <3>1. browsing[u] > 0 => browsing'[u] > 0
      BY <1>1, <2>4
    <3>2. u \in ToSet(lookups) => u \in ToSet(lookups)'
      BY <1>1 DEF ToSet
    <3>3. u \in pending_browses => u \in pending_browses'
      BY <1>1
    <3>4. QED
      BY <2>1, <2>2, <3>1, <3>2, <3>3, StaysOnItsWay
  <2>5. QED
    BY <2>3, <2>4
<1>5. QED
  BY <1>1, <1>4, BrowseIsTrackedMeans

LEMMA TrackedStep ==
  ASSUME EntriesInv, BrowseIsTracked, [Next]_vars
  PROVE  BrowseIsTracked'
BY CallTracked, BrowseUserTracked, GetPeerAddressTracked, BrowseTakenTracked, LinkLostTracked,
   ServerAnswersTracked, BrowseTaskTracked DEF Next, CoreWorker

\* An accepted browse is always somewhere on its way, and only the loss of the link loses it
\* (BrowseUser, GetPeerAddress, browse_task): for any users, calls and scenarios.
THEOREM BrowseIsAlwaysTracked == Spec => []BrowseIsTracked
<1>1. Init => BrowseIsTracked
  BY DEF Init, BrowseIsTracked
<1>2. EntriesInv /\ BrowseIsTracked /\ [Next]_vars => BrowseIsTracked'
  BY TrackedStep
<1>3. QED
  BY <1>1, <1>2, EntriesAlways, PTL DEF Spec

-----------------------------------------------------------------------------
(* Cards.                                                                    *)

IsEvent(m) == m.type = "SearchStarted"

\* A token given out before those of the events that are still on the bus.
Old(token) ==
  token < next_token /\ \A i \in DOMAIN bus : IsEvent(bus[i]) => token < bus[i].token

\* A card that is asked to be removed.
RemovalOf(queue, token) ==
  \E i \in DOMAIN queue : queue[i].type = "RemoveSearch" /\ queue[i].token = token
ToRemove(token) == RemovalOf(cmds, token) \/ RemovalOf(bus, token)

\* Tokens are given out, and cards come up, in one order.
TokensRise ==
  /\ next_token > 0
  /\ \A row \in searches : Old(row.token)
  /\ \A row, other \in searches : row.token = other.token => row = other
  /\ \A i \in DOMAIN bus : IsEvent(bus[i]) => bus[i].token \in 1 .. next_token - 1
  /\ \A i, j \in DOMAIN bus :
       IsEvent(bus[i]) /\ IsEvent(bus[j]) /\ i < j => bus[i].token < bus[j].token
  /\ \A c \in Callers : Old(caller[c].replace)
  /\ \A token \in Nat : ToRemove(token) => Old(token)

\* The card may go: its track was given up, or has a later card.
Covered(token) ==
  \A row \in searches : row.token = token =>
    \/ row.track \in givenUp \cup {NoTrack}
    \/ \E other \in searches : other.track = row.track /\ other.token > token

RemovedIsCovered == \A token \in Nat : ToRemove(token) => Covered(token)

\* The card of a search is or was there, or its event comes before the n-th message.
Shown(token) == token \in Tokens \cup removed
Announced(token, n) ==
  \E j \in DOMAIN bus : j < n /\ IsEvent(bus[j]) /\ bus[j].token = token

ToldIsShown ==
  /\ \A i \in DOMAIN bus : bus[i].type = "StartSearchResult" =>
       \A token \in bus[i].result.started : Shown(token) \/ Announced(token, i)
  /\ \A c \in Callers : \A token \in caller[c].started : Shown(token)
  /\ \A c \in Callers :
       caller[c].pc = "waiting" /\ caller[c].cmd.type = "StartSearch"
         /\ caller[c].reply # <<>>
         => \A token \in Head(caller[c].reply).started : Shown(token)

\* A call that replaces a card by one search, once that search is sent for.
Replacing(c) ==
  /\ caller[c].pc = "waiting" /\ caller[c].cmd.type = "StartSearch"
  /\ caller[c].cmd.input = "plain" /\ caller[c].replace # 0

\* The search takes up the track of the card, and its event comes before its answer.
FollowsAt(c, i) ==
  IF bus[i].type = "StartSearch" THEN bus[i].jobs = caller[c].cmd.jobs
  ELSE \/ bus[i].result.error
       \/ Covered(caller[c].replace)
       \/ \E j \in DOMAIN bus :
             j < i /\ IsEvent(bus[j]) /\ bus[j].track = caller[c].cmd.jobs[1]

Followed(c) ==
  /\ Len(caller[c].cmd.jobs) = 1
  /\ \A row \in searches :
       row.token = caller[c].replace => row.track = caller[c].cmd.jobs[1]
  /\ caller[c].reply # <<>> => Head(caller[c].reply).error \/ Covered(caller[c].replace)
  /\ caller[c].reply = <<>> =>
       /\ \A i \in DOMAIN cmds :
            To(cmds[i], caller[c].corr) => cmds[i].jobs = caller[c].cmd.jobs
       /\ \A i \in DOMAIN bus : To(bus[i], caller[c].corr) => FollowsAt(c, i)

ReplacedIsFollowed == \A c \in Callers : Replacing(c) => Followed(c)

ListedIsShown == listed \ givenUp \subseteq TracksShown \cup {NoTrack}

CardsInv ==
  TokensRise /\ RemovedIsCovered /\ ToldIsShown /\ ReplacedIsFollowed /\ ListedIsShown

-----------------------------------------------------------------------------
(* What a step does to the bus, the commands and the calls.                  *)

\* The head of the bus is taken if d = 1, and the messages of r follow.
BusMoves(d, r) ==
  /\ d = 1 => bus # <<>>
  /\ \A i \in DOMAIN bus : i > d => i - d \in DOMAIN bus' /\ bus'[i - d] = bus[i]
  /\ \A i \in DOMAIN bus' :
       \/ i + d \in DOMAIN bus /\ bus'[i] = bus[i + d]
       \/ \E n \in DOMAIN r : i = Len(bus) - d + n /\ bus'[i] = r[n]

LEMMA BusAppends ==
  ASSUME bus \in Seq(Messages), NEW r \in Seq(Messages), bus' = bus \o r
  PROVE  BusMoves(0, r) /\ \A n \in DOMAIN r : Len(bus) + n \in DOMAIN bus'
                                               /\ bus'[Len(bus) + n] = r[n]
<1>1. /\ DOMAIN bus' = 1 .. Len(bus) + Len(r)
      /\ DOMAIN bus = 1 .. Len(bus) /\ DOMAIN r = 1 .. Len(r)
      /\ Len(bus) \in Nat /\ Len(r) \in Nat
      /\ \A i \in DOMAIN bus : i \in DOMAIN bus' /\ bus'[i] = bus[i]
      /\ \A i \in DOMAIN r : Len(bus) + i \in DOMAIN bus' /\ bus'[Len(bus) + i] = r[i]
      /\ \A i \in DOMAIN bus' : i \in DOMAIN bus \/ i - Len(bus) \in DOMAIN r
  BY Joined
<1>2. ASSUME NEW i \in DOMAIN bus', i \notin DOMAIN bus
      PROVE  \E n \in DOMAIN r : i = Len(bus) - 0 + n /\ bus'[i] = r[n]
  <2>1. PICK n \in DOMAIN r : n = i - Len(bus)
    BY <1>1, <1>2
  <2>2. i = Len(bus) + n
    BY <1>1, <2>1
  <2>3. bus'[i] = r[n] /\ i = Len(bus) - 0 + n
    BY <1>1, <2>2
  <2>4. QED
    BY <2>3
<1>3. \A i \in DOMAIN bus : i - 0 \in DOMAIN bus' /\ bus'[i - 0] = bus[i]
  BY <1>1
<1>4. \A i \in DOMAIN bus' : i \in DOMAIN bus => i + 0 \in DOMAIN bus /\ bus'[i] = bus[i + 0]
  BY <1>1
<1>5. BusMoves(0, r)
  BY <1>2, <1>3, <1>4 DEF BusMoves
<1>6. QED
  BY <1>1, <1>5

LEMMA BusTurns ==
  ASSUME bus \in Seq(Messages), bus # <<>>, NEW r \in Seq(Messages), bus' = Tail(bus) \o r
  PROVE  BusMoves(1, r) /\ \A n \in DOMAIN r : Len(bus) - 1 + n \in DOMAIN bus'
                                               /\ bus'[Len(bus) - 1 + n] = r[n]
<1>1. PICK q \in Seq(Messages) : q = Tail(bus)
  BY HeadTail
<1>2. /\ Len(bus) \in Nat \ {0} /\ DOMAIN bus = 1 .. Len(bus)
      /\ DOMAIN q = 1 .. Len(bus) - 1
      /\ \A i \in DOMAIN q : i + 1 \in DOMAIN bus /\ q[i] = bus[i + 1]
  BY <1>1, HeadTail
<1>3. Len(q) = Len(bus) - 1
  BY <1>1, <1>2
<1>4. /\ DOMAIN bus' = 1 .. Len(q) + Len(r)
      /\ DOMAIN r = 1 .. Len(r) /\ Len(r) \in Nat
      /\ \A i \in DOMAIN q : i \in DOMAIN bus' /\ bus'[i] = q[i]
      /\ \A i \in DOMAIN r : Len(q) + i \in DOMAIN bus' /\ bus'[Len(q) + i] = r[i]
      /\ \A i \in DOMAIN bus' : i \in DOMAIN q \/ i - Len(q) \in DOMAIN r
  BY <1>1, Joined
<1>5. ASSUME NEW i \in DOMAIN bus', i \notin DOMAIN q
      PROVE  \E n \in DOMAIN r : i = Len(bus) - 1 + n /\ bus'[i] = r[n]
  <2>1. PICK n \in DOMAIN r : n = i - Len(q)
    BY <1>4, <1>5
  <2>2. i = Len(q) + n
    BY <1>3, <1>4, <2>1
  <2>3. bus'[i] = r[n] /\ i = Len(bus) - 1 + n
    BY <1>3, <1>4, <2>2
  <2>4. QED
    BY <2>3
<1>6. \A i \in DOMAIN bus : i > 1 => i - 1 \in DOMAIN bus' /\ bus'[i - 1] = bus[i]
  BY <1>2, <1>4
<1>7. \A i \in DOMAIN bus' : i \in DOMAIN q => i + 1 \in DOMAIN bus /\ bus'[i] = bus[i + 1]
  BY <1>2, <1>4
<1>8. BusMoves(1, r)
  BY <1>5, <1>6, <1>7 DEF BusMoves
<1>9. QED
  BY <1>3, <1>4, <1>8

\* What may be new on the bus, and what is taken off it.
NewOnBus(d, r) ==
  /\ d = 1 => (IsEvent(Head(bus)) => SearchStarted)
  /\ \A n \in DOMAIN r :
       /\ IsEvent(r[n]) \/ r[n].type = "StartSearchResult" => StartSearch
       /\ r[n].type \in {"StartSearch", "RemoveSearch"} =>
            Forward /\ cmds # <<>> /\ r[n] = Head(cmds)

LEMMA BusStep ==
  ASSUME EntriesInv, [Next]_vars
  PROVE  \E d \in {0, 1} : \E r \in Seq(Messages) : BusMoves(d, r) /\ NewOnBus(d, r)
<1>1. QueuesType /\ CardsType /\ BrowsesType /\ bus \in Seq(Messages)
      /\ cmds \in Seq(CallCmds \cup RemoveCmds) /\ <<>> \in Seq(Messages)
  BY DEF EntriesInv, BridgeType, QueuesType
<1>2. CASE UNCHANGED bus
  <2>1. bus' = bus \o <<>>
    BY <1>1, <1>2
  <2>2. BusMoves(0, <<>>)
    BY <1>1, <2>1, BusAppends
  <2>3. NewOnBus(0, <<>>)
    BY DEF NewOnBus
  <2>4. QED
    BY <1>1, <2>2, <2>3
<1>3. ASSUME NEW m \in Messages, bus' = Append(bus, m),
             ~ IsEvent(m), m.type # "StartSearchResult",
             m.type \in {"StartSearch", "RemoveSearch"} =>
               Forward /\ cmds # <<>> /\ m = Head(cmds)
      PROVE  \E d \in {0, 1} : \E r \in Seq(Messages) : BusMoves(d, r) /\ NewOnBus(d, r)
  <2>1. <<m>> \in Seq(Messages)
    OBVIOUS
  <2> PICK r \in Seq(Messages) : r = <<m>>
    BY <2>1
  <2>2. bus' = bus \o r /\ DOMAIN r = {1} /\ r[1] = m
    BY <1>1, <1>3, Grown
  <2>3. BusMoves(0, r)
    BY <1>1, <2>2, BusAppends
  <2>4. NewOnBus(0, r)
    BY <1>3, <2>2 DEF NewOnBus
  <2>5. QED
    BY <2>3, <2>4
<1>4. ASSUME NEW m \in Messages, bus # <<>>, bus' = Tail(bus) \o <<m>>,
             ~ IsEvent(Head(bus)), ~ IsEvent(m),
             m.type \notin {"StartSearchResult", "StartSearch", "RemoveSearch"}
      PROVE  \E d \in {0, 1} : \E r \in Seq(Messages) : BusMoves(d, r) /\ NewOnBus(d, r)
  <2>1. <<m>> \in Seq(Messages)
    OBVIOUS
  <2> PICK r \in Seq(Messages) : r = <<m>>
    BY <2>1
  <2>2. bus' = Tail(bus) \o r /\ DOMAIN r = {1} /\ r[1] = m
    BY <1>4
  <2>3. BusMoves(1, r)
    BY <1>1, <1>4, <2>2, BusTurns
  <2>4. NewOnBus(1, r)
    BY <1>4, <2>2 DEF NewOnBus
  <2>5. QED
    BY <2>3, <2>4
<1>5. ASSUME bus # <<>>, bus' = Tail(bus), IsEvent(Head(bus)) => SearchStarted
      PROVE  \E d \in {0, 1} : \E r \in Seq(Messages) : BusMoves(d, r) /\ NewOnBus(d, r)
  <2>1. bus' = Tail(bus) \o <<>>
    BY <1>1, <1>5, NothingFollows
  <2>2. BusMoves(1, <<>>)
    BY <1>1, <1>5, <2>1, BusTurns
  <2>3. NewOnBus(1, <<>>)
    BY <1>5 DEF NewOnBus
  <2>4. QED
    BY <1>1, <2>2, <2>3
<1>6. CASE StartSearch
  <2>1. PICK m \in StartCmds, events \in Seq(Unaddressed), answer \in Messages :
          /\ bus # <<>> /\ m = Head(bus) /\ m.type = "StartSearch"
          /\ Len(events) \in Nat /\ DOMAIN events = 1 .. Len(events)
          /\ \A i \in 1 .. Len(events) :
               /\ events[i].type = "SearchStarted"
               /\ events[i].token = next_token + i - 1 /\ events[i].token \in Nat
               /\ events[i].track = m.jobs[i]
          /\ answer.type = "StartSearchResult"
          /\ bus' = Tail(bus) \o (events \o <<answer>>)
    BY <1>1, <1>6, StartSearchFacts, ZenonT(30)
  <2>2. PICK r : r = events \o <<answer>>
    OBVIOUS
  <2>3. events \in Seq(Messages) /\ <<answer>> \in Seq(Messages)
    BY NoCallClear
  <2>4. /\ r \in Seq(Messages)
        /\ \A n \in DOMAIN r : n \in DOMAIN events \/ n - Len(events) \in DOMAIN <<answer>>
        /\ \A n \in DOMAIN events : r[n] = events[n]
        /\ \A n \in DOMAIN <<answer>> : r[Len(events) + n] = <<answer>>[n]
    BY <2>2, <2>3, Joined
  <2>5. \A n \in DOMAIN r : r[n].type \in {"SearchStarted", "StartSearchResult"}
    <3> SUFFICES ASSUME NEW n \in DOMAIN r
                 PROVE  r[n].type \in {"SearchStarted", "StartSearchResult"}
      OBVIOUS
    <3>1. CASE n \in DOMAIN events
      BY <2>1, <2>4, <3>1
    <3>2. CASE n - Len(events) \in DOMAIN <<answer>>
      <4>1. n - Len(events) = 1
        BY <3>2
      <4>2. n \in Nat
        BY <2>4
      <4>3. n = Len(events) + 1
        BY <2>1, <4>1, <4>2
      <4>4. r[n] = answer
        BY <2>4, <4>3
      <4>5. QED
        BY <2>1, <4>4
    <3>3. QED
      BY <2>4, <3>1, <3>2
  <2>6. NewOnBus(1, r)
    BY <1>6, <2>1, <2>5 DEF NewOnBus, IsEvent
  <2>7. BusMoves(1, r)
    BY <1>1, <2>1, <2>2, <2>4, BusTurns
  <2>8. QED
    BY <2>4, <2>6, <2>7
<1>7. CASE BrowseUser
  <2>1. PICK m \in BrowseCmds, answer \in Messages :
          /\ bus # <<>> /\ m = Head(bus) /\ m.type = "BrowseUser"
          /\ answer.type = "BrowseAccepted"
          /\ bus' = Tail(bus) \o <<answer>>
    BY <1>1, <1>7, BrowseUserFacts
  <2>2. QED
    BY <1>4, <2>1 DEF IsEvent
<1>8. CASE GetPeerAddress
  <2>1. PICK u \in Users, next \in Unaddressed :
          /\ bus # <<>> /\ Head(bus).type = "GetPeerAddress"
          /\ next.type \in {"BrowseFailed", "PeerBrowseConnect"}
          /\ bus' = IF u \notin pending_browses THEN Tail(bus) ELSE Tail(bus) \o <<next>>
    BY <1>1, <1>8, GetPeerAddressFacts
  <2>2. CASE bus' = Tail(bus)
    BY <1>5, <2>1, <2>2 DEF IsEvent
  <2>3. CASE bus' = Tail(bus) \o <<next>>
    <3>1. next \in Messages
      BY DEF Messages
    <3>2. QED
      BY <1>4, <2>1, <2>3, <3>1 DEF IsEvent
  <2>4. QED
    BY <2>1, <2>2, <2>3
<1>9. CASE SearchStarted \/ RemoveSearch \/ PeerBrowseConnect \/ BrowseEnded \/ TakeResult
  <2>1. /\ bus # <<>> /\ bus' = Tail(bus)
        /\ SearchStarted \/ Head(bus).type # "SearchStarted"
    BY <1>9 DEF SearchStarted, RemoveSearch, PeerBrowseConnect, BrowseEnded, TakeResult, Arrived
  <2>2. QED
    BY <1>5, <2>1 DEF IsEvent
<1>10. CASE Forward
  <2>1. PICK m \in CallCmds \cup RemoveCmds : m = Head(cmds) /\ cmds # <<>>
    BY <1>1, <1>10, HeadTail DEF Forward
  <2>2. CASE m.type = "Extract"
    BY <1>2, <1>10, <2>1, <2>2 DEF Forward
  <2>3. CASE m.type # "Extract"
    <3>1. bus' = Append(bus, m)
      BY <1>10, <2>1, <2>3 DEF Forward
    <3>2. m \in Messages
      <4>1. m \in ExtractCmds => m.type = "Extract"
        BY DEF ExtractCmds
      <4>2. QED
        BY <2>3, <4>1 DEF CallCmds, Messages, Addressed
    <3>3. m.type \in {"Extract", "StartSearch", "BrowseUser", "RemoveSearch"}
      BY CallKinds
    <3>4. QED
      BY <1>3, <1>10, <2>1, <3>1, <3>2, <3>3 DEF IsEvent
  <2>4. QED
    BY <2>2, <2>3
<1>11. CASE Extract
  <2>1. PICK answer \in Messages : bus' = Append(bus, answer) /\ answer.type = "ExtractResult"
    BY <1>1, <1>11, ExtractFacts
  <2>2. QED
    BY <1>3, <2>1 DEF IsEvent
<1>12. CASE ServerAnswers
  <2>1. PICK offline \in BOOLEAN :
          bus' = Append(bus, [type |-> "GetPeerAddress", user |-> Head(lookups),
                              offline |-> offline])
    BY <1>12 DEF ServerAnswers
  <2>2. Head(lookups) \in Users
    BY <1>1, <1>12, HeadTail DEF ServerAnswers, BrowsesType
  <2>3. PICK m : m = [type |-> "GetPeerAddress", user |-> Head(lookups), offline |-> offline]
    OBVIOUS
  <2>4. m \in Messages /\ m.type = "GetPeerAddress" /\ bus' = Append(bus, m)
    BY <2>1, <2>2, <2>3 DEF Messages, Unaddressed
  <2>5. QED
    BY <1>3, <2>4 DEF IsEvent
<1>13. CASE \E v \in Users : BrowseTask(v)
  <2>1. PICK v \in Users, type \in {"BrowseListing", "BrowseFailed"} :
          bus' = bus \o << [type |-> type, user |-> v] >>
    BY <1>13 DEF BrowseTask, Outcomes
  <2>2. PICK m : m = [type |-> type, user |-> v]
    OBVIOUS
  <2>3. m \in Messages /\ m.type \in {"BrowseListing", "BrowseFailed"}
    BY <2>2 DEF Messages, Unaddressed
  <2>4. bus' = Append(bus, m)
    BY <1>1, <2>1, <2>2, <2>3
  <2>5. QED
    BY <1>3, <2>3, <2>4 DEF IsEvent
<1>14. CASE \/ \E c \in Callers : Call(c) \/ Wake(c) \/ TimeOut(c) \/ GoAway(c)
            \/ \E token \in Tokens : RemoveCard(token)
            \/ LogIn \/ LinkLost \/ UNCHANGED vars
  <2>1. UNCHANGED bus
    BY <1>14 DEF Call, Wake, Search, Browse, Withdraw, Extracted, Started, Answered, TimeOut,
                 GoAway, RemoveCard, LogIn, LinkLost, vars
  <2>2. QED
    BY <1>2, <2>1
<1>15. QED
  BY <1>6, <1>7, <1>8, <1>9, <1>10, <1>11, <1>12, <1>13, <1>14 DEF Next, CoreWorker

\* The events of a StartSearch come before its answer.
LEMMA StartMoves ==
  ASSUME EntriesInv, StartSearch
  PROVE  \E m \in StartCmds, events \in Seq(Unaddressed), answer \in Messages :
         \E r \in Seq(Messages) :
           /\ bus # <<>> /\ m = Head(bus) /\ m.type = "StartSearch" /\ m.jobs \in Seq(Tracks)
           /\ Len(events) \in Nat
           /\ Len(events) = (IF logged_in THEN Len(m.jobs) ELSE 0)
           /\ \A i \in 1 .. Len(events) :
                /\ r[i].type = "SearchStarted"
                /\ r[i].token = next_token + i - 1 /\ r[i].token \in Nat
                /\ r[i].track = m.jobs[i]
           /\ answer.type = "StartSearchResult" /\ "corr" \in DOMAIN answer
           /\ answer.corr = m.corr /\ answer.result.error = ~ logged_in
           /\ answer.result.started = {r[i].token : i \in 1 .. Len(events)}
           /\ next_token' = next_token + Len(events)
           /\ BusMoves(1, r)
           /\ DOMAIN r = 1 .. Len(events) + 1 /\ r[Len(events) + 1] = answer
           /\ \A n \in DOMAIN r : Len(bus) - 1 + n \in DOMAIN bus'
                                  /\ bus'[Len(bus) - 1 + n] = r[n]
<1>1. QueuesType /\ CardsType /\ bus \in Seq(Messages)
  BY DEF EntriesInv, BridgeType, QueuesType
<1>2. PICK m \in StartCmds, events \in Seq(Unaddressed), answer \in Messages :
        /\ bus # <<>> /\ m = Head(bus) /\ m.type = "StartSearch" /\ m.jobs \in Seq(Tracks)
        /\ Len(events) \in Nat /\ DOMAIN events = 1 .. Len(events)
        /\ Len(events) = (IF logged_in THEN Len(m.jobs) ELSE 0)
        /\ \A i \in 1 .. Len(events) :
             /\ events[i].type = "SearchStarted"
             /\ events[i].token = next_token + i - 1 /\ events[i].token \in Nat
             /\ events[i].track = m.jobs[i]
        /\ answer.type = "StartSearchResult" /\ "corr" \in DOMAIN answer
        /\ answer.corr = m.corr /\ answer.result.error = ~ logged_in
        /\ answer.result.started = {events[i].token : i \in 1 .. Len(events)}
        /\ bus' = Tail(bus) \o (events \o <<answer>>)
        /\ next_token' = next_token + Len(events)
  BY <1>1, StartSearchFacts
<1>3. events \in Seq(Messages) /\ <<answer>> \in Seq(Messages)
  BY NoCallClear
<1>4. PICK r : r = events \o <<answer>>
  OBVIOUS
<1>5. /\ r \in Seq(Messages)
      /\ DOMAIN r = 1 .. Len(events) + 1
      /\ \A i \in 1 .. Len(events) : r[i] = events[i]
      /\ r[Len(events) + 1] = answer
  <2>1. Len(<<answer>>) = 1 /\ 1 \in DOMAIN <<answer>> /\ <<answer>>[1] = answer
    OBVIOUS
  <2>2. /\ r \in Seq(Messages) /\ DOMAIN r = 1 .. Len(events) + Len(<<answer>>)
        /\ \A n \in DOMAIN events : r[n] = events[n]
        /\ \A n \in DOMAIN <<answer>> : r[Len(events) + n] = <<answer>>[n]
    BY <1>3, <1>4, Joined
  <2>3. QED
    BY <1>2, <2>1, <2>2
<1>6. BusMoves(1, r) /\ \A n \in DOMAIN r : Len(bus) - 1 + n \in DOMAIN bus'
                                            /\ bus'[Len(bus) - 1 + n] = r[n]
  BY <1>1, <1>2, <1>4, <1>5, BusTurns
<1>7. \A i \in 1 .. Len(events) :
        /\ r[i].type = "SearchStarted"
        /\ r[i].token = next_token + i - 1 /\ r[i].token \in Nat
        /\ r[i].track = m.jobs[i]
  BY <1>2, <1>5
<1>8. answer.result.started = {r[i].token : i \in 1 .. Len(events)}
  <2>1. {events[i].token : i \in 1 .. Len(events)} = {r[i].token : i \in 1 .. Len(events)}
    BY <1>5
  <2>2. QED
    BY <1>2, <2>1
<1>9. /\ bus # <<>> /\ m = Head(bus) /\ m.type = "StartSearch" /\ m.jobs \in Seq(Tracks)
      /\ Len(events) \in Nat
      /\ Len(events) = (IF logged_in THEN Len(m.jobs) ELSE 0)
      /\ answer.type = "StartSearchResult" /\ "corr" \in DOMAIN answer
      /\ answer.corr = m.corr /\ answer.result.error = ~ logged_in
      /\ next_token' = next_token + Len(events)
  BY <1>2
<1>10. r \in Seq(Messages) /\ DOMAIN r = 1 .. Len(events) + 1 /\ r[Len(events) + 1] = answer
  BY <1>5
<1>11. QED
  BY <1>6, <1>7, <1>8, <1>9, <1>10, ZenonT(30)

\* What a step does to a call: nothing, it ends, a command is sent, or its answer is taken.
Ends(c) ==
  /\ caller'[c].pc # "waiting" /\ caller'[c].replace \in {0, caller[c].replace}
  /\ \/ caller'[c].started \in {{}, caller[c].started}
     \/ Started(c) /\ caller'[c].started = Reply(c).started

Sends(c) ==
  /\ caller'[c].pc = "waiting" /\ caller'[c].corr = corr + 1 /\ caller'[c].reply = <<>>
  /\ caller'[c].started = {} /\ caller'[c].replace \in {0, caller[c].replace} \cup Tokens
  /\ caller'[c].cmd \in CallCmds
  /\ cmds' = Append(cmds, [caller'[c].cmd EXCEPT !.corr = corr + 1])
  /\ UNCHANGED <<bus, searches, givenUp>>
  /\ caller'[c].cmd.type = "StartSearch" =>
       /\ caller'[c].replace = caller[c].replace
       /\ \E found \in Seq({1, 2}) :
             /\ caller'[c].cmd.jobs = Jobs(c, found)
             /\ caller'[c].cmd.input = caller[c].cmd.input

TakesAnswer(c) ==
  /\ TakeResult /\ To(Head(bus), caller[c].corr)
  /\ caller[c].pc = "waiting" /\ caller[c].reply = <<>>
  /\ caller'[c] = [caller[c] EXCEPT !.reply = <<Head(bus).result>>]

LEMMA SendStep ==
  ASSUME EntriesInv, NEW c \in Callers,
         Search(c) \/ Browse(c) \/ (Extracted(c) /\ ~ Reply(c).error)
  PROVE  Sends(c) /\ \A d \in Callers : d # c => caller'[d] = caller[d]
<1>1. EntriesType /\ CardsType
  BY DEF EntriesInv, BridgeType
<1>2. ASSUME NEW cmd \in CallCmds, NEW replace \in Nat,
             RoundTrip(c, cmd, replace), replace \in {0, caller[c].replace} \cup Tokens,
             UNCHANGED <<bus, searches, givenUp>>,
             cmd.type = "StartSearch" =>
               /\ replace = caller[c].replace
               /\ \E found \in Seq({1, 2}) :
                     cmd.jobs = Jobs(c, found) /\ cmd.input = caller[c].cmd.input
      PROVE  Sends(c) /\ \A d \in Callers : d # c => caller'[d] = caller[d]
  <2>1. /\ caller'[c].pc = "waiting" /\ caller'[c].corr = corr + 1 /\ caller'[c].cmd = cmd
        /\ caller'[c].reply = <<>> /\ caller'[c].replace = replace /\ caller'[c].started = {}
        /\ \A d \in Callers : d # c => caller'[d] = caller[d]
        /\ cmds' = Append(cmds, [cmd EXCEPT !.corr = corr + 1])
    BY <1>1, <1>2, RoundTripFacts
  <2>2. Sends(c)
    BY <1>2, <2>1 DEF Sends
  <2>3. QED
    BY <2>1, <2>2
<1>3. CASE Search(c)
  <2>1. PICK input \in {"plain", "list"}, replace \in {0} \cup Tokens :
          RoundTrip(c, [type |-> "Extract", corr |-> 0, input |-> input], replace)
    BY <1>3 DEF Search
  <2>2. PICK cmd : cmd = [type |-> "Extract", corr |-> 0, input |-> input]
    OBVIOUS
  <2>3. cmd \in CallCmds /\ cmd.type = "Extract" /\ replace \in Nat
    BY <1>1, <2>2 DEF CallCmds, ExtractCmds, Inputs, CardsType, Tokens
  <2>4. RoundTrip(c, cmd, replace) /\ UNCHANGED <<bus, searches, givenUp>>
    BY <1>3, <2>1, <2>2 DEF Search, cardVars
  <2>5. QED
    BY <1>2, <2>3, <2>4
<1>4. CASE Browse(c)
  <2>1. PICK u \in Users \cup {Nobody} :
          RoundTrip(c, [type |-> "BrowseUser", corr |-> 0, user |-> u], 0)
    BY <1>4 DEF Browse
  <2>2. PICK cmd : cmd = [type |-> "BrowseUser", corr |-> 0, user |-> u]
    OBVIOUS
  <2>3. cmd \in CallCmds /\ cmd.type = "BrowseUser"
    BY <2>2 DEF CallCmds, BrowseCmds
  <2>4. RoundTrip(c, cmd, 0) /\ UNCHANGED <<bus, searches, givenUp>>
    BY <1>4, <2>1, <2>2 DEF Browse, cardVars
  <2>5. QED
    BY <1>2, <2>3, <2>4
<1>5. CASE Extracted(c) /\ ~ Reply(c).error
  <2>1. PICK cmd \in StartCmds :
          /\ cmd.input = caller[c].cmd.input /\ cmd.jobs = Jobs(c, Reply(c).found)
          /\ Reply(c).found \in Seq({1, 2}) /\ caller[c].replace \in Nat
          /\ RoundTrip(c, cmd, caller[c].replace)
    BY <1>5, ExtractedFacts
  <2>2. cmd \in CallCmds /\ UNCHANGED <<bus, searches, givenUp>>
    BY <1>5 DEF CallCmds, Extracted, cardVars
  <2>3. QED
    BY <1>2, <2>1, <2>2
<1>6. QED
  BY <1>3, <1>4, <1>5

LEMMA CallerStep ==
  ASSUME EntriesInv, [Next]_vars, NEW d \in Callers
  PROVE  caller'[d] = caller[d] \/ Ends(d) \/ Sends(d) \/ TakesAnswer(d)
<1>1. EntriesType /\ QueuesType /\ CallersFit /\ CardsType
  BY DEF EntriesInv, BridgeType
<1>2. ASSUME NEW c \in Callers, Search(c) \/ Browse(c)
      PROVE  caller'[d] = caller[d] \/ Sends(d)
  BY <1>2, SendStep
<1>3. ASSUME NEW c \in Callers, NEW started \in SUBSET Nat, Return(c, started),
             started = {} \/ (Started(c) /\ started = Reply(c).started)
      PROVE  caller'[d] = caller[d] \/ Ends(d)
  <2>1. /\ caller'[c].pc = "over" /\ caller'[c].replace = 0 /\ caller'[c].started = started
        /\ \A e \in Callers : e # c => caller'[e] = caller[e]
    BY <1>1, <1>3, ReturnFacts
  <2>2. Ends(c)
    BY <1>3, <2>1 DEF Ends
  <2>3. QED
    BY <2>1, <2>2
<1>4. ASSUME NEW c \in Callers, TimeOut(c)
      PROVE  caller'[d] = caller[d] \/ Ends(d)
  <2>1. /\ caller'[c].pc = "expiring"
        /\ caller'[c].replace = caller[c].replace /\ caller'[c].started = caller[c].started
        /\ \A e \in Callers : e # c => caller'[e] = caller[e]
    BY <1>1, <1>4, TimeOutFacts
  <2>2. QED
    BY <2>1 DEF Ends
<1>5. ASSUME NEW c \in Callers, Withdraw(c) \/ GoAway(c) \/ Answered(c)
      PROVE  caller'[d] = caller[d] \/ Ends(d)
  BY <1>3, <1>5 DEF Withdraw, GoAway, Answered
<1>6. ASSUME NEW c \in Callers, Extracted(c)
      PROVE  caller'[d] = caller[d] \/ Ends(d) \/ Sends(d)
  <2>1. CASE Reply(c).error
    BY <1>3, <1>6, <2>1 DEF Extracted
  <2>2. CASE ~ Reply(c).error
    BY <1>6, <2>2, SendStep
  <2>3. QED
    BY <2>1, <2>2
<1>7. ASSUME NEW c \in Callers, Started(c)
      PROVE  caller'[d] = caller[d] \/ Ends(d)
  <2>1. Reply(c) \in StartRes
    BY <1>7, ReplyFacts DEF Started, CallTypes, ResultOf
  <2>2. PICK started \in SUBSET Nat : started = Reply(c).started
    BY <2>1 DEF StartRes
  <2>3. Return(c, started)
    BY <1>7, <2>2 DEF Started
  <2>4. QED
    BY <1>3, <1>7, <2>2, <2>3
<1>8. CASE TakeResult
  <2>1. PICK m \in Messages : m = Head(bus) /\ bus # <<>>
    BY <1>1, <1>8, HeadTail DEF TakeResult, QueuesType
  <2>2. m \in Addressed /\ m.type \in {"ExtractResult", "StartSearchResult", "BrowseAccepted"}
    BY <1>8, <2>1, MessageKinds DEF TakeResult
  <2>3. To(m, m.corr) /\ m.result \in ExtractRes \cup StartRes \cup BrowseRes
    BY <2>2, AddressedKinds DEF To
  <2>4. Complete(m) /\ corr' = corr
    BY <1>8, <2>1 DEF TakeResult
  <2>5. \/ caller'[d] = caller[d]
        \/ /\ m.corr \in DOMAIN pending
           /\ caller[d].pc = "waiting" /\ caller[d].corr = m.corr
           /\ caller'[d] = [caller[d] EXCEPT !.reply = <<m.result>>]
    BY <1>1, <2>3, <2>4, CompleteFacts
  <2>6. caller[d].pc = "waiting" /\ caller[d].corr \in DOMAIN pending => caller[d].reply = <<>>
    BY <1>1 DEF CallersFit, CallerFits
  <2>7. QED
    BY <1>8, <2>1, <2>3, <2>5, <2>6 DEF TakesAnswer
<1>9. CASE \/ \E token \in Tokens : RemoveCard(token)
           \/ Forward \/ Extract \/ StartSearch \/ SearchStarted \/ RemoveSearch
           \/ BrowseUser \/ GetPeerAddress \/ PeerBrowseConnect \/ BrowseEnded
           \/ LogIn \/ LinkLost \/ ServerAnswers \/ (\E u \in Users : BrowseTask(u))
           \/ UNCHANGED vars
  BY <1>9 DEF RemoveCard, Forward, Extract, StartSearch, SearchStarted, RemoveSearch,
              BrowseUser, GetPeerAddress, PeerBrowseConnect, BrowseEnded, LogIn, LinkLost,
              ServerAnswers, BrowseTask, vars, callVars
<1>10. CASE \E c \in Callers : Call(c) \/ Wake(c) \/ TimeOut(c) \/ GoAway(c)
  BY <1>2, <1>4, <1>5, <1>6, <1>7, <1>10 DEF Call, Wake
<1>11. QED
  BY <1>8, <1>9, <1>10 DEF Next, CoreWorker

\* What a step adds to the commands: one under the next correlation, or the removal of a card.
RemovalWanted(token) ==
  \/ \E c \in Callers : Started(c) /\ Replaces(c) /\ token = caller[c].replace
  \/ token \in Tokens /\ RemoveCard(token)

LEMMA CmdsStep ==
  ASSUME EntriesInv, [Next]_vars
  PROVE  \A i \in DOMAIN cmds' :
           \/ \E j \in DOMAIN cmds : cmds'[i] = cmds[j]
           \/ /\ cmds'[i].type # "RemoveSearch"
              /\ \A k : To(cmds'[i], k) => k = corr + 1
              /\ \E c \in Callers : Sends(c) /\ cmds'[i] = [caller'[c].cmd EXCEPT !.corr = corr + 1]
           \/ /\ cmds'[i].type = "RemoveSearch" /\ \A k \in Nat \ {0} : ~ To(cmds'[i], k)
              /\ RemovalWanted(cmds'[i].token)
<1>1. cmds \in Seq(CallCmds \cup RemoveCmds) /\ CardsType /\ corr \in Nat
  BY DEF EntriesInv, BridgeType, QueuesType, EntriesType
<1>2. CASE UNCHANGED cmds
  BY <1>2
<1>3. CASE Forward
  <2>1. cmds # <<>> /\ cmds' = Tail(cmds)
    BY <1>3 DEF Forward
  <2>2. \A i \in DOMAIN cmds' : i + 1 \in DOMAIN cmds /\ cmds'[i] = cmds[i + 1]
    BY <1>1, <2>1, HeadTail
  <2>3. QED
    BY <2>2
<1>4. ASSUME NEW m, cmds' = Append(cmds, m)
      PROVE  \A i \in DOMAIN cmds' : cmds'[i] = m \/ \E j \in DOMAIN cmds : cmds'[i] = cmds[j]
  <2>1. \A i \in DOMAIN cmds' : cmds'[i] = m \/ (i \in DOMAIN cmds /\ cmds'[i] = cmds[i])
    BY <1>1, <1>4
  <2>2. QED
    BY <2>1
<1>5. ASSUME NEW c \in Callers, Sends(c)
      PROVE  \A i \in DOMAIN cmds' :
               \/ \E j \in DOMAIN cmds : cmds'[i] = cmds[j]
               \/ /\ cmds'[i].type # "RemoveSearch"
                  /\ \A k : To(cmds'[i], k) => k = corr + 1
                  /\ \E d \in Callers :
                       Sends(d) /\ cmds'[i] = [caller'[d].cmd EXCEPT !.corr = corr + 1]
  <2>1. /\ caller'[c].cmd \in CallCmds
        /\ cmds' = Append(cmds, [caller'[c].cmd EXCEPT !.corr = corr + 1])
    BY <1>5 DEF Sends
  <2>2. PICK cmd \in CallCmds : cmd = caller'[c].cmd
    BY <2>1
  <2>3. PICK next \in Nat : next = corr + 1
    BY <1>1
  <2> PICK m : m = [cmd EXCEPT !.corr = next]
    OBVIOUS
  <2>4. m \in CallCmds /\ \A k : To(m, k) => k = corr + 1
    BY <2>3, Stamped
  <2>5. m.type # "RemoveSearch"
    BY <2>4 DEF CallCmds, ExtractCmds, StartCmds, BrowseCmds
  <2>6. \A i \in DOMAIN cmds' : cmds'[i] = m \/ \E j \in DOMAIN cmds : cmds'[i] = cmds[j]
    BY <1>4, <2>1, <2>2, <2>3
  <2>7. \E d \in Callers : Sends(d) /\ m = [caller'[d].cmd EXCEPT !.corr = corr + 1]
    BY <1>5, <2>2, <2>3
  <2>8. QED
    BY <2>4, <2>5, <2>6, <2>7
<1>6. ASSUME NEW token, RemovalWanted(token),
             cmds' = Append(cmds, [type |-> "RemoveSearch", corr |-> 0, token |-> token])
      PROVE  \A i \in DOMAIN cmds' :
               \/ \E j \in DOMAIN cmds : cmds'[i] = cmds[j]
               \/ /\ cmds'[i].type = "RemoveSearch" /\ \A k \in Nat \ {0} : ~ To(cmds'[i], k)
                  /\ RemovalWanted(cmds'[i].token)
  <2>1. PICK m : m = [type |-> "RemoveSearch", corr |-> 0, token |-> token]
    OBVIOUS
  <2>2. m.type = "RemoveSearch" /\ m.token = token /\ \A k \in Nat \ {0} : ~ To(m, k)
    BY <2>1 DEF To
  <2>3. \A i \in DOMAIN cmds' : cmds'[i] = m \/ \E j \in DOMAIN cmds : cmds'[i] = cmds[j]
    BY <1>4, <1>6, <2>1
  <2>4. QED
    BY <1>6, <2>2, <2>3
<1>7. CASE \E c \in Callers : Search(c) \/ Browse(c) \/ (Extracted(c) /\ ~ Reply(c).error)
  BY <1>5, <1>7, SendStep
<1>8. CASE \E c \in Callers : Started(c)
  <2>1. PICK c \in Callers : Started(c)
    BY <1>8
  <2>2. CASE Replaces(c)
    <3>1. cmds' = Append(cmds, [type |-> "RemoveSearch", corr |-> 0,
                                token |-> caller[c].replace])
      BY <2>1, <2>2 DEF Started
    <3>2. RemovalWanted(caller[c].replace)
      BY <2>1, <2>2 DEF RemovalWanted
    <3>3. QED
      BY <1>6, <3>1, <3>2
  <2>3. CASE ~ Replaces(c)
    BY <1>2, <2>1, <2>3 DEF Started
  <2>4. QED
    BY <2>2, <2>3
<1>9. CASE \E token \in Tokens : RemoveCard(token)
  <2>1. PICK token \in Tokens : RemoveCard(token)
    BY <1>9
  <2>2. RemovalWanted(token)
        /\ cmds' = Append(cmds, [type |-> "RemoveSearch", corr |-> 0, token |-> token])
    BY <2>1 DEF RemovalWanted, RemoveCard
  <2>3. QED
    BY <1>6, <2>2
<1>10. CASE \/ \E c \in Callers : \/ Withdraw(c) \/ Answered(c) \/ TimeOut(c) \/ GoAway(c)
                                  \/ (Extracted(c) /\ Reply(c).error)
            \/ Extract \/ StartSearch \/ SearchStarted \/ RemoveSearch
            \/ BrowseUser \/ GetPeerAddress \/ PeerBrowseConnect \/ BrowseEnded \/ TakeResult
            \/ LogIn \/ LinkLost \/ ServerAnswers \/ (\E u \in Users : BrowseTask(u))
            \/ UNCHANGED vars
  <2>1. UNCHANGED cmds
    BY <1>10 DEF Withdraw, Answered, TimeOut, GoAway, Extracted, Extract, StartSearch,
                 SearchStarted, RemoveSearch, BrowseUser, GetPeerAddress, PeerBrowseConnect,
                 BrowseEnded, TakeResult, LogIn, LinkLost, ServerAnswers, BrowseTask, vars
  <2>2. QED
    BY <1>2, <2>1
<1>11. QED
  BY <1>3, <1>7, <1>8, <1>9, <1>10 DEF Next, CoreWorker, Call, Wake

\* The removals that are asked for after a step.
LEMMA RemovalStep ==
  ASSUME EntriesInv, [Next]_vars, NEW token, ToRemove(token)'
  PROVE  ToRemove(token) \/ RemovalWanted(token)
<1>1. CASE RemovalOf(cmds, token)'
  <2>1. PICK i \in DOMAIN cmds' : cmds'[i].type = "RemoveSearch" /\ cmds'[i].token = token
    BY <1>1 DEF RemovalOf
  <2>2. \/ \E j \in DOMAIN cmds : cmds'[i] = cmds[j]
        \/ RemovalWanted(cmds'[i].token)
    BY <2>1, CmdsStep
  <2>3. QED
    BY <2>1, <2>2 DEF ToRemove, RemovalOf
<1>2. CASE RemovalOf(bus, token)'
  <2>1. PICK i \in DOMAIN bus' : bus'[i].type = "RemoveSearch" /\ bus'[i].token = token
    BY <1>2 DEF RemovalOf
  <2>2. PICK d \in {0, 1} : \E r \in Seq(Messages) : BusMoves(d, r) /\ NewOnBus(d, r)
    BY BusStep
  <2>3. PICK r \in Seq(Messages) : BusMoves(d, r) /\ NewOnBus(d, r)
    BY <2>2
  <2>4. \/ \E j \in DOMAIN bus : bus'[i] = bus[j]
        \/ \E n \in DOMAIN r : bus'[i] = r[n]
    BY <2>1, <2>3 DEF BusMoves
  <2>5. CASE \E j \in DOMAIN bus : bus'[i] = bus[j]
    BY <2>1, <2>5 DEF ToRemove, RemovalOf
  <2>6. CASE \E n \in DOMAIN r : bus'[i] = r[n]
    <3>1. cmds # <<>> /\ bus'[i] = Head(cmds)
      BY <2>1, <2>3, <2>6 DEF NewOnBus
    <3>2. 1 \in DOMAIN cmds /\ Head(cmds) = cmds[1]
      BY <3>1, HeadTail DEF EntriesInv, BridgeType, QueuesType
    <3>3. QED
      BY <2>1, <3>1, <3>2 DEF ToRemove, RemovalOf
  <2>7. QED
    BY <2>4, <2>5, <2>6
<1>3. QED
  BY <1>1, <1>2 DEF ToRemove

-----------------------------------------------------------------------------
(* Tokens rise.                                                              *)

LEMMA CardSteps ==
  ASSUME [Next]_vars
  PROVE  /\ UNCHANGED <<searches, listed, removed>> \/ SearchStarted \/ RemoveSearch
         /\ givenUp \subseteq givenUp'
         /\ next_token' = next_token \/ StartSearch
<1>1. CASE \E c \in Callers : Call(c) \/ Wake(c) \/ TimeOut(c) \/ GoAway(c)
  <2>1. PICK c \in Callers : Call(c) \/ Wake(c) \/ TimeOut(c) \/ GoAway(c)
    BY <1>1
  <2>2. CASE Started(c)
    <3>1. UNCHANGED <<searches, listed, removed, next_token>>
      BY <2>2 DEF Started, sessionVars
    <3>2. givenUp \subseteq givenUp'
      BY <2>2 DEF Started
    <3>3. QED
      BY <3>1, <3>2
  <2>3. CASE ~ Started(c)
    BY <2>1, <2>3 DEF Call, Wake, Search, Browse, Withdraw, Extracted, Answered, TimeOut,
                      GoAway, sessionVars, cardVars
  <2>4. QED
    BY <2>2, <2>3
<1>2. CASE \E token \in Tokens : RemoveCard(token)
  BY <1>2 DEF RemoveCard, sessionVars
<1>3. CASE StartSearch
  BY <1>3 DEF StartSearch, cardVars
<1>4. CASE SearchStarted
  BY <1>4 DEF SearchStarted, sessionVars
<1>5. CASE RemoveSearch
  BY <1>5 DEF RemoveSearch, sessionVars
<1>6. CASE \/ BrowseUser \/ GetPeerAddress \/ PeerBrowseConnect \/ BrowseEnded \/ TakeResult
           \/ Forward \/ Extract \/ LogIn \/ LinkLost \/ ServerAnswers
           \/ (\E u \in Users : BrowseTask(u)) \/ UNCHANGED vars
  BY <1>6 DEF BrowseUser, GetPeerAddress, PeerBrowseConnect, BrowseEnded, TakeResult, Forward,
              Extract, LogIn, LinkLost, ServerAnswers, BrowseTask, vars, sessionVars, cardVars
<1>7. QED
  BY <1>1, <1>2, <1>3, <1>4, <1>5, <1>6 DEF Next, CoreWorker

\* The card of an event, and the card that goes.
LEMMA SearchStartedFacts ==
  ASSUME EntriesInv, SearchStarted
  PROVE  \E row \in [token : Nat, track : Tracks] :
           /\ 1 \in DOMAIN bus /\ IsEvent(bus[1])
           /\ row.token = bus[1].token /\ row.track = bus[1].track
           /\ searches' = searches \cup {row} /\ listed' = listed \cup {row.track}
           /\ removed' = removed /\ givenUp' = givenUp /\ next_token' = next_token
           /\ BusMoves(1, <<>>)
<1>1. QueuesType /\ bus \in Seq(Messages) /\ bus # <<>> /\ Head(bus).type = "SearchStarted"
  BY DEF EntriesInv, BridgeType, QueuesType, SearchStarted, Arrived
<1>2. 1 \in DOMAIN bus /\ Head(bus) = bus[1]
  BY <1>1, HeadTail
<1>3. Head(bus).token \in Nat /\ Head(bus).track \in Tracks
  BY <1>1, HeadOfNoCall
<1>4. PICK row : row = [token |-> Head(bus).token, track |-> Head(bus).track]
  OBVIOUS
<1>5. row \in [token : Nat, track : Tracks] /\ row.token = bus[1].token
      /\ row.track = bus[1].track
  BY <1>2, <1>3, <1>4
<1>6. /\ searches' = searches \cup {row} /\ listed' = listed \cup {row.track}
      /\ removed' = removed /\ givenUp' = givenUp /\ next_token' = next_token
  BY <1>2, <1>4, <1>5 DEF SearchStarted, sessionVars
<1>7. BusMoves(1, <<>>)
  <2>1. bus' = Tail(bus) \o <<>> /\ <<>> \in Seq(Messages)
    BY <1>1, NothingFollows DEF SearchStarted
  <2>2. QED
    BY <1>1, <2>1, BusTurns
<1>8. IsEvent(bus[1])
  BY <1>1, <1>2 DEF IsEvent
<1>9. QED
  BY <1>2, <1>5, <1>6, <1>7, <1>8

LEMMA RemoveSearchFacts ==
  ASSUME EntriesInv, RemoveSearch
  PROVE  \E token \in Nat :
           /\ ToRemove(token)
           /\ searches' = {row \in searches : row.token # token}
           /\ removed' = removed \cup {token}
           /\ listed' = listed /\ givenUp' = givenUp /\ next_token' = next_token
<1>1. QueuesType /\ bus \in Seq(Messages) /\ bus # <<>> /\ Head(bus).type = "RemoveSearch"
  BY DEF EntriesInv, BridgeType, QueuesType, RemoveSearch, Arrived
<1>2. 1 \in DOMAIN bus /\ Head(bus) = bus[1]
  BY <1>1, HeadTail
<1>3. PICK token \in Nat : token = Head(bus).token
  BY <1>1, HeadOfNoCall
<1>4. ToRemove(token)
  BY <1>1, <1>2, <1>3 DEF ToRemove, RemovalOf
<1>5. QED
  BY <1>3, <1>4 DEF RemoveSearch, sessionVars

LEMMA EventKinds ==
  ASSUME EntriesInv
  PROVE  /\ \A i \in DOMAIN bus : i \in Nat \ {0} /\ bus[i] \in Messages
         /\ \A i \in DOMAIN bus : IsEvent(bus[i]) => bus[i].token \in Nat
         /\ next_token \in Nat /\ Len(bus) \in Nat /\ DOMAIN bus = 1 .. Len(bus)
         /\ \A row \in searches : row.token \in Nat
<1>1. bus \in Seq(Messages) /\ CardsType
  BY DEF EntriesInv, BridgeType, QueuesType
<1>2. Len(bus) \in Nat /\ DOMAIN bus = 1 .. Len(bus) /\ \A i \in DOMAIN bus : bus[i] \in Messages
  BY <1>1
<1>3. \A i \in DOMAIN bus : IsEvent(bus[i]) => bus[i] \in Unaddressed
  BY <1>2, MessageKinds DEF IsEvent
<1>4. \A i \in DOMAIN bus : IsEvent(bus[i]) => bus[i].token \in Nat
  BY <1>3, UnaddressedKinds DEF IsEvent
<1>5. QED
  BY <1>1, <1>2, <1>4 DEF CardsType

\* The events after a step are those before it, or those of the searches started now.
LEMMA EventStep ==
  ASSUME EntriesInv, [Next]_vars
  PROVE  \E d \in {0, 1} : \E new \in Nat :
           /\ next_token' = next_token + new
           /\ \A i \in DOMAIN bus' : IsEvent(bus'[i]) =>
                \/ i + d \in DOMAIN bus /\ bus'[i] = bus[i + d]
                \/ \E n \in 1 .. new : i = Len(bus) - d + n
                                       /\ bus'[i].token = next_token + n - 1
<1>1. next_token \in Nat
  BY EventKinds
<1>2. CASE StartSearch
  <2>1. PICK m \in StartCmds, events \in Seq(Unaddressed), answer \in Messages :
        \E r \in Seq(Messages) :
          /\ bus # <<>> /\ m = Head(bus) /\ m.type = "StartSearch" /\ m.jobs \in Seq(Tracks)
          /\ Len(events) \in Nat
          /\ Len(events) = (IF logged_in THEN Len(m.jobs) ELSE 0)
          /\ \A i \in 1 .. Len(events) :
               /\ r[i].type = "SearchStarted"
               /\ r[i].token = next_token + i - 1 /\ r[i].token \in Nat
               /\ r[i].track = m.jobs[i]
          /\ answer.type = "StartSearchResult" /\ "corr" \in DOMAIN answer
          /\ answer.corr = m.corr /\ answer.result.error = ~ logged_in
          /\ answer.result.started = {r[i].token : i \in 1 .. Len(events)}
          /\ next_token' = next_token + Len(events)
          /\ BusMoves(1, r)
          /\ DOMAIN r = 1 .. Len(events) + 1 /\ r[Len(events) + 1] = answer
          /\ \A n \in DOMAIN r : Len(bus) - 1 + n \in DOMAIN bus'
                                 /\ bus'[Len(bus) - 1 + n] = r[n]
    BY <1>2, StartMoves
  <2>2. PICK r \in Seq(Messages) :
          /\ Len(events) \in Nat
          /\ \A i \in 1 .. Len(events) : r[i].token = next_token + i - 1
          /\ answer.type = "StartSearchResult"
          /\ next_token' = next_token + Len(events)
          /\ BusMoves(1, r)
          /\ DOMAIN r = 1 .. Len(events) + 1 /\ r[Len(events) + 1] = answer
    BY <2>1
  <2>3. ASSUME NEW i \in DOMAIN bus', IsEvent(bus'[i])
        PROVE  \/ i + 1 \in DOMAIN bus /\ bus'[i] = bus[i + 1]
               \/ \E n \in 1 .. Len(events) : i = Len(bus) - 1 + n
                                              /\ bus'[i].token = next_token + n - 1
    <3>1. CASE i + 1 \in DOMAIN bus /\ bus'[i] = bus[i + 1]
      BY <3>1
    <3>2. CASE \E n \in DOMAIN r : i = Len(bus) - 1 + n /\ bus'[i] = r[n]
      <4>1. PICK n \in DOMAIN r : i = Len(bus) - 1 + n /\ bus'[i] = r[n]
        BY <3>2
      <4>2. n # Len(events) + 1
        BY <2>2, <2>3, <4>1 DEF IsEvent
      <4>3. n \in 1 .. Len(events)
        BY <2>2, <4>1, <4>2
      <4>4. QED
        BY <2>2, <4>1, <4>3
    <3>3. QED
      BY <2>2, <2>3, <3>1, <3>2 DEF BusMoves
  <2>4. QED
    BY <2>2, <2>3
<1>3. CASE ~ StartSearch
  <2>1. PICK d \in {0, 1} : \E r \in Seq(Messages) : BusMoves(d, r) /\ NewOnBus(d, r)
    BY BusStep
  <2>2. PICK r \in Seq(Messages) : BusMoves(d, r) /\ NewOnBus(d, r)
    BY <2>1
  <2>3. \A i \in DOMAIN bus' : IsEvent(bus'[i]) => i + d \in DOMAIN bus /\ bus'[i] = bus[i + d]
    BY <1>3, <2>2 DEF BusMoves, NewOnBus
  <2>4. next_token' = next_token + 0
    BY <1>1, <1>3, CardSteps
  <2>5. QED
    BY <2>3, <2>4
<1>4. QED
  BY <1>2, <1>3

LEMMA OldStays ==
  ASSUME EntriesInv, [Next]_vars, NEW token \in Nat, Old(token)
  PROVE  Old(token)'
<1>1. PICK d \in {0, 1} : \E new \in Nat :
        /\ next_token' = next_token + new
        /\ \A i \in DOMAIN bus' : IsEvent(bus'[i]) =>
             \/ i + d \in DOMAIN bus /\ bus'[i] = bus[i + d]
             \/ \E n \in 1 .. new : i = Len(bus) - d + n
                                    /\ bus'[i].token = next_token + n - 1
  BY EventStep
<1>2. PICK new \in Nat :
        /\ next_token' = next_token + new
        /\ \A i \in DOMAIN bus' : IsEvent(bus'[i]) =>
             \/ i + d \in DOMAIN bus /\ bus'[i] = bus[i + d]
             \/ \E n \in 1 .. new : i = Len(bus) - d + n
                                    /\ bus'[i].token = next_token + n - 1
  BY <1>1
<1>3. /\ token < next_token /\ next_token \in Nat
      /\ \A i \in DOMAIN bus : IsEvent(bus[i]) => token < bus[i].token
  BY EventKinds DEF Old
<1>4. ASSUME NEW i \in DOMAIN bus', IsEvent(bus'[i])
      PROVE  token < bus'[i].token
  <2>1. CASE i + d \in DOMAIN bus /\ bus'[i] = bus[i + d]
    BY <1>3, <1>4, <2>1
  <2>2. CASE \E n \in 1 .. new : bus'[i].token = next_token + n - 1
    BY <1>3, <2>2
  <2>3. QED
    BY <1>2, <1>4, <2>1, <2>2
<1>5. token < next_token'
  BY <1>2, <1>3
<1>6. QED
  BY <1>4, <1>5 DEF Old

LEMMA EventsRise ==
  ASSUME EntriesInv, TokensRise, [Next]_vars
  PROVE  /\ next_token' > 0
         /\ \A i \in DOMAIN bus' : IsEvent(bus'[i]) => bus'[i].token \in 1 .. next_token' - 1
         /\ \A i, j \in DOMAIN bus' :
              IsEvent(bus'[i]) /\ IsEvent(bus'[j]) /\ i < j => bus'[i].token < bus'[j].token
<1>1. PICK d \in {0, 1} : \E new \in Nat :
        /\ next_token' = next_token + new
        /\ \A i \in DOMAIN bus' : IsEvent(bus'[i]) =>
             \/ i + d \in DOMAIN bus /\ bus'[i] = bus[i + d]
             \/ \E n \in 1 .. new : i = Len(bus) - d + n
                                    /\ bus'[i].token = next_token + n - 1
  BY EventStep
<1>2. PICK new \in Nat :
        /\ next_token' = next_token + new
        /\ \A i \in DOMAIN bus' : IsEvent(bus'[i]) =>
             \/ i + d \in DOMAIN bus /\ bus'[i] = bus[i + d]
             \/ \E n \in 1 .. new : i = Len(bus) - d + n
                                    /\ bus'[i].token = next_token + n - 1
  BY <1>1
<1>3. /\ next_token \in Nat /\ next_token > 0 /\ Len(bus) \in Nat /\ DOMAIN bus = 1 .. Len(bus)
      /\ \A i \in DOMAIN bus : IsEvent(bus[i]) => bus[i].token \in 1 .. next_token - 1
      /\ \A i, j \in DOMAIN bus :
           IsEvent(bus[i]) /\ IsEvent(bus[j]) /\ i < j => bus[i].token < bus[j].token
  BY EventKinds DEF TokensRise
<1>4. DOMAIN bus' \subseteq Nat
  <2>1. bus' \in Seq(Messages)
    BY EntriesStep DEF EntriesInv, BridgeType, QueuesType
  <2>2. QED
    BY <2>1
<1>5. ASSUME NEW i \in DOMAIN bus', IsEvent(bus'[i])
      PROVE  bus'[i].token \in 1 .. next_token' - 1
  <2>1. CASE i + d \in DOMAIN bus /\ bus'[i] = bus[i + d]
    BY <1>2, <1>3, <1>5, <2>1
  <2>2. CASE \E n \in 1 .. new : bus'[i].token = next_token + n - 1
    BY <1>2, <1>3, <2>2
  <2>3. QED
    BY <1>2, <1>5, <2>1, <2>2
<1>6. ASSUME NEW i \in DOMAIN bus', NEW j \in DOMAIN bus', IsEvent(bus'[i]), IsEvent(bus'[j]),
             i < j
      PROVE  bus'[i].token < bus'[j].token
  <2>1. i \in Nat /\ j \in Nat
    BY <1>4
  <2>2. CASE i + d \in DOMAIN bus /\ bus'[i] = bus[i + d]
    <3>1. bus'[i].token \in 1 .. next_token - 1
      BY <1>3, <1>6, <2>2
    <3>2. CASE j + d \in DOMAIN bus /\ bus'[j] = bus[j + d]
      <4>1. i + d < j + d
        BY <1>6, <2>1
      <4>2. QED
        BY <1>3, <1>6, <2>2, <3>2, <4>1
    <3>3. CASE \E n \in 1 .. new : bus'[j].token = next_token + n - 1
      BY <1>3, <3>1, <3>3
    <3>4. QED
      BY <1>2, <1>6, <3>2, <3>3
  <2>3. CASE \E n \in 1 .. new : i = Len(bus) - d + n /\ bus'[i].token = next_token + n - 1
    <3>1. CASE j + d \in DOMAIN bus
      BY <1>3, <1>6, <2>1, <2>3, <3>1
    <3>2. CASE \E n \in 1 .. new : j = Len(bus) - d + n /\ bus'[j].token = next_token + n - 1
      BY <1>3, <1>6, <2>1, <2>3, <3>2
    <3>3. QED
      BY <1>2, <1>6, <3>1, <3>2
  <2>4. QED
    BY <1>2, <1>6, <2>2, <2>3
<1>7. next_token' > 0
  BY <1>2, <1>3
<1>8. QED
  BY <1>5, <1>6, <1>7

LEMMA RowsRise ==
  ASSUME EntriesInv, TokensRise, [Next]_vars
  PROVE  /\ \A row \in searches' : Old(row.token)'
         /\ \A row, other \in searches' : row.token = other.token => row = other
<1>1. /\ \A row \in searches : Old(row.token) /\ row.token \in Nat
      /\ \A row, other \in searches : row.token = other.token => row = other
  BY EventKinds DEF TokensRise
<1>2. \A row \in searches : Old(row.token)'
  <2> SUFFICES ASSUME NEW row \in searches
               PROVE  Old(row.token)'
    OBVIOUS
  <2>1. PICK token \in Nat : token = row.token /\ Old(token)
    BY <1>1
  <2>2. Old(token)'
    BY <2>1, OldStays
  <2>3. QED
    BY <2>1, <2>2
<1>3. CASE UNCHANGED searches
  BY <1>1, <1>2, <1>3
<1>4. CASE SearchStarted
  <2>1. PICK new \in [token : Nat, track : Tracks] :
          /\ 1 \in DOMAIN bus /\ IsEvent(bus[1])
          /\ new.token = bus[1].token
          /\ searches' = searches \cup {new} /\ next_token' = next_token
          /\ BusMoves(1, <<>>)
    BY <1>4, SearchStartedFacts
  <2>2. \A row \in searches : row.token < new.token
    BY <1>1, <2>1 DEF Old
  <2>3. \A row \in searches : row.token # new.token
    BY <1>1, <2>1, <2>2
  <2>4. Old(new.token)'
    <3>1. new.token < next_token'
      BY <2>1, EventKinds DEF TokensRise
    <3>2. ASSUME NEW i \in DOMAIN bus', IsEvent(bus'[i])
          PROVE  new.token < bus'[i].token
      <4>1. i + 1 \in DOMAIN bus /\ bus'[i] = bus[i + 1]
        BY <2>1 DEF BusMoves
      <4>2. i \in Nat \ {0}
        <5>1. bus' \in Seq(Messages)
          BY EntriesStep DEF EntriesInv, BridgeType, QueuesType
        <5>2. QED
          BY <5>1
      <4>3. 1 < i + 1
        BY <4>2
      <4>4. QED
        BY <2>1, <3>2, <4>1, <4>3 DEF TokensRise
    <3>3. PICK token : token = new.token
      OBVIOUS
    <3>4. Old(token)'
      BY <3>1, <3>2, <3>3 DEF Old
    <3>5. QED
      BY <3>3, <3>4
  <2>5. QED
    BY <1>1, <1>2, <2>1, <2>3, <2>4
<1>5. CASE RemoveSearch
  <2>1. searches' \subseteq searches
    BY <1>5 DEF RemoveSearch
  <2>2. QED
    BY <1>1, <1>2, <2>1
<1>6. QED
  BY <1>3, <1>4, <1>5, CardSteps

LEMMA ReplaceStep ==
  ASSUME EntriesInv, [Next]_vars, NEW c \in Callers
  PROVE  /\ caller'[c].replace \in {0, caller[c].replace} \cup Tokens
         /\ caller[c].replace \in Nat /\ Tokens \subseteq Nat
<1>1. caller[c] \in CallStates /\ Tokens \subseteq Nat
  BY DEF EntriesInv, BridgeType, EntriesType, CardsType, Tokens
<1>2. TakesAnswer(c) => caller'[c].replace = caller[c].replace
  BY <1>1 DEF TakesAnswer, CallStates
<1>3. QED
  BY <1>1, <1>2, CallerStep DEF Ends, Sends, CallStates

LEMMA TokensRiseStep ==
  ASSUME EntriesInv, TokensRise, [Next]_vars
  PROVE  TokensRise'
<1>1. \A token \in Nat : Old(token) => Old(token)'
  BY OldStays
<1>2. \A token \in Tokens : token \in Nat /\ Old(token)
  BY EventKinds DEF TokensRise, Tokens
<1>3. Old(0)'
  <2>1. /\ next_token' > 0
        /\ \A i \in DOMAIN bus' : IsEvent(bus'[i]) => bus'[i].token \in 1 .. next_token' - 1
    BY EventsRise
  <2>2. next_token' \in Nat
    BY EntriesStep, EventKinds DEF EntriesInv, BridgeType, CardsType
  <2>3. \A i \in DOMAIN bus' : IsEvent(bus'[i]) => 0 < bus'[i].token
    BY <2>1, <2>2
  <2>4. 0 < next_token'
    BY <2>1, <2>2
  <2>5. QED
    BY <2>3, <2>4 DEF Old
<1>4. ASSUME NEW c \in Callers
      PROVE  Old(caller[c].replace)'
  <2>1. PICK token \in Nat : token = caller'[c].replace
                             /\ token \in {0, caller[c].replace} \cup Tokens
    BY ReplaceStep
  <2>2. token = 0 \/ Old(token)
    BY <1>2, <2>1 DEF TokensRise
  <2>3. Old(token)'
    BY <1>1, <1>3, <2>2
  <2>4. QED
    BY <2>1, <2>3, Zenon DEF Old
<1>5. ASSUME NEW token \in Nat, ToRemove(token)'
      PROVE  Old(token)'
  <2>1. ToRemove(token) \/ RemovalWanted(token)
    BY <1>5, RemovalStep
  <2>2. Old(token)
    BY <1>2, <2>1 DEF TokensRise, RemovalWanted
  <2>3. QED
    BY <1>1, <2>2
<1>6. QED
  BY <1>4, <1>5, EventsRise, RowsRise DEF TokensRise

-----------------------------------------------------------------------------
(* A card that is asked to be removed may go.                                *)

LEMMA PlacementFact ==
  ASSUME TokensRise, NEW row \in searches
  PROVE  Placement(row.token) = row.track
<1>1. row.token \in Tokens
  BY DEF Tokens
<1>2. PICK found : found = CHOOSE other \in searches : other.token = row.token
  OBVIOUS
<1>3. found \in searches /\ found.token = row.token
  BY <1>2
<1>4. found = row
  BY <1>3 DEF TokensRise
<1>5. QED
  BY <1>1, <1>2, <1>4 DEF Placement

LEMMA CoveredStays ==
  ASSUME EntriesInv, TokensRise, RemovedIsCovered, [Next]_vars,
         NEW token \in Nat, Old(token), Covered(token)
  PROVE  Covered(token)'
<1>1. givenUp \subseteq givenUp'
  BY CardSteps
<1>2. SUFFICES ASSUME NEW row \in searches', row.token = token,
                      row.track \notin givenUp' \cup {NoTrack}
               PROVE  \E other \in searches' : other.track = row.track /\ other.token > token
  BY DEF Covered
<1>3. row.track \notin givenUp \cup {NoTrack}
  BY <1>1, <1>2
<1>4. row \in searches =>
        \E other \in searches : other.track = row.track /\ other.token > token
  BY <1>2, <1>3 DEF Covered
<1>5. CASE UNCHANGED searches
  BY <1>2, <1>4, <1>5
<1>6. CASE SearchStarted
  <2>1. PICK new \in [token : Nat, track : Tracks] :
          /\ 1 \in DOMAIN bus /\ IsEvent(bus[1]) /\ new.token = bus[1].token
          /\ searches' = searches \cup {new}
    BY <1>6, SearchStartedFacts
  <2>2. row # new
    BY <1>2, <2>1 DEF Old
  <2>3. QED
    BY <1>2, <1>4, <2>1, <2>2
<1>7. CASE RemoveSearch
  <2>1. PICK gone \in Nat :
          ToRemove(gone) /\ searches' = {card \in searches : card.token # gone}
    BY <1>7, RemoveSearchFacts
  <2>2. PICK other \in searches : other.track = row.track /\ other.token > token
    BY <1>2, <1>4, <2>1
  <2>3. CASE other.token # gone
    BY <2>1, <2>2, <2>3
  <2>4. CASE other.token = gone
    <3>1. Covered(gone)
      BY <2>1 DEF RemovedIsCovered
    <3>2. PICK third \in searches : third.track = other.track /\ third.token > gone
      BY <1>3, <2>2, <2>4, <3>1 DEF Covered
    <3>3. third.token \in Nat /\ third.token # gone /\ third.token > token
      BY <2>2, <2>4, <3>2, EventKinds
    <3>4. QED
      BY <2>1, <2>2, <3>2, <3>3
  <2>5. QED
    BY <2>3, <2>4
<1>8. QED
  BY <1>5, <1>6, <1>7, CardSteps

LEMMA RemovedStep ==
  ASSUME EntriesInv, CardsInv, [Next]_vars
  PROVE  RemovedIsCovered'
<1>1. TokensRise /\ RemovedIsCovered /\ ReplacedIsFollowed
  BY DEF CardsInv
<1>2. SUFFICES ASSUME NEW token \in Nat, ToRemove(token)'
               PROVE  Covered(token)'
  BY DEF RemovedIsCovered
<1>3. ToRemove(token) \/ RemovalWanted(token)
  BY <1>2, RemovalStep
<1>4. CASE ToRemove(token)
  BY <1>1, <1>4, CoveredStays DEF TokensRise, RemovedIsCovered
<1>5. ASSUME searches' = searches, givenUp' = givenUp \cup {Placement(token)}
      PROVE  Covered(token)'
  <2>1. \A row \in searches : row.token = token => row.track = Placement(token)
    BY <1>1, PlacementFact
  <2>2. QED
    BY <1>5, <2>1 DEF Covered
<1>6. CASE token \in Tokens /\ RemoveCard(token)
  BY <1>5, <1>6 DEF RemoveCard
<1>7. CASE \E c \in Callers : Started(c) /\ Replaces(c) /\ token = caller[c].replace
  <2>1. PICK c \in Callers : Started(c) /\ Replaces(c) /\ token = caller[c].replace
    BY <1>7
  <2>2. CASE caller[c].cmd.input = "plain"
    <3>1. Replacing(c) /\ caller[c].reply # <<>>
      BY <2>1, <2>2 DEF Replacing, Started, Replied, Replaces
    <3>2. Covered(token)
      BY <1>1, <2>1, <3>1 DEF ReplacedIsFollowed, Followed, Replaces, Reply
    <3>3. Old(token)
      BY <1>1, <2>1 DEF TokensRise
    <3>4. QED
      BY <1>1, <3>2, <3>3, CoveredStays
  <2>3. CASE caller[c].cmd.input # "plain"
    BY <1>5, <2>1, <2>3 DEF Started
  <2>4. QED
    BY <2>2, <2>3
<1>8. QED
  BY <1>3, <1>4, <1>6, <1>7 DEF RemovalWanted

LEMMA ListedStep ==
  ASSUME EntriesInv, CardsInv, [Next]_vars
  PROVE  ListedIsShown'
<1>1. TokensRise /\ RemovedIsCovered /\ listed \ givenUp \subseteq TracksShown \cup {NoTrack}
  BY DEF CardsInv, ListedIsShown
<1>2. givenUp \subseteq givenUp'
  BY CardSteps
<1>3. CASE UNCHANGED <<searches, listed>>
  BY <1>1, <1>2, <1>3 DEF ListedIsShown, TracksShown
<1>4. CASE SearchStarted
  <2>1. PICK new \in [token : Nat, track : Tracks] :
          searches' = searches \cup {new} /\ listed' = listed \cup {new.track}
    BY <1>4, SearchStartedFacts
  <2>2. QED
    BY <1>1, <1>2, <2>1 DEF ListedIsShown, TracksShown
<1>5. CASE RemoveSearch
  <2>1. PICK gone \in Nat :
          /\ ToRemove(gone) /\ searches' = {card \in searches : card.token # gone}
          /\ listed' = listed /\ givenUp' = givenUp
    BY <1>5, RemoveSearchFacts
  <2>2. SUFFICES ASSUME NEW track \in listed \ givenUp, track # NoTrack
                 PROVE  \E row \in searches' : row.track = track
    BY <2>1 DEF ListedIsShown, TracksShown
  <2>3. PICK row \in searches : row.track = track
    BY <1>1, <2>2 DEF TracksShown
  <2>4. CASE row.token # gone
    BY <2>1, <2>3, <2>4
  <2>5. CASE row.token = gone
    <3>1. Covered(gone)
      BY <1>1, <2>1 DEF RemovedIsCovered
    <3>2. PICK other \in searches : other.track = track /\ other.token > gone
      BY <2>2, <2>3, <2>5, <3>1 DEF Covered
    <3>3. other.token # gone
      BY <3>2, EventKinds
    <3>4. QED
      BY <2>1, <3>2, <3>3
  <2>6. QED
    BY <2>4, <2>5
<1>6. QED
  BY <1>3, <1>4, <1>5, CardSteps

-----------------------------------------------------------------------------
(* What a caller is told is shown.                                           *)

LEMMA ShownStays ==
  ASSUME EntriesInv, [Next]_vars, NEW token, Shown(token)
  PROVE  Shown(token)'
<1>1. CASE UNCHANGED <<searches, removed>>
  BY <1>1 DEF Shown, Tokens
<1>2. CASE SearchStarted
  <2>1. PICK new \in [token : Nat, track : Tracks] :
          searches' = searches \cup {new} /\ removed' = removed
    BY <1>2, SearchStartedFacts
  <2>2. QED
    BY <2>1 DEF Shown, Tokens
<1>3. CASE RemoveSearch
  <2>1. PICK gone \in Nat :
          /\ searches' = {card \in searches : card.token # gone}
          /\ removed' = removed \cup {gone}
    BY <1>3, RemoveSearchFacts
  <2>2. QED
    BY <2>1 DEF Shown, Tokens
<1>4. QED
  BY <1>1, <1>2, <1>3, CardSteps

LEMMA AnnouncedStays ==
  ASSUME EntriesInv, NEW d \in {0, 1}, NEW r, BusMoves(d, r), NEW i \in Nat,
         d = 1 => (IsEvent(Head(bus)) => SearchStarted), NEW token, Announced(token, i + d)
  PROVE  Announced(token, i)' \/ Shown(token)'
<1>1. PICK j \in DOMAIN bus : j < i + d /\ IsEvent(bus[j]) /\ bus[j].token = token
  BY DEF Announced
<1>2. j \in Nat \ {0}
  BY EventKinds
<1>3. CASE j > d
  <2>1. j - d \in DOMAIN bus' /\ bus'[j - d] = bus[j]
    BY <1>3 DEF BusMoves
  <2>2. j - d < i
    BY <1>1, <1>2
  <2>3. PICK n : n = j - d
    OBVIOUS
  <2>4. n \in DOMAIN bus' /\ n < i /\ IsEvent(bus'[n]) /\ bus'[n].token = token
    BY <1>1, <2>1, <2>2, <2>3
  <2>5. Announced(token, i)'
    BY <2>4 DEF Announced, IsEvent
  <2>6. QED
    BY <2>5
<1>4. CASE ~ j > d
  <2>1. j = 1 /\ d = 1
    BY <1>2, <1>4
  <2>2. Head(bus) = bus[1]
    BY <1>1, <2>1 DEF EntriesInv, BridgeType, QueuesType
  <2>3. SearchStarted
    BY <1>1, <2>1, <2>2
  <2>4. PICK new \in [token : Nat, track : Tracks] :
          new.token = bus[1].token /\ searches' = searches \cup {new}
    BY <2>3, SearchStartedFacts
  <2>5. token \in Tokens'
    BY <1>1, <2>1, <2>4 DEF Tokens
  <2>6. QED
    BY <2>5 DEF Shown
<1>5. QED
  BY <1>3, <1>4

\* The answer a caller takes leaves the rest of its call as it is, and answers its command.
LEMMA AnswerFacts ==
  ASSUME EntriesInv, NEW c \in Callers, TakesAnswer(c)
  PROVE  /\ 1 \in DOMAIN bus /\ Head(bus) = bus[1] /\ To(bus[1], caller[c].corr)
         /\ caller'[c].reply = <<bus[1].result>> /\ caller'[c].pc = "waiting"
         /\ caller'[c].corr = caller[c].corr /\ caller'[c].cmd = caller[c].cmd
         /\ caller'[c].replace = caller[c].replace /\ caller'[c].started = caller[c].started
         /\ caller[c].cmd.type = "StartSearch" => bus[1].type = "StartSearchResult"
<1>1. caller[c] \in CallStates /\ CallerFits(c) /\ bus \in Seq(Messages) /\ bus # <<>>
  BY DEF EntriesInv, BridgeType, EntriesType, QueuesType, CallersFit, TakesAnswer, TakeResult
<1>2. 1 \in DOMAIN bus /\ Head(bus) = bus[1]
  BY <1>1, HeadTail
<1>3. /\ caller'[c].reply = <<bus[1].result>> /\ caller'[c].pc = "waiting"
      /\ caller'[c].corr = caller[c].corr /\ caller'[c].cmd = caller[c].cmd
      /\ caller'[c].replace = caller[c].replace /\ caller'[c].started = caller[c].started
  BY <1>1, <1>2 DEF TakesAnswer, CallStates
<1>4. AllOfKind(caller[c].corr, caller[c].cmd.type) /\ To(bus[1], caller[c].corr)
  BY <1>1, <1>2 DEF TakesAnswer, CallerFits
<1>5. bus[1].type \in {caller[c].cmd.type, ReplyTo[caller[c].cmd.type]}
  BY <1>2, <1>4 DEF AllOfKind, OfKind
<1>6. bus[1].type # "StartSearch"
  BY <1>2 DEF TakesAnswer, TakeResult
<1>7. caller[c].cmd.type = "StartSearch" => bus[1].type = "StartSearchResult"
  BY <1>5, <1>6 DEF ReplyTo
<1>8. QED
  BY <1>2, <1>3, <1>4, <1>7

LEMMA ToldOnBusStep ==
  ASSUME EntriesInv, CardsInv, [Next]_vars, NEW i \in DOMAIN bus',
         bus'[i].type = "StartSearchResult", NEW token \in bus'[i].result.started
  PROVE  Shown(token)' \/ Announced(token, i)'
<1>1. i \in Nat
  <2>1. bus' \in Seq(Messages)
    BY EntriesStep DEF EntriesInv, BridgeType, QueuesType
  <2>2. QED
    BY <2>1
<1>2. ASSUME NEW d \in {0, 1}, NEW r, BusMoves(d, r), i + d \in DOMAIN bus,
             bus'[i] = bus[i + d], d = 1 => (IsEvent(Head(bus)) => SearchStarted)
      PROVE  Shown(token)' \/ Announced(token, i)'
  <2>1. Shown(token) \/ Announced(token, i + d)
    BY <1>2 DEF CardsInv, ToldIsShown
  <2>2. QED
    BY <1>1, <1>2, <2>1, ShownStays, AnnouncedStays
<1>3. CASE ~ StartSearch
  <2>1. PICK d \in {0, 1} : \E r \in Seq(Messages) : BusMoves(d, r) /\ NewOnBus(d, r)
    BY BusStep
  <2>2. PICK r \in Seq(Messages) : BusMoves(d, r) /\ NewOnBus(d, r)
    BY <2>1
  <2>3. i + d \in DOMAIN bus /\ bus'[i] = bus[i + d]
    BY <1>3, <2>2 DEF BusMoves, NewOnBus
  <2>4. QED
    BY <1>2, <2>2, <2>3 DEF NewOnBus
<1>4. CASE StartSearch
  <2>1. PICK m \in StartCmds, events \in Seq(Unaddressed), answer \in Messages :
        \E r \in Seq(Messages) :
          /\ bus # <<>> /\ m = Head(bus) /\ m.type = "StartSearch" /\ m.jobs \in Seq(Tracks)
          /\ Len(events) \in Nat
          /\ Len(events) = (IF logged_in THEN Len(m.jobs) ELSE 0)
          /\ \A n \in 1 .. Len(events) :
               /\ r[n].type = "SearchStarted"
               /\ r[n].token = next_token + n - 1 /\ r[n].token \in Nat
               /\ r[n].track = m.jobs[n]
          /\ answer.type = "StartSearchResult" /\ "corr" \in DOMAIN answer
          /\ answer.corr = m.corr /\ answer.result.error = ~ logged_in
          /\ answer.result.started = {r[n].token : n \in 1 .. Len(events)}
          /\ next_token' = next_token + Len(events)
          /\ BusMoves(1, r)
          /\ DOMAIN r = 1 .. Len(events) + 1 /\ r[Len(events) + 1] = answer
          /\ \A n \in DOMAIN r : Len(bus) - 1 + n \in DOMAIN bus'
                                 /\ bus'[Len(bus) - 1 + n] = r[n]
    BY <1>4, StartMoves
  <2>2. PICK r \in Seq(Messages) :
          /\ Head(bus).type = "StartSearch" /\ Len(events) \in Nat
          /\ \A n \in 1 .. Len(events) : r[n].type = "SearchStarted"
          /\ answer.result.started = {r[n].token : n \in 1 .. Len(events)}
          /\ BusMoves(1, r)
          /\ DOMAIN r = 1 .. Len(events) + 1 /\ r[Len(events) + 1] = answer
          /\ \A n \in DOMAIN r : Len(bus) - 1 + n \in DOMAIN bus'
                                 /\ bus'[Len(bus) - 1 + n] = r[n]
    BY <2>1
  <2>3. CASE i + 1 \in DOMAIN bus /\ bus'[i] = bus[i + 1]
    BY <1>2, <2>2, <2>3 DEF IsEvent
  <2>4. CASE \E n \in DOMAIN r : i = Len(bus) - 1 + n /\ bus'[i] = r[n]
    <3>1. PICK n \in DOMAIN r : i = Len(bus) - 1 + n /\ bus'[i] = r[n]
      BY <2>4
    <3>2. n = Len(events) + 1 /\ bus'[i] = answer
      BY <2>2, <3>1
    <3>3. PICK k \in 1 .. Len(events) : token = r[k].token
      BY <2>2, <3>2
    <3>4. PICK j : j = Len(bus) - 1 + k
      OBVIOUS
    <3>5. j \in DOMAIN bus' /\ j < i /\ IsEvent(bus'[j]) /\ bus'[j].token = token
      <4>1. k \in DOMAIN r /\ k \in Nat /\ k < n /\ r[k].type = "SearchStarted"
        BY <2>2, <3>2
      <4>2. j \in DOMAIN bus' /\ bus'[j] = r[k]
        BY <2>2, <3>4, <4>1
      <4>3. Len(bus) \in Nat /\ n \in Nat
        BY <2>2, <3>2, EventKinds
      <4>4. j < i
        BY <3>1, <3>4, <4>1, <4>3
      <4>5. QED
        BY <3>3, <4>1, <4>2, <4>4 DEF IsEvent
    <3>6. Announced(token, i)'
      BY <3>5 DEF Announced, IsEvent
    <3>7. QED
      BY <3>6
  <2>5. QED
    BY <2>2, <2>3, <2>4 DEF BusMoves
<1>5. QED
  BY <1>3, <1>4

LEMMA ToldStep ==
  ASSUME EntriesInv, CardsInv, [Next]_vars
  PROVE  ToldIsShown'
<1>1. /\ \A c \in Callers : \A token \in caller[c].started : Shown(token)
      /\ \A c \in Callers :
           caller[c].pc = "waiting" /\ caller[c].cmd.type = "StartSearch"
             /\ caller[c].reply # <<>>
             => \A token \in Head(caller[c].reply).started : Shown(token)
      /\ \A i \in DOMAIN bus : bus[i].type = "StartSearchResult" =>
           \A token \in bus[i].result.started : Shown(token) \/ Announced(token, i)
  BY DEF CardsInv, ToldIsShown
<1>2. \A token : Shown(token) => Shown(token)'
  BY ShownStays
<1>3. ASSUME NEW c \in Callers, NEW token \in caller'[c].started
      PROVE  Shown(token)'
  <2>1. CASE caller'[c].started \in {{}, caller[c].started}
    BY <1>1, <1>2, <1>3, <2>1
  <2>2. CASE Started(c) /\ caller'[c].started = Reply(c).started
    BY <1>1, <1>2, <1>3, <2>2 DEF Started, Replied, Reply
  <2>3. QED
    BY <2>1, <2>2, CallerStep, AnswerFacts DEF Ends, Sends
<1>4. ASSUME NEW c \in Callers, caller'[c].pc = "waiting",
             caller'[c].cmd.type = "StartSearch", caller'[c].reply # <<>>,
             NEW token \in Head(caller'[c].reply).started
      PROVE  Shown(token)'
  <2>1. CASE caller'[c] = caller[c]
    BY <1>1, <1>2, <1>4, <2>1
  <2>2. CASE TakesAnswer(c)
    <3>1. /\ 1 \in DOMAIN bus /\ bus[1].type = "StartSearchResult"
          /\ caller'[c].reply = <<bus[1].result>>
      BY <1>4, <2>2, AnswerFacts
    <3>2. token \in bus[1].result.started
      BY <1>4, <3>1
    <3>3. ~ Announced(token, 1)
      BY EventKinds DEF Announced
    <3>4. QED
      BY <1>1, <1>2, <3>1, <3>2, <3>3
  <2>3. QED
    BY <1>4, <2>1, <2>2, CallerStep DEF Ends, Sends
<1>5. \A i \in DOMAIN bus' : bus'[i].type = "StartSearchResult" =>
        \A token \in bus'[i].result.started : Shown(token)' \/ Announced(token, i)'
  BY ToldOnBusStep
<1>6. QED
  BY <1>3, <1>4, <1>5 DEF ToldIsShown

-----------------------------------------------------------------------------
(* The search that takes the place of a card takes up its track.             *)

\* A call that sends for the search that takes the place of a card.
LEMMA SentFollows ==
  ASSUME EntriesInv, CardsInv, [Next]_vars, NEW c \in Callers, Sends(c), Replacing(c)'
  PROVE  Followed(c)'
<1>1. /\ caller'[c].corr = corr + 1 /\ caller'[c].reply = <<>> /\ caller'[c].cmd \in CallCmds
      /\ cmds' = Append(cmds, [caller'[c].cmd EXCEPT !.corr = corr + 1])
      /\ bus' = bus /\ searches' = searches
      /\ caller'[c].replace = caller[c].replace
      /\ caller'[c].cmd.input = "plain" /\ caller'[c].replace # 0
  BY DEF Sends, Replacing
<1>2. PICK found \in Seq({1, 2}) :
        /\ caller'[c].cmd.jobs = Jobs(c, found)
        /\ caller'[c].cmd.input = caller[c].cmd.input
  BY DEF Sends, Replacing
<1>3. /\ Len(caller'[c].cmd.jobs) = 1
      /\ caller'[c].cmd.jobs[1] = Placement(caller[c].replace)
  BY <1>1, <1>2, JobsType DEF EntriesInv, BridgeType
<1>4. \A row \in searches' :
        row.token = caller'[c].replace => row.track = caller'[c].cmd.jobs[1]
  BY <1>1, <1>3, PlacementFact DEF CardsInv
<1>5. corr + 1 \in Nat \ {0} /\ corr + 1 > corr
  BY DEF EntriesInv, BridgeType, EntriesType
<1>6. AllClear(corr + 1)
  BY <1>5 DEF EntriesInv, OneUnderWay
<1>7. \A i \in DOMAIN bus' : ~ To(bus'[i], corr + 1)
  BY <1>1, <1>6 DEF AllClear, Clear
<1>8. \A i \in DOMAIN cmds' : To(cmds'[i], corr + 1) => cmds'[i].jobs = caller'[c].cmd.jobs
  <2>1. PICK cmd \in CallCmds : cmd = caller'[c].cmd
    BY <1>1
  <2>2. PICK next \in Nat : next = corr + 1
    BY <1>5
  <2>3. PICK m : m = [cmd EXCEPT !.corr = next]
    OBVIOUS
  <2>4. cmd.type = "StartSearch"
    BY <2>1 DEF Replacing
  <2>5. m.type = cmd.type /\ (m.type = "StartSearch" => m.jobs = cmd.jobs)
    BY <2>3, Stamped
  <2>6. cmds \in Seq(CallCmds \cup RemoveCmds) /\ cmds' = Append(cmds, m)
    BY <1>1, <2>1, <2>2, <2>3 DEF EntriesInv, BridgeType, QueuesType
  <2>7. \A i \in DOMAIN cmds' : cmds'[i] = m \/ (i \in DOMAIN cmds /\ cmds'[i] = cmds[i])
    BY <2>6
  <2>8. \A i \in DOMAIN cmds : ~ To(cmds[i], corr + 1)
    BY <1>6 DEF AllClear, Clear
  <2>9. QED
    BY <2>1, <2>4, <2>5, <2>7, <2>8
<1>9. QED
  BY <1>1, <1>3, <1>4, <1>7, <1>8 DEF Followed

\* A call that goes on waiting: the rows of the card it replaces keep their track.
LEMMA RowsKeepTrack ==
  ASSUME EntriesInv, CardsInv, [Next]_vars, NEW c \in Callers, Replacing(c)
  PROVE  \A row \in searches' :
           row.token = caller[c].replace => row.track = caller[c].cmd.jobs[1]
<1>1. /\ Old(caller[c].replace)
      /\ \A row \in searches :
           row.token = caller[c].replace => row.track = caller[c].cmd.jobs[1]
  BY DEF CardsInv, TokensRise, ReplacedIsFollowed, Followed
<1>2. CASE SearchStarted
  <2>1. PICK new \in [token : Nat, track : Tracks] :
          /\ 1 \in DOMAIN bus /\ IsEvent(bus[1]) /\ new.token = bus[1].token
          /\ searches' = searches \cup {new}
    BY <1>2, SearchStartedFacts
  <2>2. caller[c].replace < new.token /\ caller[c].replace \in Nat
    BY <1>1, <2>1, ReplaceStep DEF Old
  <2>3. QED
    BY <1>1, <2>1, <2>2
<1>3. CASE RemoveSearch
  BY <1>1, <1>3 DEF RemoveSearch
<1>4. QED
  BY <1>1, <1>2, <1>3, CardSteps

\* The messages of a call that goes on waiting for the answer to its StartSearch.
LEMMA WaitingKinds ==
  ASSUME EntriesInv, NEW c \in Callers, Replacing(c), caller[c].reply = <<>>
  PROVE  /\ caller[c].corr \in Nat \ {0} /\ caller[c].corr # corr + 1
         /\ \A i \in DOMAIN cmds : To(cmds[i], caller[c].corr) => cmds[i].type = "StartSearch"
         /\ \A i \in DOMAIN extracts : ~ To(extracts[i], caller[c].corr)
         /\ \A i \in DOMAIN bus : To(bus[i], caller[c].corr) =>
              bus[i].type \in {"StartSearch", "StartSearchResult"}
<1>1. /\ caller[c].corr \in 1 .. corr /\ corr \in Nat
      /\ AllOfKind(caller[c].corr, "StartSearch")
  BY DEF EntriesInv, BridgeType, EntriesType, CallersFit, CallerFits, Replacing
<1>2. /\ \A i \in DOMAIN cmds : cmds[i].type # "StartSearchResult"
      /\ \A i \in DOMAIN extracts : extracts[i].type = "Extract"
  <2>1. cmds \in Seq(CallCmds \cup RemoveCmds) /\ extracts \in Seq(ExtractCmds)
    BY DEF EntriesInv, BridgeType, QueuesType
  <2>2. \A i \in DOMAIN cmds : cmds[i] \in CallCmds \cup RemoveCmds
    BY <2>1
  <2>3. \A i \in DOMAIN extracts : extracts[i] \in ExtractCmds
    BY <2>1
  <2>4. QED
    BY <2>2, <2>3, CallKinds DEF ExtractCmds
<1>3. QED
  BY <1>1, <1>2 DEF AllOfKind, OfKind, ReplyTo

\* A message of the call that stays on the bus.
LEMMA FollowsStays ==
  ASSUME EntriesInv, CardsInv, [Next]_vars, NEW c \in Callers, Replacing(c),
         caller'[c] = caller[c],
         NEW d \in {0, 1}, NEW r, BusMoves(d, r),
         d = 1 => (IsEvent(Head(bus)) => SearchStarted),
         NEW i \in Nat, i + d \in DOMAIN bus, bus'[i] = bus[i + d], FollowsAt(c, i + d)
  PROVE  FollowsAt(c, i)'
<1>1. Old(caller[c].replace) /\ caller[c].replace \in Nat
  BY ReplaceStep DEF CardsInv, TokensRise
<1>2. CASE bus[i + d].type = "StartSearch"
  BY <1>2 DEF FollowsAt
<1>3. CASE bus[i + d].type # "StartSearch" /\ bus[i + d].result.error
  BY <1>3 DEF FollowsAt
<1>4. CASE bus[i + d].type # "StartSearch" /\ Covered(caller[c].replace)
  <2>1. PICK token \in Nat : token = caller[c].replace /\ token = caller'[c].replace
    BY <1>1
  <2>2. Covered(token)'
    BY <1>1, <1>4, <2>1, CoveredStays DEF CardsInv
  <2>3. Covered(caller[c].replace)'
    BY <2>1, <2>2, Zenon DEF Covered
  <2>4. QED
    BY <1>4, <2>3 DEF FollowsAt
<1>5. CASE /\ bus[i + d].type # "StartSearch"
           /\ \E j \in DOMAIN bus :
                 j < i + d /\ IsEvent(bus[j]) /\ bus[j].track = caller[c].cmd.jobs[1]
  <2>1. PICK j \in DOMAIN bus :
          j < i + d /\ IsEvent(bus[j]) /\ bus[j].track = caller[c].cmd.jobs[1]
    BY <1>5
  <2>2. j \in Nat \ {0}
    BY EventKinds
  <2>3. CASE j > d
    <3>1. j - d \in DOMAIN bus' /\ bus'[j - d] = bus[j] /\ j - d < i
      BY <2>1, <2>2, <2>3 DEF BusMoves
    <3>2. PICK n \in DOMAIN bus' : n < i /\ bus'[n] = bus[j]
      BY <3>1
    <3>3. IsEvent(bus'[n]) /\ bus'[n].track = caller'[c].cmd.jobs[1]
      BY <2>1, <3>2
    <3>4. QED
      BY <1>5, <3>2, <3>3 DEF FollowsAt, IsEvent
  <2>4. CASE ~ j > d
    <3>1. j = 1 /\ d = 1
      BY <2>2, <2>4
    <3>2. Head(bus) = bus[1]
      BY <2>1, <3>1 DEF EntriesInv, BridgeType, QueuesType
    <3>3. SearchStarted
      BY <2>1, <3>1, <3>2
    <3>4. PICK new \in [token : Nat, track : Tracks] :
            /\ IsEvent(bus[1]) /\ 1 \in DOMAIN bus
            /\ new.token = bus[1].token /\ new.track = bus[1].track
            /\ searches' = searches \cup {new}
      BY <3>3, SearchStartedFacts
    <3>5. new.token > caller[c].replace
      BY <1>1, <3>4 DEF Old
    <3>6. PICK token : token = caller[c].replace /\ token = caller'[c].replace
      OBVIOUS
    <3>7. \A row \in searches' : row.token = token => row.track = new.track
      BY <2>1, <3>1, <3>4, <3>6, RowsKeepTrack
    <3>8. Covered(token)'
      BY <3>4, <3>5, <3>6, <3>7 DEF Covered
    <3>9. Covered(caller[c].replace)'
      BY <3>6, <3>8, Zenon DEF Covered
    <3>10. QED
      BY <1>5, <3>9 DEF FollowsAt
  <2>5. QED
    BY <2>3, <2>4
<1>6. QED
  BY <1>2, <1>3, <1>4, <1>5 DEF FollowsAt

LEMMA FollowsOnBus ==
  ASSUME EntriesInv, CardsInv, [Next]_vars, NEW c \in Callers, Replacing(c),
         caller'[c] = caller[c], caller[c].reply = <<>>,
         NEW i \in DOMAIN bus', To(bus'[i], caller[c].corr)
  PROVE  FollowsAt(c, i)'
<1>1. i \in Nat /\ bus'[i].type \in {"StartSearch", "StartSearchResult"}
  <2>1. bus' \in Seq(Messages) /\ CallerFits(c)'
    BY EntriesStep DEF EntriesInv, BridgeType, QueuesType, CallersFit
  <2>2. OfKind(bus', caller[c].corr, "StartSearch")
    BY <2>1 DEF CallerFits, Replacing, AllOfKind
  <2>3. QED
    BY <2>1, <2>2 DEF OfKind, ReplyTo
<1>2. /\ \A j \in DOMAIN bus : To(bus[j], caller[c].corr) => FollowsAt(c, j)
      /\ \A j \in DOMAIN cmds :
           To(cmds[j], caller[c].corr) => cmds[j].jobs = caller[c].cmd.jobs
      /\ Len(caller[c].cmd.jobs) = 1
  BY DEF CardsInv, ReplacedIsFollowed, Followed
<1>3. CASE ~ StartSearch
  <2>1. PICK d \in {0, 1} : \E r \in Seq(Messages) : BusMoves(d, r) /\ NewOnBus(d, r)
    BY BusStep
  <2>2. PICK r \in Seq(Messages) : BusMoves(d, r) /\ NewOnBus(d, r)
    BY <2>1
  <2>3. CASE i + d \in DOMAIN bus /\ bus'[i] = bus[i + d]
    <3>1. FollowsAt(c, i + d)
      BY <1>2, <2>3
    <3>2. QED
      BY <1>1, <2>2, <2>3, <3>1, FollowsStays DEF NewOnBus
  <2>4. CASE \E n \in DOMAIN r : bus'[i] = r[n]
    <3>1. /\ bus'[i].type = "StartSearch" /\ cmds # <<>> /\ bus'[i] = Head(cmds)
      BY <1>1, <1>3, <2>2, <2>4 DEF NewOnBus
    <3>2. 1 \in DOMAIN cmds /\ Head(cmds) = cmds[1]
      BY <3>1, HeadTail DEF EntriesInv, BridgeType, QueuesType
    <3>3. bus'[i].jobs = caller'[c].cmd.jobs
      BY <1>2, <3>1, <3>2
    <3>4. QED
      BY <3>1, <3>3 DEF FollowsAt
  <2>5. QED
    BY <2>2, <2>3, <2>4 DEF BusMoves
<1>4. CASE StartSearch
  <2>1. PICK m \in StartCmds, events \in Seq(Unaddressed), answer \in Messages :
        \E r \in Seq(Messages) :
          /\ bus # <<>> /\ m = Head(bus) /\ m.type = "StartSearch" /\ m.jobs \in Seq(Tracks)
          /\ Len(events) \in Nat
          /\ Len(events) = (IF logged_in THEN Len(m.jobs) ELSE 0)
          /\ \A n \in 1 .. Len(events) :
               /\ r[n].type = "SearchStarted"
               /\ r[n].token = next_token + n - 1 /\ r[n].token \in Nat
               /\ r[n].track = m.jobs[n]
          /\ answer.type = "StartSearchResult" /\ "corr" \in DOMAIN answer
          /\ answer.corr = m.corr /\ answer.result.error = ~ logged_in
          /\ answer.result.started = {r[n].token : n \in 1 .. Len(events)}
          /\ next_token' = next_token + Len(events)
          /\ BusMoves(1, r)
          /\ DOMAIN r = 1 .. Len(events) + 1 /\ r[Len(events) + 1] = answer
          /\ \A n \in DOMAIN r : Len(bus) - 1 + n \in DOMAIN bus'
                                 /\ bus'[Len(bus) - 1 + n] = r[n]
    BY <1>4, StartMoves
  <2>2. PICK r \in Seq(Messages) :
          /\ bus # <<>> /\ m = Head(bus) /\ m.type = "StartSearch"
          /\ Len(events) \in Nat
          /\ Len(events) = (IF logged_in THEN Len(m.jobs) ELSE 0)
          /\ \A n \in 1 .. Len(events) : r[n].type = "SearchStarted" /\ r[n].track = m.jobs[n]
          /\ answer.corr = m.corr /\ answer.result.error = ~ logged_in
          /\ answer.type = "StartSearchResult"
          /\ BusMoves(1, r)
          /\ DOMAIN r = 1 .. Len(events) + 1 /\ r[Len(events) + 1] = answer
          /\ \A n \in DOMAIN r : Len(bus) - 1 + n \in DOMAIN bus'
                                 /\ bus'[Len(bus) - 1 + n] = r[n]
    BY <2>1
  <2>3. CASE i + 1 \in DOMAIN bus /\ bus'[i] = bus[i + 1]
    <3>1. FollowsAt(c, i + 1)
      BY <1>2, <2>3
    <3>2. ~ IsEvent(Head(bus))
      BY <2>2 DEF IsEvent
    <3>3. QED
      BY <1>1, <2>2, <2>3, <3>1, <3>2, FollowsStays
  <2>4. CASE \E n \in DOMAIN r : i = Len(bus) - 1 + n /\ bus'[i] = r[n]
    <3>1. PICK n \in DOMAIN r : i = Len(bus) - 1 + n /\ bus'[i] = r[n]
      BY <2>4
    <3>2. n = Len(events) + 1 /\ bus'[i] = answer
      <4>1. n \notin 1 .. Len(events)
        BY <1>1, <2>2, <3>1
      <4>2. QED
        BY <2>2, <3>1, <4>1
    <3>3. 1 \in DOMAIN bus /\ bus[1] = m
      BY <2>2, HeadTail DEF EntriesInv, BridgeType, QueuesType
    <3>4. To(bus[1], caller[c].corr)
      BY <2>2, <3>2, <3>3 DEF To, StartCmds
    <3>5. m.jobs = caller[c].cmd.jobs
      BY <1>2, <2>2, <3>3, <3>4 DEF FollowsAt
    <3>6. CASE ~ logged_in
      BY <2>2, <3>2, <3>6 DEF FollowsAt
    <3>7. CASE logged_in
      <4>1. Len(events) = 1 /\ 1 \in DOMAIN r
        BY <1>2, <2>2, <3>5, <3>7
      <4>2. PICK j : j = Len(bus) - 1 + 1
        OBVIOUS
      <4>3. j \in DOMAIN bus' /\ bus'[j] = r[1]
        BY <2>2, <4>1, <4>2
      <4>4. j < i
        BY <3>1, <3>2, <4>1, <4>2, EventKinds
      <4>5. IsEvent(bus'[j]) /\ bus'[j].track = caller'[c].cmd.jobs[1]
        BY <2>2, <3>5, <4>1, <4>3 DEF IsEvent
      <4>6. bus'[i].type # "StartSearch"
        BY <2>2, <3>2
      <4>7. QED
        BY <4>3, <4>4, <4>5, <4>6 DEF FollowsAt, IsEvent
    <3>8. QED
      BY <3>6, <3>7
  <2>5. QED
    BY <2>2, <2>3, <2>4 DEF BusMoves
<1>5. QED
  BY <1>3, <1>4

LEMMA FollowedStep ==
  ASSUME EntriesInv, CardsInv, [Next]_vars
  PROVE  ReplacedIsFollowed'
<1> SUFFICES ASSUME NEW c \in Callers, Replacing(c)'
             PROVE  Followed(c)'
  BY DEF ReplacedIsFollowed
<1>1. caller'[c] = caller[c] \/ Sends(c) \/ TakesAnswer(c)
  BY CallerStep DEF Ends, Replacing
<1>2. Old(caller[c].replace) /\ caller[c].replace \in Nat
  BY ReplaceStep DEF CardsInv, TokensRise
<1>3. Covered(caller[c].replace) => \A token : token = caller[c].replace => Covered(token)'
  BY <1>2, CoveredStays DEF CardsInv
<1>4. CASE caller'[c] = caller[c]
  <2>1. Replacing(c)
    BY <1>4 DEF Replacing
  <2>2. Followed(c)
    BY <2>1 DEF CardsInv, ReplacedIsFollowed
  <2>3. \A row \in searches' :
          row.token = caller'[c].replace => row.track = caller'[c].cmd.jobs[1]
    BY <1>4, <2>1, RowsKeepTrack
  <2>4. caller'[c].reply # <<>> =>
          Head(caller'[c].reply).error \/ Covered(caller[c].replace)'
    <3>1. PICK token : token = caller[c].replace /\ token = caller'[c].replace
      BY <1>4
    <3>2. Covered(caller[c].replace) => Covered(token)'
      BY <1>3, <3>1
    <3>3. Covered(token)' => Covered(caller[c].replace)'
      BY <3>1, Zenon DEF Covered
    <3>4. QED
      BY <1>4, <2>2, <3>2, <3>3 DEF Followed
  <2>5. ASSUME caller[c].reply = <<>>, NEW i \in DOMAIN cmds', To(cmds'[i], caller[c].corr)
        PROVE  cmds'[i].jobs = caller[c].cmd.jobs
    <3>1. caller[c].corr \in Nat \ {0} /\ caller[c].corr # corr + 1
      BY <2>1, <2>5, WaitingKinds
    <3>2. \E j \in DOMAIN cmds : cmds'[i] = cmds[j]
      BY <2>5, <3>1, CmdsStep
    <3>3. QED
      BY <2>2, <2>5, <3>2 DEF Followed
  <2>6. caller[c].reply = <<>> =>
          \A i \in DOMAIN bus' : To(bus'[i], caller[c].corr) => FollowsAt(c, i)'
    BY <1>4, <2>1, FollowsOnBus
  <2>7. QED
    BY <1>4, <2>2, <2>3, <2>4, <2>5, <2>6 DEF Followed
<1>5. CASE TakesAnswer(c)
  <2>1. /\ 1 \in DOMAIN bus /\ To(bus[1], caller[c].corr)
        /\ caller'[c].reply = <<bus[1].result>> /\ caller'[c].pc = "waiting"
        /\ caller'[c].corr = caller[c].corr /\ caller'[c].cmd = caller[c].cmd
        /\ caller'[c].replace = caller[c].replace
        /\ caller[c].cmd.type = "StartSearch" => bus[1].type = "StartSearchResult"
        /\ caller[c].reply = <<>> /\ caller[c].pc = "waiting"
    BY <1>5, AnswerFacts DEF TakesAnswer
  <2>2. Replacing(c)
    BY <2>1 DEF Replacing
  <2>3. Followed(c) /\ bus[1].type = "StartSearchResult"
    BY <2>1, <2>2 DEF CardsInv, ReplacedIsFollowed, Replacing
  <2>4. FollowsAt(c, 1)
    BY <2>1, <2>3 DEF Followed
  <2>5. bus[1].result.error \/ Covered(caller[c].replace)
    BY <2>3, <2>4, EventKinds DEF FollowsAt
  <2>6. Head(caller'[c].reply) = bus[1].result /\ caller'[c].reply # <<>>
    BY <2>1
  <2>7. \A row \in searches' :
          row.token = caller'[c].replace => row.track = caller'[c].cmd.jobs[1]
    BY <2>1, <2>2, RowsKeepTrack
  <2>8. Head(caller'[c].reply).error \/ Covered(caller[c].replace)'
    <3>1. PICK token : token = caller[c].replace /\ token = caller'[c].replace
      BY <2>1
    <3>2. Covered(caller[c].replace) => Covered(token)'
      BY <1>3, <3>1
    <3>3. Covered(token)' => Covered(caller[c].replace)'
      BY <3>1, Zenon DEF Covered
    <3>4. QED
      BY <2>5, <2>6, <3>2, <3>3
  <2>9. QED
    BY <2>1, <2>3, <2>6, <2>7, <2>8 DEF Followed
<1>6. QED
  BY <1>1, <1>4, <1>5, SentFollows

-----------------------------------------------------------------------------
(* The cards follow what the callers are told.                               *)

LEMMA CardsInit ==
  ASSUME Init
  PROVE  CardsInv
<1>1. EntriesInv
  BY EntriesInit
<1>2. /\ bus = <<>> /\ cmds = <<>> /\ next_token = Len(Given) + 1
      /\ searches = {[token |-> t, track |-> Given[t]] : t \in DOMAIN Given}
      /\ listed = TracksShown /\ \A c \in Callers : caller[c] = NoCall
  BY DEF Init
<1>3. Len(Given) \in Nat /\ DOMAIN Given = 1 .. Len(Given)
  BY BridgeAssumption, LenProperties
<1>4. \A row \in searches : row.token \in 1 .. Len(Given) /\ row.track = Given[row.token]
  BY <1>2, <1>3
<1>5. \A row, other \in searches : row.token = other.token => row = other
  BY <1>2
<1>6. \A token \in Nat : token <= Len(Given) => Old(token)
  BY <1>2, <1>3 DEF Old
<1>7. TokensRise
  BY <1>2, <1>3, <1>4, <1>5, <1>6 DEF TokensRise, NoCall, ToRemove, RemovalOf
<1>8. RemovedIsCovered
  BY <1>2 DEF RemovedIsCovered, ToRemove, RemovalOf
<1>9. ToldIsShown /\ ReplacedIsFollowed
  BY <1>2 DEF ToldIsShown, ReplacedIsFollowed, Replacing, NoCall
<1>10. ListedIsShown
  BY <1>2 DEF ListedIsShown
<1>11. QED
  BY <1>7, <1>8, <1>9, <1>10 DEF CardsInv

\* A client finds the card of each search it was told of, and no track is lost that was not
\* given up (search: the replaced card goes only after the one that takes its place is there):
\* for any number of clients, whatever fails, times out or goes away.
THEOREM CardsAlwaysFollow == Spec => []CardsFollow
<1>1. Init => EntriesInv /\ CardsInv
  BY EntriesInit, CardsInit
<1>2. EntriesInv /\ CardsInv /\ [Next]_vars => CardsInv'
  BY TokensRiseStep, RemovedStep, ToldStep, FollowedStep, ListedStep DEF CardsInv
<1>3. CardsInv => CardsFollow
  BY DEF CardsInv, ToldIsShown, ListedIsShown, Shown, CardsFollow
<1>4. QED
  BY <1>1, <1>2, <1>3, EntriesAlways, PTL DEF Spec

-----------------------------------------------------------------------------
(* The lists of transfers.                                                   *)

(* Lists: what is kept, what makes room, and how many there are.             *)

\* The n-th of a finite set of places is one of them, and each of them is the n-th for some n.
LEMMA PlacesInOrder ==
  ASSUME NEW len \in Nat, NEW places \in SUBSET (1 .. len)
  PROVE  /\ IsFiniteSet(places) /\ Cardinality(places) \in Nat
         /\ \A i \in places :
              Cardinality({j \in places : j <= i}) \in 1 .. Cardinality(places)
         /\ \A i, k \in places :
              Cardinality({j \in places : j <= i}) = Cardinality({j \in places : j <= k}) => i = k
         /\ \A n \in 1 .. Cardinality(places) :
              \E i \in places : Cardinality({j \in places : j <= i}) = n
<1>1. IsFiniteSet(places) /\ Cardinality(places) \in Nat
  <2>1. IsFiniteSet(1 .. len)
    BY FS_Interval
  <2>2. QED
    BY <2>1, FS_Subset, FS_CardinalityType
<1>2. ASSUME NEW i \in places
      PROVE  /\ Cardinality({j \in places : j <= i}) \in 1 .. Cardinality(places)
             /\ IsFiniteSet({j \in places : j <= i})
  <2>1. /\ IsFiniteSet({j \in places : j <= i})
        /\ Cardinality({j \in places : j <= i}) <= Cardinality(places)
        /\ Cardinality({j \in places : j <= i}) \in Nat
    <3>1. {j \in places : j <= i} \subseteq places
      OBVIOUS
    <3>2. QED
      BY <1>1, <3>1, FS_Subset, FS_CardinalityType
  <2>2. i \in {j \in places : j <= i}
    BY <1>2
  <2>3. Cardinality({j \in places : j <= i}) # 0
    BY <2>1, <2>2, FS_EmptySet
  <2>4. QED
    BY <1>1, <2>1, <2>3
<1>3. ASSUME NEW i \in places, NEW k \in places, i < k
      PROVE  Cardinality({j \in places : j <= i}) # Cardinality({j \in places : j <= k})
  <2>1. /\ {j \in places : j <= i} \subseteq {j \in places : j <= k}
        /\ k \in {j \in places : j <= k} /\ k \notin {j \in places : j <= i}
    <3>1. \A j \in places : j \in Nat
      OBVIOUS
    <3>2. i \in Nat /\ k \in Nat /\ ~ k <= i /\ k <= k /\ \A j \in Nat : j <= i => j <= k
      BY <1>3, <3>1
    <3>3. QED
      BY <3>1, <3>2, Zenon
  <2>2. {j \in places : j <= i} # {j \in places : j <= k}
    BY <2>1
  <2>3. QED
    BY <1>2, <2>1, <2>2, FS_Subset
<1>4. \A i, k \in places :
        Cardinality({j \in places : j <= i}) = Cardinality({j \in places : j <= k}) => i = k
  BY <1>3
<1>5. ASSUME NEW n \in 1 .. Cardinality(places)
      PROVE  \E i \in places : Cardinality({j \in places : j <= i}) = n
  <2> DEFINE order == [i \in places |-> Cardinality({j \in places : j <= i})]
  <2>1. order \in [places -> 1 .. Cardinality(places)]
    BY <1>2
  <2>2. order \in Injection(places, 1 .. Cardinality(places))
    BY <1>4, <2>1 DEF Injection, IsInjective
  <2>3. /\ IsFiniteSet(1 .. Cardinality(places))
        /\ Cardinality(1 .. Cardinality(places)) = Cardinality(places)
    BY <1>1, FS_Interval
  <2>4. order \in Surjection(places, 1 .. Cardinality(places))
    BY <2>2, <2>3, FS_Injection
  <2>5. QED
    BY <2>4 DEF Surjection
<1>6. QED
  BY <1>1, <1>2, <1>4, <1>5

LEMMA KeptHolds ==
  ASSUME NEW S, NEW list \in Seq(S), NEW places \in SUBSET DOMAIN list
  PROVE  /\ Kept(list, places) \in Seq(S)
         /\ \A i \in places : \E n \in DOMAIN Kept(list, places) : Kept(list, places)[n] = list[i]
         /\ \A n \in DOMAIN Kept(list, places) : \E i \in places : Kept(list, places)[n] = list[i]
<1> DEFINE at(i) == Cardinality({j \in places : j <= i})
           place(n) == CHOOSE i \in places : at(i) = n
<1>1. /\ Len(list) \in Nat /\ DOMAIN list = 1 .. Len(list)
      /\ \A i \in DOMAIN list : list[i] \in S
  OBVIOUS
<1>2. /\ Cardinality(places) \in Nat
      /\ \A i \in places : at(i) \in 1 .. Cardinality(places)
      /\ \A i, k \in places : at(i) = at(k) => i = k
      /\ \A n \in 1 .. Cardinality(places) : \E i \in places : at(i) = n
  <2>1. places \in SUBSET (1 .. Len(list))
    BY <1>1
  <2>2. QED
    BY <1>1, <2>1, PlacesInOrder
<1> HIDE DEF at
<1>3. Kept(list, places) = [n \in 1 .. Cardinality(places) |-> list[place(n)]]
  BY Zenon DEF Kept, at
<1>4. \A n \in 1 .. Cardinality(places) : place(n) \in places /\ at(place(n)) = n
  BY <1>2
<1> HIDE DEF place
<1>5. Kept(list, places) \in Seq(S)
  <2>1. \A n \in 1 .. Cardinality(places) : list[place(n)] \in S
    BY <1>1, <1>4
  <2>2. QED
    BY <1>2, <1>3, <2>1, IsASeq
<1>6. DOMAIN Kept(list, places) = 1 .. Cardinality(places)
  BY <1>3
<1>7. ASSUME NEW i \in places
      PROVE  \E n \in DOMAIN Kept(list, places) : Kept(list, places)[n] = list[i]
  <2>1. at(i) \in 1 .. Cardinality(places) /\ place(at(i)) = i
    BY <1>2, <1>4
  <2>2. QED
    BY <1>3, <1>6, <2>1
<1>8. \A n \in DOMAIN Kept(list, places) : \E i \in places : Kept(list, places)[n] = list[i]
  BY <1>3, <1>4, <1>6
<1>9. QED
  BY <1>5, <1>7, <1>8

LEMMA LeastPlace ==
  ASSUME NEW len \in Nat, NEW places \in SUBSET (1 .. len), places # {}
  PROVE  Min(places) \in places
<1> DEFINE at(i) == Cardinality({j \in places : j <= i})
<1>1. /\ IsFiniteSet(places) /\ Cardinality(places) \in Nat
      /\ \A i \in places : at(i) \in 1 .. Cardinality(places)
      /\ \A n \in 1 .. Cardinality(places) : \E i \in places : at(i) = n
  BY PlacesInOrder
<1>2. 1 \in 1 .. Cardinality(places)
  <2>1. PICK i \in places : TRUE
    OBVIOUS
  <2>2. PICK n : n = at(i) /\ n \in 1 .. Cardinality(places)
    BY <1>1, <2>1
  <2>3. QED
    BY <1>1, <2>2
<1>3. PICK least \in places : at(least) = 1
  BY <1>1, <1>2
<1>4. ASSUME NEW i \in places, i < least
      PROVE  FALSE
  <2>1. \A j \in places : j \in Nat
    OBVIOUS
  <2>2. ~ least <= i /\ least <= least /\ \A j \in Nat : j <= i => j <= least
    BY <1>4, <2>1
  <2>3. /\ {j \in places : j <= i} \subseteq {j \in places : j <= least}
        /\ least \in {j \in places : j <= least} /\ least \notin {j \in places : j <= i}
    BY <1>3, <2>1, <2>2, Zenon
  <2>4. IsFiniteSet({j \in places : j <= least})
    BY <1>1, FS_Subset
  <2>5. at(i) \in Nat /\ at(least) \in Nat /\ at(i) < at(least)
    <3>1. {j \in places : j <= i} # {j \in places : j <= least}
      BY <2>3
    <3>2. QED
      BY <2>3, <2>4, <3>1, FS_Subset, FS_CardinalityType
  <2>6. QED
    BY <1>1, <1>3, <2>5
<1>5. \A i \in places : least <= i
  BY <1>4
<1>6. QED
  BY <1>3, <1>5 DEF Min

LEMMA RemoveAtHolds ==
  ASSUME NEW S, NEW list \in Seq(S), NEW i \in DOMAIN list, NEW left, left = RemoveAt(list, i)
  PROVE  left \in Seq(S) /\ \A n \in DOMAIN left : \E j \in DOMAIN list : left[n] = list[j]
<1>1. /\ Len(list) \in Nat /\ i \in 1 .. Len(list) /\ DOMAIN list = 1 .. Len(list)
      /\ \A j \in 1 .. Len(list) : list[j] \in S
  OBVIOUS
<1>2. PICK before : before = SubSeq(list, 1, i - 1)
  OBVIOUS
<1>3. PICK after : after = SubSeq(list, i + 1, Len(list))
  OBVIOUS
<1>4. /\ before \in Seq(S) /\ Len(before) = i - 1
      /\ \A n \in 1 .. i - 1 : before[n] = list[n]
  <2>1. \A j \in 1 .. i - 1 : list[j] \in S
    BY <1>1
  <2>2. 1 \in Int /\ i - 1 \in Int
    BY <1>1
  <2>3. /\ SubSeq(list, 1, i - 1) \in Seq(S)
        /\ Len(SubSeq(list, 1, i - 1)) = IF 1 <= i - 1 THEN i - 1 - 1 + 1 ELSE 0
        /\ \A n \in 1 .. i - 1 - 1 + 1 : SubSeq(list, 1, i - 1)[n] = list[1 + n - 1]
    BY <2>1, <2>2, SubSeqProperties
  <2>4. \A n \in 1 .. i - 1 : 1 + n - 1 = n
    OBVIOUS
  <2>5. QED
    BY <1>1, <1>2, <2>3, <2>4
<1>5. /\ after \in Seq(S) /\ Len(after) = Len(list) - i
      /\ \A n \in 1 .. Len(list) - i : after[n] = list[i + n]
  <2>1. \A j \in i + 1 .. Len(list) : list[j] \in S
    BY <1>1
  <2>2. i + 1 \in Int /\ Len(list) \in Int
    BY <1>1
  <2>3. /\ SubSeq(list, i + 1, Len(list)) \in Seq(S)
        /\ Len(SubSeq(list, i + 1, Len(list)))
             = IF i + 1 <= Len(list) THEN Len(list) - (i + 1) + 1 ELSE 0
        /\ \A n \in 1 .. Len(list) - (i + 1) + 1 :
             SubSeq(list, i + 1, Len(list))[n] = list[i + 1 + n - 1]
    BY <2>1, <2>2, SubSeqProperties
  <2>4. \A n \in 1 .. Len(list) - i : i + 1 + n - 1 = i + n
    BY <1>1
  <2>5. QED
    BY <1>1, <1>3, <2>3, <2>4
<1>6. RemoveAt(list, i) = before \o after
  BY <1>2, <1>3 DEF RemoveAt
<1>7. /\ before \o after \in Seq(S) /\ DOMAIN (before \o after) = 1 .. Len(list) - 1
      /\ \A n \in 1 .. Len(list) - 1 :
           (before \o after)[n] = IF n <= i - 1 THEN before[n] ELSE after[n - (i - 1)]
  <2>1. /\ before \o after \in Seq(S) /\ Len(before \o after) = Len(before) + Len(after)
        /\ \A n \in 1 .. Len(before) + Len(after) :
             (before \o after)[n] = IF n <= Len(before) THEN before[n] ELSE after[n - Len(before)]
    BY <1>4, <1>5, ConcatProperties
  <2>2. Len(before) + Len(after) = Len(list) - 1
    BY <1>1, <1>4, <1>5
  <2>3. QED
    BY <1>4, <2>1, <2>2
<1>8. \A n \in 1 .. Len(list) - 1 : \E j \in DOMAIN list : (before \o after)[n] = list[j]
  <2>1. SUFFICES ASSUME NEW n \in 1 .. Len(list) - 1
                 PROVE  \E j \in DOMAIN list : (before \o after)[n] = list[j]
    OBVIOUS
  <2>2. CASE n <= i - 1
    <3>1. n \in 1 .. i - 1 /\ n \in DOMAIN list
      BY <1>1, <2>1, <2>2
    <3>2. QED
      BY <1>4, <1>7, <2>1, <2>2, <3>1
  <2>3. CASE ~ n <= i - 1
    <3>1. n - (i - 1) \in 1 .. Len(list) - i /\ i + (n - (i - 1)) = n + 1
          /\ n + 1 \in DOMAIN list
      BY <1>1, <2>3
    <3>2. QED
      BY <1>5, <1>7, <2>3, <3>1
  <2>4. QED
    BY <2>2, <2>3
<1>9. left = before \o after
  BY <1>6
<1>10. QED
  BY <1>7, <1>8, <1>9

\* A list cut to the length that is allowed.
LEMMA CutHolds ==
  ASSUME NEW S, NEW list \in Seq(S), NEW n \in 0 .. Len(list)
  PROVE  /\ SubSeq(list, 1, n) \in Seq(S)
         /\ \A i \in DOMAIN SubSeq(list, 1, n) :
              i \in DOMAIN list /\ SubSeq(list, 1, n)[i] = list[i]
<1>1. Len(list) \in Nat /\ \A i \in 1 .. n : i \in DOMAIN list /\ list[i] \in S
  OBVIOUS
<1>2. 1 \in Int /\ n \in Int
  BY <1>1
<1>3. /\ SubSeq(list, 1, n) \in Seq(S)
      /\ Len(SubSeq(list, 1, n)) = IF 1 <= n THEN n - 1 + 1 ELSE 0
      /\ \A i \in 1 .. n - 1 + 1 : SubSeq(list, 1, n)[i] = list[1 + i - 1]
  BY <1>1, <1>2, SubSeqProperties
<1>4. DOMAIN SubSeq(list, 1, n) = 1 .. n /\ \A i \in 1 .. n : 1 + i - 1 = i
  BY <1>1, <1>3
<1>5. QED
  BY <1>1, <1>3, <1>4

\* Where, and how often, m is in the list q from the place p on.
Places(q, p, m) == {i \in DOMAIN q : i >= p /\ q[i] = m}
Count(q, p, m) == Cardinality(Places(q, p, m))

LEMMA CountType ==
  ASSUME NEW S, NEW q \in Seq(S), NEW p, NEW m
  PROVE  IsFiniteSet(Places(q, p, m)) /\ Count(q, p, m) \in Nat
<1>1. Len(q) \in Nat /\ DOMAIN q = 1 .. Len(q)
  OBVIOUS
<1>2. IsFiniteSet(1 .. Len(q))
  BY <1>1, FS_Interval
<1>3. IsFiniteSet(Places(q, p, m))
  BY <1>1, <1>2, FS_Subset DEF Places
<1>4. QED
  BY <1>3, FS_CardinalityType DEF Count

LEMMA CountNone ==
  ASSUME NEW S, NEW q \in Seq(S), NEW p \in Nat, NEW m,
         p > Len(q) \/ \A i \in DOMAIN q : q[i] # m
  PROVE  Count(q, p, m) = 0
<1>1. Places(q, p, m) = {}
  BY DEF Places
<1>2. QED
  BY <1>1, FS_EmptySet DEF Count

LEMMA CountAppend ==
  ASSUME NEW S, NEW q \in Seq(S), NEW e \in S, NEW p \in 1 .. Len(q) + 1, NEW m
  PROVE  Count(Append(q, e), p, m) = Count(q, p, m) + (IF e = m THEN 1 ELSE 0)
<1> DEFINE before == Places(q, p, m)
           after == Places(Append(q, e), p, m)
<1>1. /\ Len(q) \in Nat /\ DOMAIN q = 1 .. Len(q)
      /\ DOMAIN Append(q, e) = 1 .. Len(q) + 1
      /\ \A i \in 1 .. Len(q) : Append(q, e)[i] = q[i]
      /\ Append(q, e)[Len(q) + 1] = e
  OBVIOUS
<1>2. IsFiniteSet(before) /\ Cardinality(before) \in Nat
  BY CountType DEF Count
<1>3. CASE e = m
  <2>1. after = before \cup {Len(q) + 1} /\ Len(q) + 1 \notin before
    BY <1>1, <1>3 DEF Places
  <2>2. QED
    BY <1>2, <1>3, <2>1, FS_AddElement DEF Count
<1>4. CASE e # m
  <2>1. after = before
    BY <1>1, <1>4 DEF Places
  <2>2. QED
    BY <1>2, <1>4, <2>1 DEF Count
<1>5. QED
  BY <1>3, <1>4

LEMMA CountTail ==
  ASSUME NEW S, NEW q \in Seq(S), q # <<>>, NEW p \in Nat \ {0}, NEW m
  PROVE  /\ Count(Tail(q), p, m) = Count(q, p + 1, m)
         /\ Count(q, 1, m) = Count(q, 2, m) + (IF Head(q) = m THEN 1 ELSE 0)
<1>1. /\ Len(q) \in Nat \ {0} /\ DOMAIN q = 1 .. Len(q) /\ Head(q) = q[1]
      /\ DOMAIN Tail(q) = 1 .. Len(q) - 1
      /\ \A i \in 1 .. Len(q) - 1 : Tail(q)[i] = q[i + 1]
  OBVIOUS
<1>2. Count(Tail(q), p, m) = Count(q, p + 1, m)
  <2> DEFINE before == Places(q, p + 1, m)
             after == Places(Tail(q), p, m)
             shift == [i \in before |-> i - 1]
  <2>1. \A i \in before : i - 1 \in after
    BY <1>1 DEF Places
  <2>2. \A i \in after : i + 1 \in before /\ (i + 1) - 1 = i
    BY <1>1 DEF Places
  <2>3. shift \in [before -> after]
    BY <2>1
  <2>4. \A i, j \in before : shift[i] = shift[j] => i = j
    BY <1>1 DEF Places
  <2>5. \A j \in after : \E i \in before : shift[i] = j
    BY <2>2
  <2> HIDE DEF shift, before, after
  <2>6. shift \in Bijection(before, after)
    BY <2>3, <2>4, <2>5 DEF Bijection, Injection, IsInjective, Surjection
  <2>7. IsFiniteSet(before)
    BY CountType DEF before
  <2>8. Cardinality(before) = Cardinality(after)
    BY <2>6, <2>7, FS_Bijection DEF ExistsBijection
  <2>9. QED
    BY <2>8 DEF Count, before, after
<1>3. Count(q, 1, m) = Count(q, 2, m) + (IF Head(q) = m THEN 1 ELSE 0)
  <2> DEFINE all == Places(q, 1, m)
             rest == Places(q, 2, m)
  <2>1. IsFiniteSet(rest) /\ Cardinality(rest) \in Nat
    BY CountType DEF Count
  <2>2. CASE Head(q) = m
    <3>1. all = rest \cup {1} /\ 1 \notin rest
      BY <1>1, <2>2 DEF Places
    <3>2. QED
      BY <2>1, <2>2, <3>1, FS_AddElement DEF Count
  <2>3. CASE Head(q) # m
    <3>1. all = rest
      BY <1>1, <2>3 DEF Places
    <3>2. QED
      BY <2>1, <2>3, <3>1 DEF Count
  <2>4. QED
    BY <2>2, <2>3
<1>4. QED
  BY <1>2, <1>3

\* One of the list changes.
LEMMA CountChanged ==
  ASSUME NEW S, NEW q \in Seq(S), NEW i \in DOMAIN q, NEW e, NEW m, q[i] # e
  PROVE  Count([q EXCEPT ![i] = e], 1, m) + (IF q[i] = m THEN 1 ELSE 0)
           = Count(q, 1, m) + (IF e = m THEN 1 ELSE 0)
<1> DEFINE before == Places(q, 1, m)
           others == before \ {i}
           after == Places([q EXCEPT ![i] = e], 1, m)
<1>1. DOMAIN q \subseteq Nat \ {0} /\ DOMAIN [q EXCEPT ![i] = e] = DOMAIN q
  OBVIOUS
<1>2. IsFiniteSet(before) /\ others \subseteq before
  BY CountType
<1>3. IsFiniteSet(others) /\ Cardinality(others) \in Nat /\ i \notin others
  BY <1>2, FS_Subset, FS_CardinalityType
<1>4. Cardinality(before) = Cardinality(others) + (IF q[i] = m THEN 1 ELSE 0)
  <2>1. CASE q[i] = m
    <3>1. before = others \cup {i}
      BY <1>1, <2>1 DEF Places
    <3>2. QED
      BY <1>3, <2>1, <3>1, FS_AddElement
  <2>2. CASE q[i] # m
    <3>1. before = others
      BY <2>2 DEF Places
    <3>2. Cardinality(before) = Cardinality(others)
      BY <3>1, Zenon
    <3>3. QED
      BY <1>3, <2>2, <3>2
  <2>3. QED
    BY <2>1, <2>2
<1>5. Cardinality(after) = Cardinality(others) + (IF e = m THEN 1 ELSE 0)
  <2>1. CASE e = m
    <3>1. after = others \cup {i}
      BY <1>1, <2>1 DEF Places
    <3>2. QED
      BY <1>3, <2>1, <3>1, FS_AddElement
  <2>2. CASE e # m
    <3>1. after = others
      BY <1>1, <2>2 DEF Places
    <3>2. Cardinality(after) = Cardinality(others)
      BY <3>1, Zenon
    <3>3. QED
      BY <1>3, <2>2, <3>2
  <2>3. QED
    BY <2>1, <2>2
<1>6. QED
  BY <1>3, <1>4, <1>5 DEF Count

-----------------------------------------------------------------------------
(* The types.  Rows come from the user, who names files of others, and from  *)
(* the disk.  A row, shown, saved or being written, that tells of a finished *)
(* file of the download folder itself has its file there, and so has the     *)
(* news of one.                                                              *)

RowKeys == Keys \cup files \cup {Named(k) : k \in Keys}

States == {"active", "paused", "failed", "completed", "incomplete"}

OnFile(key) == key \in files \/ \E file \in files : file.name = NameOf[key]

Backed(row) == Filed(row) => OnFile(row.key)

Rows == {row \in [key : RowKeys, state : States] : Backed(row)}

Contents == {<<>>} \cup {<<saved>> : saved \in Seq(Rows)}

UploadRow == [key : Keys, state : {"active", "ended"}]

Clicks == [type : {"StartDownload", "CancelDownload", "PauseDownload", "DownloadQueuePosition"},
           key : RowKeys]
EndNews ==
  {m \in [type : {"Outcome"}, key : Keys, state : {"failed", "completed"}] : Backed(m)}
UploadNews == [type : {"UploadStarted", "UploadEnded"}, key : Keys]

RowMessages == Clicks \cup EndNews \cup UploadNews

DownloadsType ==
  /\ rows \in Seq(Rows)
  /\ history \in Contents /\ writing \in Contents
  /\ IsFiniteSet(files)
  /\ partials \subseteq Keys /\ IsFiniteSet(partials)

UploadsType ==
  /\ uploads \in Seq(UploadRow)
  /\ streams \in [Keys -> [gated : Nat, collected : Nat]]
  /\ orders \in Seq(Keys)
  /\ overtaken \in [Keys -> Nat]

RowTypes == DownloadsType /\ UploadsType /\ news \in Seq(RowMessages)

LEMMA SameRows ==
  ASSUME UNCHANGED files
  PROVE  Rows' = Rows /\ RowKeys' = RowKeys /\ Contents' = Contents /\ RowMessages' = RowMessages
<1>1. RowKeys' = RowKeys
  BY DEF RowKeys, Named, FileName
<1>2. \A row : Backed(row)' <=> Backed(row)
  BY DEF Backed, OnFile, Filed
<1>3. Rows' = Rows /\ Clicks' = Clicks /\ EndNews' = EndNews
  BY <1>1, <1>2 DEF Rows, Clicks, EndNews
<1>4. QED
  BY <1>1, <1>3 DEF Contents, RowMessages, UploadNews

LEMMA MoreRows ==
  ASSUME files \subseteq files'
  PROVE  /\ Rows \subseteq Rows' /\ Contents \subseteq Contents'
         /\ RowMessages \subseteq RowMessages'
         /\ Seq(Rows) \subseteq Seq(Rows') /\ Seq(RowMessages) \subseteq Seq(RowMessages')
<1>1. RowKeys \subseteq RowKeys'
  BY DEF RowKeys, Named, FileName
<1>2. Rows \subseteq Rows' /\ Clicks \subseteq Clicks' /\ EndNews \subseteq EndNews'
  <2>1. \A row : Backed(row) => Backed(row)'
    BY DEF Backed, OnFile, Filed
  <2>2. QED
    BY <1>1, <2>1 DEF Rows, Clicks, EndNews
<1>3. RowMessages \subseteq RowMessages'
  BY <1>2 DEF RowMessages, UploadNews
<1>4. Seq(Rows) \subseteq Seq(Rows') /\ Seq(RowMessages) \subseteq Seq(RowMessages')
  BY <1>2, <1>3, SeqMonotonic
<1>5. Contents \subseteq Contents'
  BY <1>4 DEF Contents
<1>6. QED
  BY <1>2, <1>3, <1>4, <1>5

LEMMA ArrivedHolds ==
  ASSUME news \in Seq(RowMessages), NEW type, Comes(type)
  PROVE  /\ writing = <<>> /\ news # <<>> /\ 1 \in DOMAIN news /\ news[1] = Head(news)
         /\ Tail(news) \in Seq(RowMessages) /\ Len(Tail(news)) = Len(news) - 1
         /\ \A i \in DOMAIN news :
              i # 1 => i - 1 \in DOMAIN Tail(news) /\ Tail(news)[i - 1] = news[i]
         /\ Head(news) \in RowMessages /\ Head(news).type = type
<1>1. writing = <<>> /\ news # <<>> /\ Head(news).type = type
  BY DEF Comes
<1>2. /\ Tail(news) \in Seq(RowMessages) /\ Len(Tail(news)) = Len(news) - 1
      /\ Head(news) \in RowMessages
      /\ \A i \in 1 .. Len(Tail(news)) : Tail(news)[i] = news[i + 1]
  BY <1>1, HeadTailProperties
<1>3. Len(news) \in Nat \ {0} /\ DOMAIN news = 1 .. Len(news) /\ news[1] = Head(news)
  BY <1>1
<1>4. ASSUME NEW i \in DOMAIN news, i # 1
      PROVE  i - 1 \in DOMAIN Tail(news) /\ Tail(news)[i - 1] = news[i]
  <2>1. i - 1 \in 1 .. Len(Tail(news)) /\ (i - 1) + 1 = i
    BY <1>2, <1>3, <1>4
  <2>2. QED
    BY <1>2, <2>1
<1>5. 1 \in DOMAIN news
  BY <1>3
<1>6. QED
  BY <1>1, <1>2, <1>3, <1>4, <1>5

\* A row changes or is added, and one may go; the others stay what they were.
LEMMA WithStateHolds ==
  ASSUME rows \in Seq(Rows), NEW key \in RowKeys, NEW state \in States, Backed(Row(key, state))
  PROVE  /\ WithState(key, state) \in Seq(Rows)
         /\ \A i \in DOMAIN WithState(key, state) :
              \/ WithState(key, state)[i] = Row(key, state)
              \/ \E j \in DOMAIN rows : WithState(key, state)[i] = rows[j]
<1>1. PICK of : of = {i \in DOMAIN rows : rows[i].key = key}
  OBVIOUS
<1>2. PICK grown : grown = Append(rows, Row(key, state))
  OBVIOUS
<1>3. PICK idle : idle = {i \in DOMAIN grown : ~ IsActive(grown[i].state)}
  OBVIOUS
<1>4. /\ Len(rows) \in Nat /\ DOMAIN rows = 1 .. Len(rows)
      /\ \A i \in DOMAIN rows : rows[i] \in Rows
  OBVIOUS
<1>5. WithState(key, state) =
        IF of # {} THEN [rows EXCEPT ![Min(of)].state = state]
        ELSE IF Len(grown) <= MaxRows THEN grown
        ELSE RemoveAt(grown, IF idle = {} THEN 1 ELSE Min(idle))
  BY <1>1, <1>2, <1>3 DEF WithState, Positions
<1>6. Row(key, state) \in Rows
  BY DEF Row, Rows, Backed, Filed
<1>7. /\ grown \in Seq(Rows)
      /\ \A i \in DOMAIN grown :
           grown[i] = Row(key, state) \/ \E j \in DOMAIN rows : grown[i] = rows[j]
      /\ 1 \in DOMAIN grown /\ DOMAIN grown = 1 .. Len(rows) + 1
  <2>1. grown \in Seq(Rows)
    BY <1>2, <1>6
  <2>2. DOMAIN grown = 1 .. Len(rows) + 1
    BY <1>2, <1>4
  <2>3. \A i \in 1 .. Len(rows) : grown[i] = rows[i]
    BY <1>2, <1>4
  <2>4. grown[Len(rows) + 1] = Row(key, state)
    BY <1>2, <1>4
  <2>5. ASSUME NEW i \in DOMAIN grown
        PROVE  grown[i] = Row(key, state) \/ \E j \in DOMAIN rows : grown[i] = rows[j]
    <3>1. i \in 1 .. Len(rows) \/ i = Len(rows) + 1
      BY <1>4, <2>2
    <3>2. QED
      BY <1>4, <2>3, <2>4, <3>1
  <2>6. QED
    BY <1>4, <2>1, <2>2, <2>5
<1>8. CASE of # {}
  <2>1. Min(of) \in of
    BY <1>1, <1>4, <1>8, LeastPlace
  <2>2. PICK m \in DOMAIN rows : m = Min(of) /\ rows[m].key = key
    BY <1>1, <2>1
  <2>3. PICK new : new = [rows EXCEPT ![m].state = state]
    OBVIOUS
  <2>4. WithState(key, state) = new
    BY <1>5, <1>8, <2>2, <2>3
  <2>5. /\ DOMAIN new = DOMAIN rows
        /\ \A i \in DOMAIN rows : i # m => new[i] = rows[i]
        /\ new[m] = [rows[m] EXCEPT !.state = state]
    BY <2>3
  <2>6. rows[m] \in Rows
    BY <1>4
  <2>7. [rows[m] EXCEPT !.state = state] = Row(key, state)
    BY <2>2, <2>6 DEF Rows, Row
  <2>8. \A i \in DOMAIN new : new[i] \in Rows
    BY <1>4, <1>6, <2>5, <2>7
  <2>9. new \in Seq(Rows)
    BY <1>4, <2>3, <2>5, <2>8
  <2>10. QED
    BY <2>4, <2>5, <2>7, <2>9
<1>9. CASE of = {} /\ Len(grown) <= MaxRows
  BY <1>5, <1>7, <1>9
<1>10. CASE of = {} /\ ~ Len(grown) <= MaxRows
  <2>1. PICK place \in DOMAIN grown : place = IF idle = {} THEN 1 ELSE Min(idle)
    <3>1. CASE idle = {}
      BY <1>7, <3>1
    <3>2. CASE idle # {}
      <4>1. Min(idle) \in idle
        <5>1. idle \in SUBSET (1 .. Len(rows) + 1) /\ Len(rows) + 1 \in Nat
          BY <1>3, <1>4, <1>7
        <5>2. QED
          BY <3>2, <5>1, LeastPlace
      <4>2. QED
        BY <1>3, <3>2, <4>1
    <3>3. QED
      BY <3>1, <3>2
  <2>2. PICK new : new = RemoveAt(grown, place)
    OBVIOUS
  <2>3. WithState(key, state) = new
    BY <1>5, <1>10, <2>1, <2>2
  <2>4. new \in Seq(Rows) /\ \A i \in DOMAIN new : \E j \in DOMAIN grown : new[i] = grown[j]
    <3>1. PICK R : R = Rows
      OBVIOUS
    <3>2. grown \in Seq(R)
      BY <1>7, <3>1
    <3>3. new \in Seq(R) /\ \A i \in DOMAIN new : \E j \in DOMAIN grown : new[i] = grown[j]
      BY <2>2, <3>2, RemoveAtHolds
    <3>4. QED
      BY <3>1, <3>3
  <2>5. ASSUME NEW i \in DOMAIN new
        PROVE  new[i] = Row(key, state) \/ \E j \in DOMAIN rows : new[i] = rows[j]
    BY <1>7, <2>4
  <2>6. QED
    BY <2>3, <2>4, <2>5
<1>11. QED
  BY <1>8, <1>9, <1>10

\* What is being written holds every row that is not active.
LEMMA SaveHolds ==
  ASSUME NEW changed \in Seq(Rows), Save(changed)
  PROVE  /\ history' = <<>>
         /\ \E saved \in Seq(Rows) :
              /\ writing' = <<saved>>
              /\ \A i \in DOMAIN changed :
                   ~ IsActive(changed[i].state) => changed[i] \in ToSet(saved)
<1>1. PICK places : places = {i \in DOMAIN changed : ~ IsActive(changed[i].state)}
  OBVIOUS
<1>2. PICK saved : saved = Kept(changed, places)
  OBVIOUS
<1>3. history' = <<>> /\ writing' = <<saved>>
  BY <1>1, <1>2 DEF Save
<1>4. /\ saved \in Seq(Rows)
      /\ \A i \in places : \E n \in DOMAIN saved : saved[n] = changed[i]
  <2>1. places \in SUBSET DOMAIN changed
    BY <1>1
  <2>2. /\ Kept(changed, places) \in Seq(Rows)
        /\ \A i \in places :
             \E n \in DOMAIN Kept(changed, places) : Kept(changed, places)[n] = changed[i]
    BY <2>1, KeptHolds, Zenon
  <2>3. QED
    BY <1>2, <2>2
<1>5. \A i \in DOMAIN changed : ~ IsActive(changed[i].state) => changed[i] \in ToSet(saved)
  BY <1>1, <1>4 DEF ToSet
<1>6. QED
  BY <1>3, <1>4, <1>5

LEMMA DiskRowsHold ==
  ASSUME DownloadsType, NEW scanned \in DiskRows
  PROVE  scanned \in Seq(Rows) /\ \A i \in DOMAIN scanned : scanned[i].key \in OnDisk
<1> DEFINE Done == {[i \in DOMAIN s |-> Row(s[i], "completed")] : s \in SetToSeqs(files)}
           Parts == {[i \in DOMAIN s |-> Row(Named(s[i]), "incomplete")] :
                       s \in SetToSeqs(partials)}
           Cut(done, parts) == SubSeq(done \o parts, 1, IF Len(done \o parts) < MaxRows
                                                        THEN Len(done \o parts) ELSE MaxRows)
<1>0. DiskRows = {Cut(done, parts) : done \in Done, parts \in Parts}
  BY SMT DEF DiskRows
<1>1. PICK done \in Done, parts \in Parts : scanned = Cut(done, parts)
  <2> HIDE DEF Done, Parts, Cut
  <2>1. QED
    BY <1>0
<1>2. PICK s \in SetToSeqs(files) : done = [i \in DOMAIN s |-> Row(s[i], "completed")]
  BY <1>1
<1>3. PICK p \in SetToSeqs(partials) : parts = [i \in DOMAIN p |-> Row(Named(p[i]), "incomplete")]
  BY <1>1
<1>4. /\ Cardinality(files) \in Nat /\ Cardinality(partials) \in Nat
      /\ s \in [1 .. Cardinality(files) -> files]
      /\ p \in [1 .. Cardinality(partials) -> partials]
  <2>1. Cardinality(files) \in Nat /\ Cardinality(partials) \in Nat
    BY FS_CardinalityType DEF DownloadsType
  <2>2. QED
    BY <2>1 DEF SetToSeqs
<1>5. PICK R : R = {row \in Rows : row.key \in OnDisk}
  OBVIOUS
<1>6. done \in Seq(R)
  <2>1. \A f \in files : Row(f, "completed") \in R
    BY <1>5 DEF Row, Rows, RowKeys, States, OnDisk, Backed, OnFile
  <2>2. \A i \in 1 .. Cardinality(files) : Row(s[i], "completed") \in R
    BY <1>4, <2>1
  <2>3. done = [i \in 1 .. Cardinality(files) |-> Row(s[i], "completed")]
    BY <1>2, <1>4
  <2>4. QED
    BY <1>4, <2>2, <2>3, IsASeq
<1>7. parts \in Seq(R)
  <2>1. \A k \in partials : Row(Named(k), "incomplete") \in R
    <3>1. \A k \in partials : Named(k) \in RowKeys /\ Named(k) \in OnDisk
      BY DEF RowKeys, OnDisk, DownloadsType
    <3>2. QED
      BY <1>5, <3>1 DEF Row, Rows, States, Backed, Filed
  <2>2. \A i \in 1 .. Cardinality(partials) : Row(Named(p[i]), "incomplete") \in R
    BY <1>4, <2>1
  <2>3. parts = [i \in 1 .. Cardinality(partials) |-> Row(Named(p[i]), "incomplete")]
    BY <1>3, <1>4
  <2>4. QED
    BY <1>4, <2>2, <2>3, IsASeq
<1>8. PICK all \in Seq(R) : all = done \o parts
  BY <1>6, <1>7, ConcatProperties
<1>9. PICK n \in 0 .. Len(all) : n = IF Len(all) < MaxRows THEN Len(all) ELSE MaxRows
  BY <1>8, RowsAssumption
<1>10. scanned = SubSeq(all, 1, n)
  BY <1>1, <1>8, <1>9
<1>11. scanned \in Seq(R)
  BY <1>8, <1>10, CutHolds
<1>12. scanned \in Seq(Rows)
  BY <1>5, <1>11, SeqMonotonic
<1>13. \A i \in DOMAIN scanned : scanned[i] \in R
  BY <1>11
<1>14. QED
  BY <1>5, <1>12, <1>13

LEMMA RestoredHolds ==
  ASSUME NEW saved \in Seq(Rows), NEW scanned \in Seq(Rows)
  PROVE  /\ Restored(saved, scanned) \in Seq(Rows)
         /\ \A i \in DOMAIN Restored(saved, scanned) :
              \/ Restored(saved, scanned)[i] \in ToSet(saved)
              \/ \E j \in DOMAIN scanned : Restored(saved, scanned)[i] = scanned[j]
<1>1. PICK places : places = {i \in DOMAIN scanned :
                                scanned[i].key \notin {Name(saved[j].key) : j \in DOMAIN saved}}
  OBVIOUS
<1>2. PICK kept : kept = Kept(scanned, places)
  OBVIOUS
<1>3. /\ kept \in Seq(Rows)
      /\ \A n \in DOMAIN kept : \E i \in DOMAIN scanned : kept[n] = scanned[i]
  <2>1. places \in SUBSET DOMAIN scanned
    BY <1>1
  <2>2. /\ Kept(scanned, places) \in Seq(Rows)
        /\ \A n \in DOMAIN Kept(scanned, places) :
             \E i \in places : Kept(scanned, places)[n] = scanned[i]
    BY <2>1, KeptHolds, Zenon
  <2>3. QED
    BY <1>2, <2>1, <2>2
<1>4. PICK all \in Seq(Rows) : all = saved \o kept
  BY <1>3, ConcatProperties
<1>5. PICK n \in 0 .. Len(all) : n = IF Len(all) < MaxRows THEN Len(all) ELSE MaxRows
  BY <1>4, RowsAssumption
<1>6. Restored(saved, scanned) = SubSeq(all, 1, n)
  BY <1>1, <1>2, <1>4, <1>5 DEF Restored
<1>7. ASSUME NEW i \in DOMAIN all
      PROVE  all[i] \in ToSet(saved) \/ \E j \in DOMAIN scanned : all[i] = scanned[j]
  <2>1. /\ Len(saved) \in Nat /\ Len(kept) \in Nat /\ DOMAIN saved = 1 .. Len(saved)
        /\ DOMAIN kept = 1 .. Len(kept) /\ DOMAIN all = 1 .. Len(saved) + Len(kept)
        /\ \A j \in 1 .. Len(saved) + Len(kept) :
             all[j] = IF j <= Len(saved) THEN saved[j] ELSE kept[j - Len(saved)]
    BY <1>3, <1>4, ConcatProperties, LenProperties
  <2>2. CASE i <= Len(saved)
    <3>1. i \in DOMAIN saved /\ all[i] = saved[i]
      BY <1>7, <2>1, <2>2
    <3>2. QED
      BY <3>1 DEF ToSet
  <2>3. CASE ~ i <= Len(saved)
    <3>1. i - Len(saved) \in DOMAIN kept /\ all[i] = kept[i - Len(saved)]
      BY <1>7, <2>1, <2>3
    <3>2. QED
      BY <1>3, <3>1
  <2>4. QED
    BY <2>2, <2>3
<1>8. PICK restored : restored = SubSeq(all, 1, n)
  OBVIOUS
<1>9. /\ restored \in Seq(Rows)
      /\ \A i \in DOMAIN restored : i \in DOMAIN all /\ restored[i] = all[i]
  BY <1>8, CutHolds
<1>10. \A i \in DOMAIN restored :
         restored[i] \in ToSet(saved) \/ \E j \in DOMAIN scanned : restored[i] = scanned[j]
  BY <1>7, <1>9
<1>11. QED
  BY <1>6, <1>8, <1>9, <1>10

-----------------------------------------------------------------------------
(* Upload rows.  The rows of a file that are active, and its starts that are *)
(* to come, are no more than its ends that are to come, those that overtook  *)
(* their start aside; and so for every end of the bus, as an end that finds  *)
(* no active row is lost.                                                    *)

Starts(q, p, key) == Count(q, p, Upload("UploadStarted", key))
EndsOf(q, p, key) == Count(q, p, Upload("UploadEnded", key))

BalancedAt(key) ==
  /\ Count(orders, 1, key) <= streams[key].collected + overtaken[key]
  /\ \A p \in 1 .. Len(news) + 1 :
       Starts(news, p, key) + Count(orders, 1, key)
         <= EndsOf(news, p, key) + streams[key].gated + streams[key].collected + overtaken[key]
  /\ Count(uploads, 1, Row(key, "active")) + Starts(news, 1, key) + Count(orders, 1, key)
       <= EndsOf(news, 1, key) + streams[key].gated + streams[key].collected + overtaken[key]

Balanced == \A key \in Keys : BalancedAt(key)

LEMMA BalancedTypes ==
  ASSUME RowTypes, NEW key \in Keys
  PROVE  /\ Count(orders, 1, key) \in Nat /\ Count(uploads, 1, Row(key, "active")) \in Nat
         /\ streams[key].gated \in Nat /\ streams[key].collected \in Nat /\ overtaken[key] \in Nat
         /\ \A p : Starts(news, p, key) \in Nat /\ EndsOf(news, p, key) \in Nat
         /\ Len(news) \in Nat
BY CountType DEF RowTypes, UploadsType, Starts, EndsOf

LEMMA TakenFromBus ==
  ASSUME RowTypes, news # <<>>, news' = Tail(news), NEW key \in Keys
  PROVE  /\ \A p \in 1 .. Len(news') + 1 :
              /\ p + 1 \in 1 .. Len(news) + 1
              /\ Starts(news', p, key) = Starts(news, p + 1, key)
              /\ EndsOf(news', p, key) = EndsOf(news, p + 1, key)
         /\ Starts(news, 1, key) = Starts(news', 1, key)
              + (IF Head(news) = Upload("UploadStarted", key) THEN 1 ELSE 0)
         /\ EndsOf(news, 1, key) = EndsOf(news', 1, key)
              + (IF Head(news) = Upload("UploadEnded", key) THEN 1 ELSE 0)
<1>1. PICK rest : rest = Tail(news) /\ rest = news'
  OBVIOUS
<1>2. Len(news) \in Nat \ {0} /\ Len(rest) = Len(news) - 1 /\ news \in Seq(RowMessages)
  BY <1>1 DEF RowTypes
<1>3. \A p \in 1 .. Len(rest) + 1 : p + 1 \in 1 .. Len(news) + 1 /\ p \in Nat \ {0}
  BY <1>2
<1>4. \A p \in Nat \ {0} : /\ Starts(rest, p, key) = Starts(news, p + 1, key)
                           /\ EndsOf(rest, p, key) = EndsOf(news, p + 1, key)
  BY <1>1, <1>2, CountTail DEF Starts, EndsOf
<1>5. /\ Starts(news, 1, key) = Starts(news, 2, key)
           + (IF Head(news) = Upload("UploadStarted", key) THEN 1 ELSE 0)
      /\ EndsOf(news, 1, key) = EndsOf(news, 2, key)
           + (IF Head(news) = Upload("UploadEnded", key) THEN 1 ELSE 0)
  BY <1>2, CountTail DEF Starts, EndsOf
<1>6. Starts(rest, 1, key) = Starts(news, 2, key) /\ EndsOf(rest, 1, key) = EndsOf(news, 2, key)
  BY <1>4
<1>7. QED
  BY <1>1, <1>3, <1>4, <1>5, <1>6

LEMMA PutOnBus ==
  ASSUME RowTypes, NEW m, news' = Append(news, m), NEW key \in Keys
  PROVE  /\ Len(news') = Len(news) + 1
         /\ \A p \in 1 .. Len(news) + 1 :
              /\ Starts(news', p, key) = Starts(news, p, key)
                   + (IF m = Upload("UploadStarted", key) THEN 1 ELSE 0)
              /\ EndsOf(news', p, key) = EndsOf(news, p, key)
                   + (IF m = Upload("UploadEnded", key) THEN 1 ELSE 0)
         /\ Starts(news', Len(news) + 2, key) = 0 /\ EndsOf(news', Len(news) + 2, key) = 0
<1>1. PICK grown : grown = Append(news, m) /\ grown = news'
  OBVIOUS
<1> DEFINE S == RowMessages \cup {m}
<1>2. /\ news \in Seq(S) /\ m \in S /\ Len(news) \in Nat /\ grown \in Seq(S)
      /\ Len(grown) = Len(news) + 1
  <2>1. news \in Seq(RowMessages) /\ RowMessages \subseteq S /\ m \in S
    BY DEF RowTypes
  <2> HIDE DEF S
  <2>2. news \in Seq(S)
    BY <2>1, SeqMonotonic
  <2>3. QED
    BY <1>1, <2>1, <2>2
<1> HIDE DEF S
<1>3. \A p \in 1 .. Len(news) + 1 :
        /\ Starts(grown, p, key) = Starts(news, p, key)
             + (IF m = Upload("UploadStarted", key) THEN 1 ELSE 0)
        /\ EndsOf(grown, p, key) = EndsOf(news, p, key)
             + (IF m = Upload("UploadEnded", key) THEN 1 ELSE 0)
  BY <1>1, <1>2, CountAppend DEF Starts, EndsOf
<1>4. Starts(grown, Len(news) + 2, key) = 0 /\ EndsOf(grown, Len(news) + 2, key) = 0
  <2>1. Len(news) + 2 \in Nat /\ Len(news) + 2 > Len(grown)
    BY <1>2
  <2>2. QED
    BY <1>2, <2>1, CountNone DEF Starts, EndsOf
<1>5. QED
  BY <1>1, <1>2, <1>3, <1>4

\* With x starts and y ends of a file put on the bus.
OnBus(key, x, y) ==
  \/ news' = news /\ x = 0 /\ y = 0
  \/ \E m : /\ news' = Append(news, m)
            /\ x = (IF m = Upload("UploadStarted", key) THEN 1 ELSE 0)
            /\ y = (IF m = Upload("UploadEnded", key) THEN 1 ELSE 0)

\* What the commands, streams and overtaken ends of a file become.
Become(key, c, g, l, o) ==
  /\ c = Count(orders', 1, key) /\ o = overtaken'[key]
  /\ g = streams'[key].gated /\ l = streams'[key].collected

Are(key, c, g, l, o) ==
  /\ c = Count(orders, 1, key) /\ o = overtaken[key]
  /\ g = streams[key].gated /\ l = streams[key].collected

LEMMA BalanceMoves ==
  ASSUME RowTypes, NEW key \in Keys, BalancedAt(key), UNCHANGED uploads,
         NEW x \in Nat, NEW y \in Nat,
         NEW C \in Nat, NEW G \in Nat, NEW L \in Nat, NEW O \in Nat, Are(key, C, G, L, O),
         NEW c \in Nat, NEW g \in Nat, NEW l \in Nat, NEW o \in Nat, Become(key, c, g, l, o),
         OnBus(key, x, y),
         c <= l + o, c + x + G + L + O <= C + y + g + l + o
  PROVE  BalancedAt(key)'
<1>1. PICK A \in Nat : A = Count(uploads, 1, Row(key, "active"))
  BY BalancedTypes
<1>2. Are(key, C, G, L, O)
  OBVIOUS
<1>3. /\ \A p \in 1 .. Len(news) + 1 : Starts(news, p, key) + C <= EndsOf(news, p, key) + G + L + O
      /\ A + Starts(news, 1, key) + C <= EndsOf(news, 1, key) + G + L + O
  BY <1>1, <1>2 DEF BalancedAt, Are
<1>4. ASSUME NEW p \in 1 .. Len(news) + 1,
             Starts(news', p, key) = Starts(news, p, key) + x,
             EndsOf(news', p, key) = EndsOf(news, p, key) + y
      PROVE  /\ Starts(news', p, key) + c <= EndsOf(news', p, key) + g + l + o
             /\ p = 1 => A + Starts(news', p, key) + c <= EndsOf(news', p, key) + g + l + o
  <2>1. PICK s \in Nat, e \in Nat : s = Starts(news, p, key) /\ e = EndsOf(news, p, key)
    BY BalancedTypes
  <2>2. s + C <= e + G + L + O /\ (p = 1 => A + s + C <= e + G + L + O)
    BY <1>3, <2>1
  <2>3. (s + x) + c <= (e + y) + g + l + o
    BY <2>2
  <2>4. p = 1 => A + (s + x) + c <= (e + y) + g + l + o
    BY <2>2
  <2>5. QED
    BY <1>4, <2>1, <2>3, <2>4
<1>5. 1 \in 1 .. Len(news) + 1 /\ Len(news) \in Nat
  BY BalancedTypes
<1>6. /\ \A p \in 1 .. Len(news') + 1 :
           Starts(news', p, key) + c <= EndsOf(news', p, key) + g + l + o
      /\ A + Starts(news', 1, key) + c <= EndsOf(news', 1, key) + g + l + o
  <2>1. CASE news' = news /\ x = 0 /\ y = 0
    <3>1. SUFFICES ASSUME NEW p \in 1 .. Len(news) + 1
                   PROVE  /\ Starts(news', p, key) = Starts(news, p, key) + x
                          /\ EndsOf(news', p, key) = EndsOf(news, p, key) + y
      BY <1>4, <1>5, <2>1
    <3>2. Starts(news, p, key) \in Nat /\ EndsOf(news, p, key) \in Nat
      BY BalancedTypes
    <3>3. QED
      BY <2>1, <3>2
  <2>2. CASE \E m : /\ news' = Append(news, m)
                    /\ x = (IF m = Upload("UploadStarted", key) THEN 1 ELSE 0)
                    /\ y = (IF m = Upload("UploadEnded", key) THEN 1 ELSE 0)
    <3>1. PICK m : /\ news' = Append(news, m)
                   /\ x = (IF m = Upload("UploadStarted", key) THEN 1 ELSE 0)
                   /\ y = (IF m = Upload("UploadEnded", key) THEN 1 ELSE 0)
      BY <2>2
    <3>2. /\ Len(news') = Len(news) + 1
          /\ \A p \in 1 .. Len(news) + 1 : /\ Starts(news', p, key) = Starts(news, p, key) + x
                                           /\ EndsOf(news', p, key) = EndsOf(news, p, key) + y
          /\ Starts(news', Len(news) + 2, key) = 0 /\ EndsOf(news', Len(news) + 2, key) = 0
      BY <3>1, PutOnBus
    <3>3. \A p \in 1 .. Len(news) + 1 :
            Starts(news', p, key) + c <= EndsOf(news', p, key) + g + l + o
      BY <1>4, <3>2
    <3>4. Starts(news', Len(news) + 2, key) + c <= EndsOf(news', Len(news) + 2, key) + g + l + o
      <4>1. 0 + c <= 0 + g + l + o
        OBVIOUS
      <4>2. QED
        BY <3>2, <4>1
    <3>5. \A p \in 1 .. Len(news') + 1 : p \in 1 .. Len(news) + 1 \/ p = Len(news) + 2
      BY <1>5, <3>2
    <3>6. A + Starts(news', 1, key) + c <= EndsOf(news', 1, key) + g + l + o
      BY <1>4, <1>5, <3>2
    <3>7. QED
      BY <3>3, <3>4, <3>5, <3>6
  <2>3. QED
    BY <2>1, <2>2 DEF OnBus
<1>7. A = Count(uploads', 1, Row(key, "active"))
  BY <1>1
<1>8. QED
  BY <1>6, <1>7 DEF BalancedAt, Starts, EndsOf, Become

\* A message that is not about an upload comes or goes.
LEMMA OthersKeepBalance ==
  ASSUME RowTypes, Balanced, UNCHANGED uploadVars,
         \/ news' = news
         \/ \E m : m \notin UploadNews /\ news' = Append(news, m)
         \/ news # <<>> /\ news' = Tail(news) /\ Head(news) \notin UploadNews
  PROVE  Balanced'
<1>1. SUFFICES ASSUME NEW key \in Keys
               PROVE  BalancedAt(key)'
  BY DEF Balanced
<1>2. /\ uploads' = uploads /\ orders' = orders /\ streams' = streams /\ overtaken' = overtaken
  BY DEF uploadVars
<1>3. BalancedAt(key)
  BY DEF Balanced
<1>4. Upload("UploadStarted", key) \in UploadNews /\ Upload("UploadEnded", key) \in UploadNews
  BY DEF Upload, UploadNews
<1>5. CASE news' = news
  BY <1>2, <1>3, <1>5 DEF BalancedAt, Starts, EndsOf
<1>6. CASE \E m : m \notin UploadNews /\ news' = Append(news, m)
  <2>1. OnBus(key, 0, 0)
    BY <1>4, <1>6 DEF OnBus
  <2>2. PICK c \in Nat, g \in Nat, l \in Nat, o \in Nat : Are(key, c, g, l, o)
    BY BalancedTypes DEF Are
  <2>3. Become(key, c, g, l, o) /\ c <= l + o
    BY <1>2, <1>3, <2>2 DEF BalancedAt, Are, Become
  <2>4. c + 0 + g + l + o <= c + 0 + g + l + o
    BY <2>2
  <2>5. QED
    BY <1>2, <1>3, <2>1, <2>2, <2>3, <2>4, BalanceMoves
<1>7. CASE news # <<>> /\ news' = Tail(news) /\ Head(news) \notin UploadNews
  <2>1. /\ \A p \in 1 .. Len(news') + 1 :
             /\ p + 1 \in 1 .. Len(news) + 1
             /\ Starts(news', p, key) = Starts(news, p + 1, key)
             /\ EndsOf(news', p, key) = EndsOf(news, p + 1, key)
        /\ Starts(news, 1, key) = Starts(news', 1, key) + 0
        /\ EndsOf(news, 1, key) = EndsOf(news', 1, key) + 0
    BY <1>4, <1>7, TakenFromBus
  <2>2. 1 \in 1 .. Len(news') + 1
    BY <1>7 DEF RowTypes
  <2>3. Starts(news', 1, key) = Starts(news, 1, key) /\ EndsOf(news', 1, key) = EndsOf(news, 1, key)
    BY <2>1, <2>2, BalancedTypes
  <2>4. \A p \in 1 .. Len(news') + 1 :
          Starts(news', p, key) + Count(orders, 1, key)
            <= EndsOf(news', p, key) + streams[key].gated + streams[key].collected + overtaken[key]
    BY <1>3, <2>1 DEF BalancedAt
  <2>5. Count(uploads, 1, Row(key, "active")) + Starts(news', 1, key) + Count(orders, 1, key)
          <= EndsOf(news', 1, key) + streams[key].gated + streams[key].collected + overtaken[key]
    BY <1>3, <2>3 DEF BalancedAt
  <2>6. QED
    BY <1>2, <1>3, <2>4, <2>5 DEF BalancedAt, Starts, EndsOf
<1>8. QED
  BY <1>5, <1>6, <1>7

LEMMA NewsOf ==
  ASSUME NEW k \in Keys, NEW key \in Keys
  PROVE  /\ Upload("UploadStarted", k) \in RowMessages /\ Upload("UploadEnded", k) \in RowMessages
         /\ Upload("UploadStarted", k) # Upload("UploadEnded", key)
         /\ Upload("UploadEnded", k) # Upload("UploadStarted", key)
         /\ Upload("UploadStarted", k) = Upload("UploadStarted", key) <=> k = key
         /\ Upload("UploadEnded", k) = Upload("UploadEnded", key) <=> k = key
BY DEF Upload, RowMessages, UploadNews

\* An upload is announced, collected or given up.
LEMMA StartsKeepBalance ==
  ASSUME RowTypes, Balanced, NEW k \in Keys,
         GatedStarts(k) \/ CollectedStarts(k) \/ NeverStarts(k)
  PROVE  Balanced'
<1>1. SUFFICES ASSUME NEW key \in Keys
               PROVE  BalancedAt(key)'
  BY DEF Balanced
<1>2. BalancedAt(key)
  BY DEF Balanced
<1>3. PICK one \in Nat : one = IF k = key THEN 1 ELSE 0
  OBVIOUS
<1>4. PICK C \in Nat, G \in Nat, L \in Nat, O \in Nat : Are(key, C, G, L, O)
  BY BalancedTypes DEF Are
<1>5. C <= L + O
  BY <1>2, <1>4 DEF BalancedAt, Are
<1>6. CASE GatedStarts(k)
  <2>1. /\ news' = Append(news, Upload("UploadStarted", k))
        /\ streams' = [streams EXCEPT ![k].gated = @ + 1]
        /\ uploads' = uploads /\ orders' = orders /\ overtaken' = overtaken
    BY <1>6 DEF GatedStarts
  <2>2. Become(key, C, G + one, L, O)
    BY <1>3, <1>4, <2>1 DEF RowTypes, UploadsType, Are, Become
  <2>3. OnBus(key, one, 0)
    BY <1>3, <2>1, NewsOf DEF OnBus
  <2>4. C + one + G + L + O <= C + 0 + (G + one) + L + O /\ G + one \in Nat
    BY <1>3, <1>4
  <2>5. QED
    BY <1>2, <1>3, <1>4, <1>5, <2>1, <2>2, <2>3, <2>4, BalanceMoves
<1>7. CASE CollectedStarts(k)
  <2>1. /\ orders' = Append(orders, k) /\ news' = news
        /\ streams' = [streams EXCEPT ![k].collected = @ + 1]
        /\ uploads' = uploads /\ overtaken' = overtaken
    BY <1>7 DEF CollectedStarts
  <2>2. /\ streams'[key].gated = G /\ streams'[key].collected = L + one
        /\ overtaken'[key] = O /\ OnBus(key, 0, 0)
    BY <1>3, <1>4, <2>1 DEF RowTypes, UploadsType, Are, OnBus
  <2>3. Become(key, C + one, G, L + one, O)
    <3>1. orders \in Seq(Keys) /\ 1 \in 1 .. Len(orders) + 1
      BY DEF RowTypes, UploadsType
    <3>2. Count(Append(orders, k), 1, key) = Count(orders, 1, key) + (IF k = key THEN 1 ELSE 0)
      BY <3>1, CountAppend
    <3>3. QED
      BY <1>3, <1>4, <2>1, <2>2, <3>2 DEF Become, Are
  <2>4. PICK c \in Nat, l \in Nat : c = C + one /\ l = L + one
    <3>1. C + one \in Nat /\ L + one \in Nat
      BY <1>3, <1>4
    <3>2. QED
      BY <3>1
  <2>5. c + 0 + G + L + O <= C + 0 + G + l + O /\ c <= l + O
    BY <1>3, <1>4, <1>5, <2>4
  <2>6. Become(key, c, G, l, O)
    BY <2>3, <2>4
  <2>7. QED
    <3>1. UNCHANGED uploads /\ OnBus(key, 0, 0)
      BY <2>1, <2>2
    <3>2. 0 \in Nat
      OBVIOUS
    <3>3. QED
      BY <1>2, <1>4, <2>4, <2>5, <2>6, <3>1, <3>2, BalanceMoves
<1>8. CASE NeverStarts(k)
  <2>1. /\ news' = Append(news, Upload("UploadEnded", k)) /\ streams' = streams
        /\ uploads' = uploads /\ orders' = orders /\ overtaken' = overtaken
    BY <1>8 DEF NeverStarts, uploadVars
  <2>2. OnBus(key, 0, one) /\ Become(key, C, G, L, O)
    BY <1>3, <1>4, <2>1, NewsOf DEF OnBus, Become, Are
  <2>3. C + 0 + G + L + O <= C + one + G + L + O
    BY <1>3, <1>4
  <2>4. QED
    BY <1>2, <1>3, <1>4, <1>5, <2>1, <2>2, <2>3, BalanceMoves
<1>9. QED
  BY <1>6, <1>7, <1>8

LEMMA ReactorKeepsBalance ==
  ASSUME RowTypes, Balanced, ReactorStarts
  PROVE  Balanced'
<1>1. SUFFICES ASSUME NEW key \in Keys
               PROVE  BalancedAt(key)'
  BY DEF Balanced
<1>2. BalancedAt(key)
  BY DEF Balanced
<1>3. /\ orders # <<>> /\ orders \in Seq(Keys) /\ orders' = Tail(orders) /\ Head(orders) \in Keys
      /\ news' = Append(news, Upload("UploadStarted", Head(orders)))
      /\ streams' = streams /\ uploads' = uploads /\ overtaken' = overtaken
  BY DEF ReactorStarts, RowTypes, UploadsType
<1>4. PICK k \in Keys : k = Head(orders)
  BY <1>3
<1>5. PICK one \in Nat : one = IF k = key THEN 1 ELSE 0
  OBVIOUS
<1>6. PICK C \in Nat, G \in Nat, L \in Nat, O \in Nat : Are(key, C, G, L, O)
  BY BalancedTypes DEF Are
<1>7. PICK c \in Nat : c = Count(orders', 1, key)
  <2>1. Tail(orders) \in Seq(Keys)
    BY <1>3
  <2>2. Count(Tail(orders), 1, key) \in Nat
    BY <2>1, CountType
  <2>3. QED
    BY <1>3, <2>2
<1>8. C = c + one
  <2>1. /\ Count(Tail(orders), 1, key) = Count(orders, 1 + 1, key)
        /\ Count(orders, 1, key) = Count(orders, 2, key) + (IF Head(orders) = key THEN 1 ELSE 0)
    BY <1>3, CountTail
  <2>2. QED
    BY <1>3, <1>4, <1>5, <1>6, <1>7, <2>1 DEF Are
<1>9. OnBus(key, one, 0) /\ Become(key, c, G, L, O)
  BY <1>3, <1>4, <1>5, <1>6, <1>7, NewsOf DEF OnBus, Become, Are
<1>10. C <= L + O
  BY <1>2, <1>6 DEF BalancedAt, Are
<1>11. c <= L + O /\ c + one + G + L + O <= C + 0 + G + L + O
  BY <1>5, <1>6, <1>7, <1>8, <1>10
<1>12. QED
  BY <1>2, <1>3, <1>5, <1>6, <1>7, <1>9, <1>11, BalanceMoves

LEMMA StreamEndsKeepsBalance ==
  ASSUME RowTypes, Balanced, NEW k \in Keys, NEW kind \in {"gated", "collected"},
         StreamEnds(k, kind)
  PROVE  Balanced'
<1>1. SUFFICES ASSUME NEW key \in Keys
               PROVE  BalancedAt(key)'
  BY DEF Balanced
<1>2. BalancedAt(key)
  BY DEF Balanced
<1>3. /\ streams[k][kind] > 0
      /\ streams' = [streams EXCEPT ![k][kind] = @ - 1]
      /\ news' = Append(news, Upload("UploadEnded", k))
      /\ overtaken' = [overtaken EXCEPT ![k] =
                         IF kind = "collected" /\ k \in ToSet(orders) THEN @ + 1 ELSE @]
      /\ uploads' = uploads /\ orders' = orders
  BY DEF StreamEnds
<1>4. PICK C \in Nat, G \in Nat, L \in Nat, O \in Nat : Are(key, C, G, L, O)
  BY BalancedTypes DEF Are
<1>5. C <= L + O
  BY <1>2, <1>4 DEF BalancedAt, Are
<1>6. PICK one \in Nat : one = IF k = key THEN 1 ELSE 0
  OBVIOUS
<1>7. OnBus(key, 0, one)
  BY <1>3, <1>6, NewsOf DEF OnBus
<1>8. key \notin ToSet(orders) => C = 0
  <2>1. ASSUME key \notin ToSet(orders)
        PROVE  \A i \in DOMAIN orders : orders[i] # key
    BY <2>1 DEF ToSet
  <2>2. orders \in Seq(Keys)
    BY DEF RowTypes, UploadsType
  <2>3. QED
    BY <1>4, <2>1, <2>2, CountNone DEF Are
<1>9. PICK g \in Nat, l \in Nat, o \in Nat :
        Become(key, C, g, l, o) /\ g + l + one = G + L /\ O <= o /\ C <= l + o
  <2>1. CASE k # key
    <3>1. streams'[key] = streams[key] /\ overtaken'[key] = overtaken[key] /\ one = 0
      BY <1>3, <1>6, <2>1 DEF RowTypes, UploadsType
    <3>2. Become(key, C, G, L, O) /\ G + L + 0 = G + L
      BY <1>3, <1>4, <3>1 DEF Become, Are
    <3>3. QED
      BY <1>4, <1>5, <3>1, <3>2
  <2>2. CASE k = key /\ kind = "gated"
    <3>1. /\ streams'[key].gated = G - 1 /\ streams'[key].collected = L /\ G > 0
          /\ overtaken'[key] = O /\ one = 1
      BY <1>3, <1>4, <1>6, <2>2 DEF RowTypes, UploadsType, Are
    <3>2. G - 1 \in Nat /\ (G - 1) + L + 1 = G + L
      BY <1>4, <3>1
    <3>3. C = Count(orders', 1, key)
      BY <1>3, <1>4 DEF Are
    <3>4. Become(key, C, G - 1, L, O)
      BY <3>1, <3>3 DEF Become
    <3>5. QED
      BY <1>4, <1>5, <3>1, <3>2, <3>4
  <2>3. CASE k = key /\ kind = "collected"
    <3>1. /\ streams'[key].gated = G /\ streams'[key].collected = L - 1 /\ L > 0
          /\ overtaken'[key] = (IF key \in ToSet(orders) THEN O + 1 ELSE O) /\ one = 1
      BY <1>3, <1>4, <1>6, <2>3 DEF RowTypes, UploadsType, Are
    <3>2. PICK o \in Nat : o = overtaken'[key] /\ O <= o /\ C <= (L - 1) + o
      BY <1>4, <1>5, <1>8, <3>1
    <3>3. L - 1 \in Nat /\ G + (L - 1) + 1 = G + L
      BY <1>4, <3>1
    <3>4. C = Count(orders', 1, key)
      BY <1>3, <1>4 DEF Are
    <3>5. Become(key, C, G, L - 1, o)
      BY <3>1, <3>2, <3>4 DEF Become
    <3>6. QED
      BY <1>4, <3>1, <3>2, <3>3, <3>5
  <2>4. QED
    BY <2>1, <2>2, <2>3
<1>10. C + 0 + G + L + O <= C + one + g + l + o
  BY <1>4, <1>6, <1>9
<1>11. QED
  BY <1>2, <1>3, <1>4, <1>6, <1>7, <1>9, <1>10, BalanceMoves

\* The core worker takes a start or an end.
LEMMA TakenKeepsBalance ==
  ASSUME RowTypes, NEW key \in Keys, BalancedAt(key), news # <<>>, news' = Tail(news),
         UNCHANGED <<streams, orders, overtaken>>,
         NEW A \in Nat, A = Count(uploads, 1, Row(key, "active")),
         NEW a \in Nat, a = Count(uploads', 1, Row(key, "active")),
         NEW x \in Nat, x = (IF Head(news) = Upload("UploadStarted", key) THEN 1 ELSE 0),
         NEW y \in Nat, y = (IF Head(news) = Upload("UploadEnded", key) THEN 1 ELSE 0),
         a = 0 \/ a + y <= A + x
  PROVE  BalancedAt(key)'
<1>1. PICK C \in Nat, G \in Nat, L \in Nat, O \in Nat : Are(key, C, G, L, O)
  BY BalancedTypes DEF Are
<1>2. /\ \A p \in 1 .. Len(news') + 1 :
           /\ p + 1 \in 1 .. Len(news) + 1
           /\ Starts(news', p, key) = Starts(news, p + 1, key)
           /\ EndsOf(news', p, key) = EndsOf(news, p + 1, key)
      /\ Starts(news, 1, key) = Starts(news', 1, key) + x
      /\ EndsOf(news, 1, key) = EndsOf(news', 1, key) + y
  BY TakenFromBus
<1>3. /\ \A p \in 1 .. Len(news) + 1 : Starts(news, p, key) + C <= EndsOf(news, p, key) + G + L + O
      /\ A + Starts(news, 1, key) + C <= EndsOf(news, 1, key) + G + L + O
      /\ C <= L + O
  BY <1>1 DEF BalancedAt, Are
<1>4. \A p \in 1 .. Len(news') + 1 : Starts(news', p, key) + C <= EndsOf(news', p, key) + G + L + O
  BY <1>2, <1>3
<1>5. 1 \in 1 .. Len(news') + 1
  BY DEF RowTypes
<1>6. PICK s \in Nat, e \in Nat : s = Starts(news', 1, key) /\ e = EndsOf(news', 1, key)
  <2>1. Starts(news, 1 + 1, key) \in Nat /\ EndsOf(news, 1 + 1, key) \in Nat
    BY BalancedTypes
  <2>2. QED
    BY <1>2, <1>5, <2>1
<1>7. s + C <= e + G + L + O /\ A + (s + x) + C <= (e + y) + G + L + O
  BY <1>2, <1>3, <1>4, <1>5, <1>6
<1>8. a + s + C <= e + G + L + O
  <2>1. ASSUME a = 0
        PROVE  a + s + C <= e + G + L + O
    <3>1. 0 + s + C <= e + G + L + O
      BY <1>7
    <3>2. QED
      BY <2>1, <3>1
  <2>2. ASSUME a + y <= A + x
        PROVE  a + s + C <= e + G + L + O
    BY <1>7, <2>2, SMTT(30)
  <2>3. QED
    BY <2>1, <2>2
<1>9. /\ \A p \in 1 .. Len(news') + 1 :
           Starts(news', p, key) + Count(orders', 1, key)
             <= EndsOf(news', p, key) + streams'[key].gated + streams'[key].collected
                  + overtaken'[key]
      /\ Count(uploads', 1, Row(key, "active")) + Starts(news', 1, key) + Count(orders', 1, key)
           <= EndsOf(news', 1, key) + streams'[key].gated + streams'[key].collected
                + overtaken'[key]
      /\ Count(orders', 1, key) <= streams'[key].collected + overtaken'[key]
  BY <1>1, <1>3, <1>4, <1>6, <1>8 DEF Are
<1>10. QED
  BY <1>9 DEF BalancedAt, Starts, EndsOf

\* A start or an end that arrives is one of a file.
LEMMA UploadArrived ==
  ASSUME RowTypes, NEW type \in {"UploadStarted", "UploadEnded"}, Comes(type)
  PROVE  \E k \in Keys : /\ Head(news) = Upload(type, k) /\ Head(news).key = k
                         /\ news # <<>> /\ writing = <<>> /\ Tail(news) \in Seq(RowMessages)
<1>1. /\ Head(news) \in RowMessages /\ Head(news).type = type /\ news # <<>> /\ writing = <<>>
      /\ Tail(news) \in Seq(RowMessages)
  BY ArrivedHolds DEF RowTypes
<1>2. Head(news) \in UploadNews
  BY <1>1 DEF RowMessages, Clicks, EndNews
<1>3. QED
  BY <1>1, <1>2 DEF UploadNews, Upload

\* The rows that are left when the first makes room, and the new one.
LEMMA RoomMade ==
  ASSUME RowTypes, NEW k \in Keys, NEW key \in Keys, NEW new,
         new = Append(IF Len(uploads) >= MaxRows THEN Tail(uploads) ELSE uploads,
                      Row(k, "active"))
  PROVE  /\ new \in Seq(UploadRow)
         /\ Count(new, 1, Row(key, "active"))
              <= Count(uploads, 1, Row(key, "active")) + (IF k = key THEN 1 ELSE 0)
<1>1. PICK m : m = Row(key, "active")
  OBVIOUS
<1>2. uploads \in Seq(UploadRow) /\ Len(uploads) \in Nat
  BY DEF RowTypes, UploadsType
<1>3. PICK kept : kept = IF Len(uploads) >= MaxRows THEN Tail(uploads) ELSE uploads
  OBVIOUS
<1>4. /\ kept \in Seq(UploadRow) /\ Count(uploads, 1, m) \in Nat
      /\ Count(kept, 1, m) \in Nat /\ Count(kept, 1, m) <= Count(uploads, 1, m)
  <2>1. Count(uploads, 1, m) \in Nat /\ Count(uploads, 2, m) \in Nat
    BY <1>2, CountType
  <2>2. CASE Len(uploads) >= MaxRows
    <3>1. uploads # <<>>
      BY <2>2, RowsAssumption
    <3>2. Tail(uploads) \in Seq(UploadRow)
      BY <1>2, <3>1
    <3>3. /\ Count(Tail(uploads), 1, m) = Count(uploads, 1 + 1, m)
          /\ Count(uploads, 1, m) = Count(uploads, 2, m) + (IF Head(uploads) = m THEN 1 ELSE 0)
      BY <1>2, <3>1, CountTail
    <3>4. QED
      BY <1>3, <2>1, <2>2, <3>2, <3>3
  <2>3. CASE ~ Len(uploads) >= MaxRows
    BY <1>2, <1>3, <2>1, <2>3
  <2>4. QED
    BY <2>2, <2>3
<1>5. PICK row \in UploadRow : row = Row(k, "active") /\ (row = m <=> k = key)
  BY <1>1 DEF Row, UploadRow
<1>6. new = Append(kept, row) /\ new \in Seq(UploadRow)
  BY <1>3, <1>4, <1>5
<1>7. Count(new, 1, m) = Count(kept, 1, m) + (IF k = key THEN 1 ELSE 0)
  <2>1. 1 \in 1 .. Len(kept) + 1
    BY <1>4
  <2>2. PICK R : R = UploadRow
    OBVIOUS
  <2>3. kept \in Seq(R) /\ row \in R
    BY <1>4, <1>5, <2>2
  <2>4. Count(Append(kept, row), 1, m) = Count(kept, 1, m) + (IF row = m THEN 1 ELSE 0)
    BY <2>1, <2>3, CountAppend
  <2>5. QED
    BY <1>5, <1>6, <2>4
<1>8. Count(new, 1, m) <= Count(uploads, 1, m) + (IF k = key THEN 1 ELSE 0)
  <2>1. PICK one \in Nat : one = (IF k = key THEN 1 ELSE 0)
    OBVIOUS
  <2>2. QED
    BY <1>4, <1>7, <2>1
<1>9. QED
  BY <1>1, <1>6, <1>8

LEMMA UploadStartedKeeps ==
  ASSUME RowTypes, Balanced, UploadStarted
  PROVE  Balanced' /\ uploads' \in Seq(UploadRow)
<1>1. PICK k \in Keys : /\ Head(news) = Upload("UploadStarted", k) /\ Head(news).key = k
                        /\ news # <<>> /\ writing = <<>> /\ Tail(news) \in Seq(RowMessages)
  BY UploadArrived DEF UploadStarted
<1>2. /\ uploads' = Append(IF Len(uploads) >= MaxRows THEN Tail(uploads) ELSE uploads,
                           Row(k, "active"))
      /\ news' = Tail(news) /\ UNCHANGED <<streams, orders, overtaken>>
  BY <1>1 DEF UploadStarted
<1>3. PICK new : new = uploads'
  OBVIOUS
<1>4. ASSUME NEW key \in Keys
      PROVE  BalancedAt(key)'
  <2>1. BalancedAt(key)
    BY DEF Balanced
  <2>2. PICK A \in Nat : A = Count(uploads, 1, Row(key, "active"))
    BY BalancedTypes
  <2>3. /\ new \in Seq(UploadRow)
        /\ Count(new, 1, Row(key, "active"))
             <= Count(uploads, 1, Row(key, "active")) + (IF k = key THEN 1 ELSE 0)
    BY <1>2, <1>3, RoomMade
  <2>4. PICK a \in Nat : a = Count(uploads', 1, Row(key, "active"))
    <3>1. Count(new, 1, Row(key, "active")) \in Nat
      BY <2>3, CountType
    <3>2. QED
      BY <1>3, <3>1
  <2>5. PICK x \in Nat : x = (IF Head(news) = Upload("UploadStarted", key) THEN 1 ELSE 0)
    OBVIOUS
  <2>6. x = (IF k = key THEN 1 ELSE 0)
    BY <1>1, <2>5, NewsOf
  <2>7. 0 = (IF Head(news) = Upload("UploadEnded", key) THEN 1 ELSE 0) /\ 0 \in Nat
    BY <1>1, NewsOf
  <2>8. a + 0 <= A + x
    BY <1>3, <2>2, <2>3, <2>4, <2>6
  <2>9. QED
    BY <1>1, <1>2, <2>1, <2>2, <2>4, <2>5, <2>7, <2>8, TakenKeepsBalance
<1>5. new \in Seq(UploadRow)
  BY <1>1, <1>2, <1>3, RoomMade
<1>6. QED
  BY <1>3, <1>4, <1>5 DEF Balanced

LEMMA UploadEndedKeeps ==
  ASSUME RowTypes, Balanced, UploadEnded
  PROVE  Balanced' /\ uploads' \in Seq(UploadRow)
<1>1. PICK k \in Keys : /\ Head(news) = Upload("UploadEnded", k) /\ Head(news).key = k
                        /\ news # <<>> /\ writing = <<>> /\ Tail(news) \in Seq(RowMessages)
  BY UploadArrived DEF UploadEnded
<1>2. PICK of : of = UploadRows(k)
  OBVIOUS
<1>3. /\ uploads' = (IF of = {} THEN uploads ELSE [uploads EXCEPT ![Min(of)].state = "ended"])
      /\ news' = Tail(news) /\ UNCHANGED <<streams, orders, overtaken>>
  BY <1>1, <1>2 DEF UploadEnded
<1>4. /\ uploads \in Seq(UploadRow) /\ Len(uploads) \in Nat /\ DOMAIN uploads = 1 .. Len(uploads)
      /\ \A i \in DOMAIN uploads : uploads[i] \in UploadRow
  BY DEF RowTypes, UploadsType
<1>5. of = {i \in DOMAIN uploads : uploads[i] = Row(k, "active")}
  BY <1>2, <1>4 DEF UploadRows, UploadRow, Row, IsActive
<1>6. ASSUME NEW key \in Keys
      PROVE  /\ BalancedAt(key) /\ Count(uploads, 1, Row(key, "active")) \in Nat
             /\ 0 = (IF Head(news) = Upload("UploadStarted", key) THEN 1 ELSE 0)
             /\ (IF k = key THEN 1 ELSE 0)
                  = (IF Head(news) = Upload("UploadEnded", key) THEN 1 ELSE 0)
  BY <1>1, NewsOf, BalancedTypes DEF Balanced
<1>7. CASE of = {}
  <2>1. uploads' = uploads
    BY <1>3, <1>7
  <2>2. ASSUME NEW key \in Keys
        PROVE  BalancedAt(key)'
    <3>1. PICK A \in Nat : A = Count(uploads, 1, Row(key, "active"))
      BY <1>6
    <3>2. PICK y \in Nat : y = (IF k = key THEN 1 ELSE 0)
      OBVIOUS
    <3>3. A = 0 \/ A + y <= A + 0
      <4>1. CASE k = key
        <5>1. \A i \in DOMAIN uploads : uploads[i] # Row(key, "active")
          BY <1>5, <1>7, <4>1
        <5>2. Count(uploads, 1, Row(key, "active")) = 0
          BY <1>4, <5>1, CountNone
        <5>3. QED
          BY <3>1, <5>2
      <4>2. CASE k # key
        BY <3>1, <3>2, <4>2
      <4>3. QED
        BY <4>1, <4>2
    <3>4. /\ y = (IF Head(news) = Upload("UploadEnded", key) THEN 1 ELSE 0)
          /\ A = Count(uploads', 1, Row(key, "active")) /\ 0 \in Nat
      BY <1>6, <2>1, <3>1, <3>2
    <3>5. QED
      BY <1>1, <1>3, <1>6, <3>1, <3>2, <3>3, <3>4, TakenKeepsBalance
  <2>3. QED
    BY <1>4, <2>1, <2>2 DEF Balanced
<1>8. CASE of # {}
  <2>1. Min(of) \in of
    BY <1>4, <1>5, <1>8, LeastPlace
  <2>2. PICK i \in DOMAIN uploads : i = Min(of) /\ uploads[i] = Row(k, "active")
    BY <1>5, <2>1
  <2>3. PICK row \in UploadRow : row = Row(k, "ended") /\ row # Row(k, "active")
    <3>1. Row(k, "ended") \in UploadRow /\ Row(k, "ended") # Row(k, "active")
      BY DEF Row, UploadRow
    <3>2. QED
      BY <3>1
  <2>4. PICK new : new = [uploads EXCEPT ![i] = row]
    OBVIOUS
  <2>5. uploads' = new
    <3>1. uploads' = [uploads EXCEPT ![i].state = "ended"]
      BY <1>3, <1>8, <2>2
    <3>2. [uploads[i] EXCEPT !.state = "ended"] = row
      BY <2>2, <2>3 DEF Row
    <3>3. QED
      BY <2>4, <3>1, <3>2
  <2>6. new \in Seq(UploadRow)
    BY <1>4, <2>3, <2>4
  <2>7. ASSUME NEW key \in Keys
        PROVE  BalancedAt(key)'
    <3>1. PICK A \in Nat : A = Count(uploads, 1, Row(key, "active"))
      BY <1>6
    <3>2. PICK y \in Nat : y = (IF k = key THEN 1 ELSE 0)
      OBVIOUS
    <3>3. PICK a \in Nat : a = Count(new, 1, Row(key, "active"))
      BY <2>6, CountType
    <3>4. PICK m : m = Row(key, "active")
      OBVIOUS
    <3>5. Count([uploads EXCEPT ![i] = row], 1, m) + (IF uploads[i] = m THEN 1 ELSE 0)
            = Count(uploads, 1, m) + (IF row = m THEN 1 ELSE 0)
      <4>1. PICK R : R = UploadRow
        OBVIOUS
      <4>2. uploads \in Seq(R) /\ row \in R /\ i \in DOMAIN uploads /\ uploads[i] # row
        BY <1>4, <2>2, <2>3, <4>1
      <4>3. QED
        BY <4>2, CountChanged
    <3>6. (uploads[i] = m <=> k = key) /\ row # m
      BY <2>2, <2>3, <3>4 DEF Row
    <3>7. a + y = A
      BY <2>4, <3>1, <3>2, <3>3, <3>4, <3>5, <3>6
    <3>8. a + y <= A + 0
      BY <3>1, <3>7
    <3>9. /\ y = (IF Head(news) = Upload("UploadEnded", key) THEN 1 ELSE 0)
          /\ a = Count(uploads', 1, Row(key, "active")) /\ 0 \in Nat
      BY <1>6, <2>5, <3>2, <3>3
    <3>10. QED
      BY <1>1, <1>3, <1>6, <3>1, <3>2, <3>3, <3>8, <3>9, TakenKeepsBalance
  <2>8. QED
    BY <2>5, <2>6, <2>7 DEF Balanced
<1>9. QED
  BY <1>7, <1>8

\* Nothing is going on.
Quiet ==
  /\ uploads = <<>> /\ streams = NoStreams /\ orders = <<>> /\ news = <<>>
  /\ overtaken = [k \in Keys |-> 0]

LEMMA QuietIsBalanced ==
  Quiet => Balanced
<1> SUFFICES ASSUME Quiet
             PROVE  Balanced
  OBVIOUS
<1>1. <<>> \in Seq({}) /\ Len(<<>>) = 0 /\ DOMAIN <<>> = {}
  BY EmptySeq
<1>2. \A m : Count(<<>>, 1, m) = 0
  BY <1>1, CountNone
<1>3. \A key \in Keys : streams[key].gated = 0 /\ streams[key].collected = 0 /\ overtaken[key] = 0
  BY DEF Quiet, NoStreams
<1>4. \A p \in 1 .. Len(news) + 1 : p = 1
  BY <1>1 DEF Quiet
<1>5. QED
  BY <1>2, <1>3, <1>4 DEF Balanced, BalancedAt, Starts, EndsOf, Quiet

-----------------------------------------------------------------------------
(* Every step keeps the types.                                               *)

\* The files stay what they were.
LEMMA TypesKept ==
  ASSUME RowTypes, UNCHANGED files, rows' \in Seq(Rows),
         history' \in Contents, writing' \in Contents,
         partials' \subseteq Keys, IsFiniteSet(partials'),
         UploadsType', news' \in Seq(RowMessages)
  PROVE  RowTypes'
BY SameRows DEF RowTypes, DownloadsType

\* The actions that leave rows, history and disk alone.
LEMMA DownloadsTypeKept ==
  ASSUME RowTypes, UNCHANGED downloadVars, UploadsType', news' \in Seq(RowMessages)
  PROVE  RowTypes'
<1>1. UNCHANGED <<rows, history, writing, files, partials>>
  BY DEF downloadVars
<1>2. QED
  BY <1>1, TypesKept DEF RowTypes, DownloadsType

LEMMA UploadsTypeKept ==
  ASSUME RowTypes, UNCHANGED uploadVars
  PROVE  UploadsType'
BY DEF RowTypes, UploadsType, uploadVars

LEMMA ContentsHold ==
  /\ <<>> \in Contents
  /\ \A saved \in Seq(Rows) : <<saved>> \in Contents
BY DEF Contents

\* What is saved is a list of rows.
LEMMA SavedHolds ==
  ASSUME history \in Contents
  PROVE  Saved \in Seq(Rows)
<1>1. CASE history = <<>>
  BY <1>1 DEF Saved
<1>2. CASE history # <<>>
  <2>1. PICK saved \in Seq(Rows) : history = <<saved>>
    BY <1>2 DEF Contents
  <2>2. QED
    BY <1>2, <2>1 DEF Saved
<1>3. QED
  BY <1>1, <1>2

\* The list after a restart, and where its rows are found again.
LEMMA RestartHolds ==
  ASSUME RowTypes, Crash
  PROVE  /\ rows' \in Seq(Rows) /\ UNCHANGED <<files, partials, history>> /\ writing' = <<>>
         /\ news' = <<>> /\ uploads' = <<>> /\ streams' = NoStreams /\ orders' = <<>>
         /\ overtaken' = [k \in Keys |-> 0]
         /\ \A i \in DOMAIN rows' : rows'[i] \in ToSet(Saved) \/ rows'[i].key \in OnDisk
<1>1. /\ UNCHANGED <<files, partials, history>> /\ writing' = <<>>
      /\ news' = <<>> /\ uploads' = <<>> /\ streams' = NoStreams /\ orders' = <<>>
      /\ overtaken' = [k \in Keys |-> 0]
  BY DEF Crash
<1>2. PICK scanned \in DiskRows : rows' = Restored(Saved, scanned)
  BY DEF Crash
<1>3. PICK saved : saved = Saved
  OBVIOUS
<1>4. /\ saved \in Seq(Rows) /\ scanned \in Seq(Rows)
      /\ \A i \in DOMAIN scanned : scanned[i].key \in OnDisk
  BY <1>2, <1>3, SavedHolds, DiskRowsHold DEF RowTypes, DownloadsType
<1>5. PICK new : new = rows'
  OBVIOUS
<1>6. /\ new \in Seq(Rows)
      /\ \A i \in DOMAIN new : \/ new[i] \in ToSet(saved)
                               \/ \E j \in DOMAIN scanned : new[i] = scanned[j]
  <2>1. new = Restored(saved, scanned)
    BY <1>2, <1>3, <1>5
  <2>2. QED
    BY <1>4, <2>1, RestoredHolds
<1>7. QED
  BY <1>1, <1>3, <1>4, <1>5, <1>6

\* The rows after a message about a download, and what of them is saved.
LEMMA TakenRows ==
  ASSUME RowTypes,
         StartDownload \/ CancelDownload \/ PauseDownload \/ Outcome \/ DownloadQueuePosition
  PROVE  /\ UNCHANGED <<files, partials, uploadVars>> /\ rows' \in Seq(Rows)
         /\ news # <<>> /\ news' = Tail(news) /\ Head(news) \notin UploadNews
         /\ writing = <<>> /\ news' \in Seq(RowMessages)
         /\ \/ Save(rows')
            \/ /\ UNCHANGED <<history, writing>> /\ Head(news).type # "Outcome"
               /\ \A i \in DOMAIN rows' : \/ IsActive(rows'[i].state)
                                          \/ \E j \in DOMAIN rows : rows'[i] = rows[j]
<1>1. PICK m : m = Head(news)
  OBVIOUS
<1>2. PICK type \in {"StartDownload", "CancelDownload", "PauseDownload", "Outcome",
                     "DownloadQueuePosition"} : Comes(type)
  BY DEF StartDownload, CancelDownload, PauseDownload, Outcome, DownloadQueuePosition
<1>3. /\ writing = <<>> /\ news # <<>> /\ Tail(news) \in Seq(RowMessages) /\ m \in RowMessages
      /\ m.type = type
  BY <1>1, <1>2, ArrivedHolds DEF RowTypes
<1>4. /\ m \notin UploadNews /\ m.key \in RowKeys
      /\ m.type = "Outcome" => m.state \in {"failed", "completed"} /\ Backed(m)
  BY <1>2, <1>3 DEF RowMessages, Clicks, EndNews, UploadNews, RowKeys
<1>5. /\ UNCHANGED <<files, partials, uploadVars>> /\ news' = Tail(news)
  BY DEF StartDownload, CancelDownload, PauseDownload, Outcome, DownloadQueuePosition
<1>6. rows \in Seq(Rows)
  BY DEF RowTypes, DownloadsType
<1>7. ASSUME NEW state \in States, Backed(Row(m.key, state))
      PROVE  /\ WithState(m.key, state) \in Seq(Rows)
             /\ \A i \in DOMAIN WithState(m.key, state) :
                  \/ WithState(m.key, state)[i] = Row(m.key, state)
                  \/ \E j \in DOMAIN rows : WithState(m.key, state)[i] = rows[j]
  BY <1>4, <1>6, <1>7, WithStateHolds
<1>8. /\ WithState(m.key, "active") \in Seq(Rows)
      /\ \A i \in DOMAIN WithState(m.key, "active") :
           \/ IsActive(WithState(m.key, "active")[i].state)
           \/ \E j \in DOMAIN rows : WithState(m.key, "active")[i] = rows[j]
  <2>1. /\ "active" \in States /\ IsActive(Row(m.key, "active").state)
        /\ Backed(Row(m.key, "active"))
    BY DEF States, IsActive, Row, Backed, Filed
  <2>2. QED
    BY <1>7, <2>1
<1>9. CASE StartDownload
  <2>1. rows' = WithState(m.key, "active") /\ UNCHANGED <<history, writing>>
        /\ m.type # "Outcome"
    BY <1>1, <1>9 DEF StartDownload, Comes
  <2>2. QED
    BY <1>1, <1>3, <1>4, <1>5, <1>8, <2>1
<1>10. CASE DownloadQueuePosition
  <2>1. /\ rows' = WithState(m.key, "active") \/ rows' = rows
        /\ UNCHANGED <<history, writing>> /\ m.type # "Outcome"
    BY <1>1, <1>10 DEF DownloadQueuePosition, Comes
  <2>2. QED
    BY <1>1, <1>3, <1>4, <1>5, <1>6, <1>8, <2>1
<1>11. CASE CancelDownload
  <2>1. PICK places : places = {i \in DOMAIN rows : rows[i].key # m.key}
    OBVIOUS
  <2>2. rows' = Kept(rows, places) /\ Save(rows')
    BY <1>1, <1>11, <2>1 DEF CancelDownload
  <2>3. Kept(rows, places) \in Seq(Rows)
    <3>1. places \in SUBSET DOMAIN rows
      BY <2>1
    <3>2. QED
      BY <1>6, <3>1, KeptHolds
  <2>4. QED
    BY <1>1, <1>3, <1>4, <1>5, <2>2, <2>3
<1>12. CASE PauseDownload
  <2>1. /\ rows' = WithState(m.key, "paused") /\ Save(rows') /\ "paused" \in States
        /\ Backed(Row(m.key, "paused"))
    BY <1>1, <1>12 DEF PauseDownload, States, Backed, Filed, Row
  <2>2. QED
    BY <1>1, <1>3, <1>4, <1>5, <1>7, <2>1
<1>13. CASE Outcome
  <2>1. /\ rows' = WithState(m.key, m.state) /\ Save(rows') /\ m.state \in States
        /\ Backed(Row(m.key, m.state))
    BY <1>1, <1>4, <1>13 DEF Outcome, Comes, States, Backed, Filed, Row
  <2>2. QED
    BY <1>1, <1>3, <1>4, <1>5, <1>7, <2>1
<1>14. QED
  BY <1>9, <1>10, <1>11, <1>12, <1>13

\* The user and peer_net put messages about downloads on the bus.
NewsAction ==
  \/ \E key \in Keys : Start(key) \/ Queued(key) \/ Fails(key) \/ Completes(key)
  \/ \E i \in DOMAIN rows, type \in {"CancelDownload", "PauseDownload"} :
       Click(type, rows[i].key)

\* The disk changes only with the news of an end.
LEMMA DownloadNews ==
  ASSUME RowTypes, NewsAction
  PROVE  /\ UNCHANGED <<rows, history, writing, uploadVars>>
         /\ files \subseteq files' /\ IsFiniteSet(files')
         /\ partials' \subseteq Keys /\ IsFiniteSet(partials')
         /\ \E m \in RowMessages' :
              /\ news' = Append(news, m) /\ m \notin UploadNews
              /\ \/ UNCHANGED <<files, partials>>
                 \/ m.type = "Outcome" /\ partials \subseteq partials' \cup {m.key}
<1>1. \A k \in RowKeys, type \in {"StartDownload", "CancelDownload", "PauseDownload",
                                  "DownloadQueuePosition"} :
        [type |-> type, key |-> k] \in RowMessages \ UploadNews
  BY DEF RowMessages, Clicks, EndNews, UploadNews
<1>2. (\A k \in Keys : k \in RowKeys) /\ \A i \in DOMAIN rows : rows[i].key \in RowKeys
  <2>1. \A i \in DOMAIN rows : rows[i] \in Rows
    BY DEF RowTypes, DownloadsType
  <2>2. QED
    BY <2>1 DEF RowKeys, Rows
<1>3. IsFiniteSet(files) /\ IsFiniteSet(partials) /\ partials \subseteq Keys
  BY DEF RowTypes, DownloadsType
<1>4. CASE \/ \E key \in Keys : Start(key) \/ Queued(key)
           \/ \E i \in DOMAIN rows, type \in {"CancelDownload", "PauseDownload"} :
                Click(type, rows[i].key)
  <2>1. /\ UNCHANGED <<downloadVars, uploadVars>>
        /\ \E k \in RowKeys, type \in {"StartDownload", "CancelDownload", "PauseDownload",
                                       "DownloadQueuePosition"} :
             news' = Append(news, [type |-> type, key |-> k])
    BY <1>2, <1>4 DEF Start, Queued, Click
  <2>2. UNCHANGED <<rows, history, writing, files, partials>>
    BY <2>1 DEF downloadVars
  <2>3. PICK m \in RowMessages \ UploadNews : news' = Append(news, m)
    BY <1>1, <2>1
  <2>4. m \in RowMessages'
    BY <2>2, <2>3, SameRows
  <2>5. QED
    BY <1>3, <2>1, <2>2, <2>3, <2>4
<1>5. CASE \E key \in Keys : Fails(key) \/ Completes(key)
  <2>1. PICK key \in Keys : Fails(key) \/ Completes(key)
    BY <1>5
  <2>2. /\ UNCHANGED <<rows, history, writing, uploadVars>>
        /\ files' = files \/ \E f : files' = files \cup {f}
        /\ partials' = partials \/ partials' = partials \ {key}
    BY <2>1 DEF Fails, Completes, Ended
  <2>3. /\ files \subseteq files' /\ IsFiniteSet(files')
        /\ partials' \subseteq Keys /\ IsFiniteSet(partials')
    <3>1. IsFiniteSet(partials \ {key}) /\ \A f : IsFiniteSet(files \cup {f})
      BY <1>3, FS_Subset, FS_AddElement
    <3>2. QED
      BY <1>3, <2>2, <3>1
  <2>4. PICK m : /\ news' = Append(news, m) /\ m.type = "Outcome" /\ m.key = key
                 /\ m \in [type : {"Outcome"}, key : Keys, state : {"failed", "completed"}]
                 /\ Backed(m)'
    <3>1. CASE Fails(key)
      <4>1. news' = Append(news, [type |-> "Outcome", key |-> key, state |-> "failed"])
        BY <3>1 DEF Fails, Ended
      <4>2. Backed([type |-> "Outcome", key |-> key, state |-> "failed"])'
        BY DEF Backed, Filed
      <4>3. QED
        BY <4>1, <4>2
    <3>2. CASE Completes(key)
      <4>1. /\ news' = Append(news, [type |-> "Outcome", key |-> key, state |-> "completed"])
            /\ key \in Nested \/ UniqueName(NameOf[key]) \in files'
        BY <3>2 DEF Completes, Ended
      <4>2. UniqueName(NameOf[key]).name = NameOf[key]
        BY DEF UniqueName, FileName
      <4>3. Backed([type |-> "Outcome", key |-> key, state |-> "completed"])'
        BY <4>1, <4>2 DEF Backed, Filed, OnFile
      <4>4. QED
        BY <4>1, <4>3
    <3>3. QED
      BY <2>1, <3>1, <3>2
  <2>5. m \in RowMessages' /\ m \notin UploadNews
    BY <2>4 DEF RowMessages, EndNews, UploadNews
  <2>6. partials \subseteq partials' \cup {m.key}
    BY <2>2, <2>4
  <2>7. QED
    BY <2>2, <2>3, <2>4, <2>5, <2>6
<1>6. QED
  BY <1>4, <1>5 DEF NewsAction

\* What goes on with uploads leaves the downloads alone.
UploadAction ==
  \/ UploadStarted \/ UploadEnded \/ ReactorStarts
  \/ \E key \in Keys :
       \/ GatedStarts(key) \/ CollectedStarts(key) \/ NeverStarts(key)
       \/ \E kind \in {"gated", "collected"} : StreamEnds(key, kind)

LEMMA StreamsCounted ==
  ASSUME RowTypes, NEW key \in Keys
  PROVE  /\ [streams EXCEPT ![key].gated = @ + 1] \in [Keys -> [gated : Nat, collected : Nat]]
         /\ [streams EXCEPT ![key].collected = @ + 1] \in [Keys -> [gated : Nat, collected : Nat]]
         /\ \A kind \in {"gated", "collected"} : streams[key][kind] > 0 =>
              [streams EXCEPT ![key][kind] = @ - 1] \in [Keys -> [gated : Nat, collected : Nat]]
<1>1. PICK S : S = [gated : Nat, collected : Nat]
  OBVIOUS
<1>2. streams \in [Keys -> S] /\ streams[key] \in S
  BY <1>1 DEF RowTypes, UploadsType
<1>3. PICK r : r = streams[key]
  OBVIOUS
<1>4. \A new \in S : [streams EXCEPT ![key] = new] \in [Keys -> S]
  BY <1>2
<1>5. [r EXCEPT !.gated = @ + 1] \in S /\ [r EXCEPT !.collected = @ + 1] \in S
  BY <1>1, <1>2, <1>3
<1>6. /\ [streams EXCEPT ![key].gated = @ + 1]
           = [streams EXCEPT ![key] = [r EXCEPT !.gated = @ + 1]]
      /\ [streams EXCEPT ![key].collected = @ + 1]
           = [streams EXCEPT ![key] = [r EXCEPT !.collected = @ + 1]]
  BY <1>2, <1>3
<1>7. ASSUME NEW kind \in {"gated", "collected"}, streams[key][kind] > 0
      PROVE  [streams EXCEPT ![key][kind] = @ - 1] \in [Keys -> S]
  <2>1. [r EXCEPT ![kind] = @ - 1] \in S
    <3>1. r[kind] \in Nat /\ r[kind] > 0
      BY <1>1, <1>2, <1>3, <1>7
    <3>2. r[kind] - 1 \in Nat
      BY <3>1
    <3>3. QED
      BY <1>1, <1>2, <1>3, <3>2
  <2>2. [streams EXCEPT ![key][kind] = @ - 1]
          = [streams EXCEPT ![key] = [r EXCEPT ![kind] = @ - 1]]
    BY <1>2, <1>3
  <2>3. QED
    BY <1>4, <2>1, <2>2
<1>8. QED
  BY <1>1, <1>4, <1>5, <1>6, <1>7

LEMMA UploadActionHolds ==
  ASSUME RowTypes, Balanced, UploadAction
  PROVE  /\ Balanced' /\ UploadsType' /\ news' \in Seq(RowMessages)
         /\ UNCHANGED <<rows, history, writing, files, partials>>
         /\ \/ news' = news
            \/ \E m \in UploadNews : news' = Append(news, m)
            \/ news # <<>> /\ news' = Tail(news) /\ Head(news) \in UploadNews
<1>1. /\ news \in Seq(RowMessages) /\ uploads \in Seq(UploadRow) /\ orders \in Seq(Keys)
      /\ streams \in [Keys -> [gated : Nat, collected : Nat]] /\ overtaken \in [Keys -> Nat]
  BY DEF RowTypes, UploadsType
<1>2. \A key \in Keys, type \in {"UploadStarted", "UploadEnded"} :
        Upload(type, key) \in UploadNews /\ Upload(type, key) \in RowMessages
  BY DEF Upload, UploadNews, RowMessages
<1>3. CASE UploadStarted \/ UploadEnded
  <2>1. /\ UNCHANGED <<downloadVars, streams, orders, overtaken>> /\ news' = Tail(news)
        /\ Comes("UploadStarted") \/ Comes("UploadEnded")
    BY <1>3 DEF UploadStarted, UploadEnded
  <2>2. news # <<>> /\ Tail(news) \in Seq(RowMessages) /\ Head(news) \in UploadNews
    BY <1>2, <2>1, UploadArrived
  <2>3. Balanced' /\ uploads' \in Seq(UploadRow)
    BY <1>3, UploadStartedKeeps, UploadEndedKeeps
  <2>4. QED
    BY <1>1, <2>1, <2>2, <2>3 DEF downloadVars, UploadsType
<1>4. CASE ReactorStarts
  <2>1. /\ UNCHANGED <<downloadVars, uploads, streams, overtaken>> /\ orders # <<>>
        /\ orders' = Tail(orders) /\ news' = Append(news, Upload("UploadStarted", Head(orders)))
    BY <1>4 DEF ReactorStarts
  <2>2. Tail(orders) \in Seq(Keys) /\ Head(orders) \in Keys
    BY <1>1, <2>1
  <2>3. PICK m \in UploadNews : m \in RowMessages /\ news' = Append(news, m)
    BY <1>2, <2>1, <2>2
  <2>4. Append(news, m) \in Seq(RowMessages)
    BY <1>1, <2>3
  <2>5. Balanced'
    BY <1>4, ReactorKeepsBalance
  <2>6. QED
    BY <1>1, <2>1, <2>2, <2>3, <2>4, <2>5 DEF downloadVars, UploadsType
<1>5. ASSUME NEW key \in Keys, GatedStarts(key) \/ CollectedStarts(key) \/ NeverStarts(key)
      PROVE  /\ Balanced' /\ UploadsType' /\ news' \in Seq(RowMessages)
             /\ UNCHANGED <<rows, history, writing, files, partials>>
             /\ news' = news \/ \E m \in UploadNews : news' = Append(news, m)
  <2>1. Balanced'
    BY <1>5, StartsKeepBalance
  <2>2. /\ UNCHANGED <<downloadVars, uploads, overtaken>>
        /\ news' = news \/ \E type \in {"UploadStarted", "UploadEnded"} :
                           news' = Append(news, Upload(type, key))
    BY <1>5 DEF GatedStarts, CollectedStarts, NeverStarts, uploadVars
  <2>3. news' = news \/ \E m \in UploadNews : m \in RowMessages /\ news' = Append(news, m)
    BY <1>2, <2>2
  <2>4. news' \in Seq(RowMessages)
    <3>1. \A m \in RowMessages : Append(news, m) \in Seq(RowMessages)
      BY <1>1
    <3>2. QED
      BY <1>1, <2>3, <3>1
  <2>5. orders' \in Seq(Keys) /\ streams' \in [Keys -> [gated : Nat, collected : Nat]]
    <3>1. CASE GatedStarts(key)
      <4>1. orders' = orders /\ streams' = [streams EXCEPT ![key].gated = @ + 1]
        BY <3>1 DEF GatedStarts
      <4>2. QED
        BY <1>1, <4>1, StreamsCounted
    <3>2. CASE CollectedStarts(key)
      <4>1. orders' = Append(orders, key) /\ streams' = [streams EXCEPT ![key].collected = @ + 1]
        BY <3>2 DEF CollectedStarts
      <4>2. Append(orders, key) \in Seq(Keys)
        BY <1>1
      <4>3. QED
        BY <4>1, <4>2, StreamsCounted
    <3>3. CASE NeverStarts(key)
      BY <1>1, <3>3 DEF NeverStarts, uploadVars
    <3>4. QED
      BY <1>5, <3>1, <3>2, <3>3
  <2>6. QED
    BY <1>1, <2>1, <2>2, <2>3, <2>4, <2>5 DEF downloadVars, UploadsType
<1>6. ASSUME NEW key \in Keys, NEW kind \in {"gated", "collected"}, StreamEnds(key, kind)
      PROVE  /\ Balanced' /\ UploadsType' /\ news' \in Seq(RowMessages)
             /\ UNCHANGED <<rows, history, writing, files, partials>>
             /\ \E m \in UploadNews : news' = Append(news, m)
  <2>1. Balanced'
    BY <1>6, StreamEndsKeepsBalance
  <2>2. /\ UNCHANGED <<downloadVars, uploads, orders>> /\ streams[key][kind] > 0
        /\ streams' = [streams EXCEPT ![key][kind] = @ - 1]
        /\ news' = Append(news, Upload("UploadEnded", key))
        /\ overtaken' = [overtaken EXCEPT ![key] =
                           IF kind = "collected" /\ key \in ToSet(orders) THEN @ + 1 ELSE @]
    BY <1>6 DEF StreamEnds
  <2>3. PICK m \in UploadNews : m \in RowMessages /\ news' = Append(news, m)
    BY <1>2, <2>2
  <2>4. Append(news, m) \in Seq(RowMessages)
    BY <1>1, <2>3
  <2>5. streams' \in [Keys -> [gated : Nat, collected : Nat]]
    <3>1. [streams EXCEPT ![key][kind] = @ - 1] \in [Keys -> [gated : Nat, collected : Nat]]
      BY <2>2, StreamsCounted
    <3>2. QED
      BY <2>2, <3>1
  <2>6. overtaken' \in [Keys -> Nat]
    BY <1>1, <2>2
  <2>7. QED
    BY <1>1, <2>1, <2>2, <2>3, <2>4, <2>5, <2>6 DEF downloadVars, UploadsType
<1>7. QED
  BY <1>3, <1>4, <1>5, <1>6 DEF UploadAction

-----------------------------------------------------------------------------
(* What is being written holds every row that is not active, and no row      *)
(* changes before it is written.                                             *)

WrittenHolds ==
  writing # <<>> =>
     \A i \in DOMAIN rows : ~ IsActive(rows[i].state) => rows[i] \in ToSet(writing[1])

\* While nothing is written, what the list shows as over is saved, is on the
\* disk, or is still news: FinishedSurvives, but for what the types say already.
Recoverable ==
  writing = <<>> =>
     \A i \in DOMAIN rows : ~ IsActive(rows[i].state) =>
        \/ rows[i] \in ToSet(Saved)
        \/ rows[i].key \in OnDisk \/ Filed(rows[i])
        \/ EndIsNews(rows[i])

RowsInv == RowTypes /\ Balanced /\ Recoverable /\ WrittenHolds

LEMMA RecoverableSurvives ==
  ASSUME RowTypes, Recoverable
  PROVE  FinishedSurvives
<1>1. ASSUME NEW i \in DOMAIN rows, Filed(rows[i])
      PROVE  FoundOnDisk(rows[i])
  <2>1. Backed(rows[i])
    BY <1>1 DEF RowTypes, DownloadsType, Rows
  <2>2. QED
    BY <1>1, <2>1 DEF Backed, OnFile, FoundOnDisk, OnDisk
<1>2. ASSUME NEW i \in DOMAIN rows, rows[i].key \in OnDisk
      PROVE  FoundOnDisk(rows[i])
  BY <1>2 DEF FoundOnDisk
<1>3. QED
  BY <1>1, <1>2 DEF Recoverable, FinishedSurvives

\* The end of a row is in a queue of news, be it this one or the next.
Told(row, q) ==
  \E i \in DOMAIN q : q[i].type = "Outcome" /\ row.key \in {q[i].key, Named(q[i].key)}

\* Rows are shown as active, or stay what they were, on what is saved; what was on
\* the disk is there or is news, and no news of an end is lost.
LEMMA ShownHolds ==
  ASSUME RowsInv, writing = <<>>, UNCHANGED <<history, writing>>,
         \A i \in DOMAIN rows' : \/ IsActive(rows'[i].state)
                                 \/ \E j \in DOMAIN rows : rows'[i] = rows[j],
         \A j \in DOMAIN rows :
           rows[j].key \in OnDisk => rows[j].key \in OnDisk' \/ Told(rows[j], news'),
         \A i \in DOMAIN news : news[i].type = "Outcome" =>
           \E j \in DOMAIN news' : news'[j] = news[i]
  PROVE  Recoverable' /\ WrittenHolds'
<1>1. Saved' = Saved
  BY DEF Saved
<1>2. PICK saved : saved = ToSet(Saved) /\ saved = ToSet(Saved')
  BY <1>1
<1>3. ASSUME NEW i \in DOMAIN rows', ~ IsActive(rows'[i].state)
      PROVE  \/ rows'[i] \in saved
             \/ rows'[i].key \in OnDisk' \/ Filed(rows'[i])
             \/ Told(rows'[i], news')
  <2>1. PICK j \in DOMAIN rows : rows'[i] = rows[j] /\ ~ IsActive(rows[j].state)
    BY <1>3
  <2>2. \/ rows[j] \in saved
        \/ rows[j].key \in OnDisk \/ Filed(rows[j])
        \/ Told(rows[j], news)
    BY <1>2, <2>1 DEF RowsInv, Recoverable, EndIsNews, Told
  <2>3. ASSUME Told(rows[j], news)
        PROVE  Told(rows[j], news')
    <3>1. PICK n \in DOMAIN news :
            news[n].type = "Outcome" /\ rows[j].key \in {news[n].key, Named(news[n].key)}
      BY <2>3 DEF Told
    <3>2. PICK o \in DOMAIN news' : news'[o] = news[n]
      BY <3>1
    <3>3. QED
      BY <3>1, <3>2 DEF Told
  <2>4. QED
    BY <2>1, <2>2, <2>3
<1>4. Recoverable'
  BY <1>2, <1>3 DEF Recoverable, EndIsNews, Told
<1>5. QED
  BY <1>4 DEF WrittenHolds

\* While something is written the list may be ahead of the disk.
LEMMA AheadHolds ==
  ASSUME RowsInv, UNCHANGED <<rows, writing>>, writing # <<>>
  PROVE  Recoverable' /\ WrittenHolds'
BY DEF RowsInv, Recoverable, WrittenHolds

\* Everything that is not active is about to be written.
LEMMA SavingHolds ==
  ASSUME NEW new \in Seq(Rows), new = rows', Save(new)
  PROVE  Recoverable' /\ WrittenHolds' /\ history' \in Contents /\ writing' \in Contents
<1>1. PICK saved \in Seq(Rows) :
        /\ history' = <<>> /\ writing' = <<saved>>
        /\ \A i \in DOMAIN new : ~ IsActive(new[i].state) => new[i] \in ToSet(saved)
  BY SaveHolds
<1>2. writing' # <<>> /\ writing'[1] = saved
  BY <1>1
<1>3. Recoverable'
  BY <1>2 DEF Recoverable
<1>4. WrittenHolds'
  BY <1>1, <1>2 DEF WrittenHolds
<1>5. QED
  BY <1>1, <1>3, <1>4, ContentsHold

LEMMA InitRowsInv ==
  RowsInit => RowsInv
<1> SUFFICES ASSUME RowsInit
             PROVE  RowsInv
  OBVIOUS
<1>1. /\ history = <<>> /\ writing = <<>> /\ files = {} /\ partials = {} /\ rows = <<>>
      /\ uploads = <<>> /\ streams = NoStreams /\ orders = <<>> /\ news = <<>>
      /\ overtaken = [k \in Keys |-> 0]
  BY DEF RowsInit
<1>2. /\ \A S : <<>> \in Seq(S)
      /\ DOMAIN <<>> = {} /\ IsFiniteSet({})
  BY EmptySeq, FS_EmptySet
<1>3. streams \in [Keys -> [gated : Nat, collected : Nat]]
  BY <1>1 DEF NoStreams
<1>4. RowTypes
  BY <1>1, <1>2, <1>3, ContentsHold DEF RowTypes, DownloadsType, UploadsType
<1>5. Balanced
  BY <1>1, QuietIsBalanced DEF Quiet
<1>6. Recoverable /\ WrittenHolds
  BY <1>1, <1>2 DEF Recoverable, WrittenHolds
<1>7. QED
  BY <1>4, <1>5, <1>6 DEF RowsInv

\* A message about a download is taken.
LEMMA TakenKeeps ==
  ASSUME RowsInv,
         StartDownload \/ CancelDownload \/ PauseDownload \/ Outcome \/ DownloadQueuePosition
  PROVE  RowsInv'
<1>1. RowTypes /\ Balanced
  BY DEF RowsInv
<1>2. /\ UNCHANGED <<files, partials, uploadVars>> /\ rows' \in Seq(Rows)
      /\ news # <<>> /\ news' = Tail(news) /\ Head(news) \notin UploadNews
      /\ writing = <<>> /\ news' \in Seq(RowMessages)
  BY <1>1, TakenRows
<1>3. Balanced'
  BY <1>1, <1>2, OthersKeepBalance
<1>4. /\ history \in Contents /\ writing \in Contents /\ news \in Seq(RowMessages)
      /\ partials \subseteq Keys /\ IsFiniteSet(partials)
  BY <1>1 DEF RowTypes, DownloadsType
<1>5. UploadsType'
  BY <1>1, <1>2, UploadsTypeKept
<1>6. CASE Save(rows')
  <2>1. PICK new : new = rows'
    OBVIOUS
  <2>2. new \in Seq(Rows) /\ Save(new)
    BY <1>2, <1>6, <2>1
  <2>3. Recoverable' /\ WrittenHolds' /\ history' \in Contents /\ writing' \in Contents
    BY <2>1, <2>2, SavingHolds
  <2>4. RowTypes'
    BY <1>1, <1>2, <1>4, <1>5, <2>3, TypesKept
  <2>5. QED
    BY <1>3, <2>3, <2>4 DEF RowsInv
<1>7. CASE /\ UNCHANGED <<history, writing>> /\ Head(news).type # "Outcome"
           /\ \A i \in DOMAIN rows' : \/ IsActive(rows'[i].state)
                                      \/ \E j \in DOMAIN rows : rows'[i] = rows[j]
  <2>1. RowTypes'
    BY <1>1, <1>2, <1>4, <1>5, <1>7, TypesKept
  <2>2. \A i \in DOMAIN news : news[i].type = "Outcome" =>
          \E j \in DOMAIN news' : news'[j] = news[i]
    <3>1. /\ Len(news) \in Nat \ {0} /\ DOMAIN news = 1 .. Len(news) /\ news[1] = Head(news)
          /\ Len(Tail(news)) = Len(news) - 1 /\ DOMAIN Tail(news) = 1 .. Len(Tail(news))
          /\ \A j \in 1 .. Len(Tail(news)) : Tail(news)[j] = news[j + 1]
      BY <1>2, <1>4, HeadTailProperties
    <3>2. ASSUME NEW i \in DOMAIN news, news[i].type = "Outcome"
          PROVE  \E j \in DOMAIN news' : news'[j] = news[i]
      <4>1. i # 1
        BY <1>7, <3>1, <3>2
      <4>2. i - 1 \in DOMAIN Tail(news) /\ (i - 1) + 1 = i
        BY <3>1, <4>1
      <4>3. Tail(news)[i - 1] = news[i]
        BY <3>1, <4>2
      <4>4. QED
        BY <1>2, <3>2, <4>2, <4>3
    <3>3. QED
      BY <3>2
  <2>3. OnDisk \subseteq OnDisk'
    BY <1>2 DEF OnDisk, Named, FileName
  <2>4. Recoverable' /\ WrittenHolds'
    BY <1>2, <1>7, <2>2, <2>3, ShownHolds
  <2>5. QED
    BY <1>3, <2>1, <2>4 DEF RowsInv
<1>8. QED
  BY <1>1, <1>6, <1>7, TakenRows

\* A message about a download is sent.
LEMMA NewsKeeps ==
  ASSUME RowsInv, NewsAction
  PROVE  RowsInv'
<1>1. RowTypes /\ Balanced
  BY DEF RowsInv
<1>2. /\ UNCHANGED <<rows, history, writing, uploadVars>>
      /\ files \subseteq files' /\ IsFiniteSet(files')
      /\ partials' \subseteq Keys /\ IsFiniteSet(partials')
  BY <1>1, DownloadNews
<1>3. PICK m \in RowMessages' :
        /\ news' = Append(news, m) /\ m \notin UploadNews
        /\ \/ UNCHANGED <<files, partials>>
           \/ m.type = "Outcome" /\ partials \subseteq partials' \cup {m.key}
  BY <1>1, DownloadNews
<1>4. Balanced'
  BY <1>1, <1>2, <1>3, OthersKeepBalance
<1>5. RowTypes'
  <2>1. /\ rows \in Seq(Rows) /\ history \in Contents /\ writing \in Contents
        /\ news \in Seq(RowMessages)
    BY <1>1 DEF RowTypes, DownloadsType
  <2>2. /\ Contents \subseteq Contents'
        /\ Seq(Rows) \subseteq Seq(Rows') /\ Seq(RowMessages) \subseteq Seq(RowMessages')
    BY <1>2, MoreRows
  <2>3. Append(news, m) \in Seq(RowMessages')
    <3>1. news \in Seq(RowMessages')
      BY <2>1, <2>2
    <3>2. QED
      BY <1>3, <3>1
  <2>4. rows' \in Seq(Rows') /\ history' \in Contents' /\ writing' \in Contents'
    BY <1>2, <2>1, <2>2
  <2>5. news' \in Seq(RowMessages')
    BY <1>3, <2>3
  <2>6. UploadsType'
    BY <1>1, <1>2, UploadsTypeKept
  <2>7. QED
    BY <1>2, <2>4, <2>5, <2>6 DEF RowTypes, DownloadsType
<1>6. /\ DOMAIN news' = 1 .. Len(news) + 1 /\ news'[Len(news) + 1] = m /\ Len(news) \in Nat
      /\ \A i \in DOMAIN news : i \in DOMAIN news' /\ news'[i] = news[i]
  <2>1. news \in Seq(RowMessages)
    BY <1>1 DEF RowTypes
  <2>2. QED
    BY <1>3, <2>1
<1>7. Recoverable' /\ WrittenHolds'
  <2>1. CASE writing # <<>>
    BY <1>2, <2>1, AheadHolds
  <2>2. CASE writing = <<>>
    <3>1. \A i \in DOMAIN rows' : \E j \in DOMAIN rows : rows'[i] = rows[j]
      BY <1>2
    <3>2. \A i \in DOMAIN news : \E j \in DOMAIN news' : news'[j] = news[i]
      BY <1>6
    <3>3. ASSUME NEW j \in DOMAIN rows, rows[j].key \in OnDisk
          PROVE  rows[j].key \in OnDisk' \/ Told(rows[j], news')
      <4>1. CASE rows[j].key \in OnDisk'
        BY <4>1
      <4>2. CASE rows[j].key \notin OnDisk'
        <5>1. m.type = "Outcome" /\ partials \subseteq partials' \cup {m.key}
          BY <1>3, <3>3, <4>2 DEF OnDisk, Named, FileName
        <5>2. rows[j].key = Named(m.key)
          BY <1>2, <3>3, <4>2, <5>1 DEF OnDisk, Named, FileName
        <5>3. Len(news) + 1 \in DOMAIN news'
          BY <1>6
        <5>4. QED
          BY <1>6, <5>1, <5>2, <5>3 DEF Told
      <4>3. QED
        BY <4>1, <4>2
    <3>4. QED
      BY <1>2, <2>2, <3>1, <3>2, <3>3, ShownHolds
  <2>3. QED
    BY <2>1, <2>2
<1>8. QED
  BY <1>4, <1>5, <1>7 DEF RowsInv

LEMMA UploadKeeps ==
  ASSUME RowsInv, UploadAction
  PROVE  RowsInv'
<1>1. RowTypes /\ Balanced
  BY DEF RowsInv
<1>2. /\ Balanced' /\ UploadsType' /\ news' \in Seq(RowMessages)
      /\ UNCHANGED <<rows, history, writing, files, partials>>
  BY <1>1, UploadActionHolds
<1>3. RowTypes'
  BY <1>1, <1>2, TypesKept DEF RowTypes, DownloadsType
<1>4. news \in Seq(RowMessages) /\ Len(news) \in Nat /\ DOMAIN news = 1 .. Len(news)
  BY <1>1 DEF RowTypes
<1>5. \A m \in UploadNews : m \in RowMessages /\ m.type # "Outcome"
  BY DEF RowMessages, UploadNews
<1>6. \A i \in DOMAIN news : news[i].type = "Outcome" =>
        \E j \in DOMAIN news' : news'[j] = news[i]
  <2>1. CASE news' = news
    BY <2>1
  <2>2. CASE \E m \in UploadNews : news' = Append(news, m)
    <3>1. PICK m \in UploadNews : news' = Append(news, m)
      BY <2>2
    <3>2. \A i \in DOMAIN news : i \in DOMAIN news' /\ news'[i] = news[i]
      BY <1>4, <1>5, <3>1
    <3>3. QED
      BY <3>2
  <2>3. CASE news # <<>> /\ news' = Tail(news) /\ Head(news) \in UploadNews
    <3>1. /\ news[1] = Head(news) /\ Len(Tail(news)) = Len(news) - 1
          /\ DOMAIN Tail(news) = 1 .. Len(Tail(news))
          /\ \A j \in 1 .. Len(Tail(news)) : Tail(news)[j] = news[j + 1]
      BY <1>4, <2>3, HeadTailProperties
    <3>2. ASSUME NEW i \in DOMAIN news, news[i].type = "Outcome"
          PROVE  \E j \in DOMAIN news' : news'[j] = news[i]
      <4>1. i # 1
        BY <1>5, <2>3, <3>1, <3>2
      <4>2. i - 1 \in DOMAIN Tail(news) /\ i - 1 \in 1 .. Len(Tail(news)) /\ (i - 1) + 1 = i
        BY <1>4, <3>1, <4>1
      <4>3. Tail(news)[i - 1] = news[i]
        BY <3>1, <4>2
      <4>4. QED
        BY <2>3, <3>2, <4>2, <4>3
    <3>3. QED
      BY <3>2
  <2>4. QED
    BY <1>1, <2>1, <2>2, <2>3, UploadActionHolds
<1>7. Recoverable' /\ WrittenHolds'
  <2>1. CASE writing # <<>>
    BY <1>2, <2>1, AheadHolds
  <2>2. CASE writing = <<>>
    <3>1. OnDisk \subseteq OnDisk'
      BY <1>2 DEF OnDisk, Named, FileName
    <3>2. \A i \in DOMAIN rows' : \E j \in DOMAIN rows : rows'[i] = rows[j]
      BY <1>2
    <3>3. QED
      BY <1>2, <1>6, <2>2, <3>1, <3>2, ShownHolds
  <2>3. QED
    BY <2>1, <2>2
<1>8. QED
  BY <1>2, <1>3, <1>7 DEF RowsInv

LEMMA ReceiveKeeps ==
  ASSUME RowsInv, NEW key \in Keys, Receive(key)
  PROVE  RowsInv'
<1>1. RowTypes /\ Balanced
  BY DEF RowsInv
<1>2. /\ partials' = partials \cup {key}
      /\ UNCHANGED <<rows, history, writing, files, uploadVars, news>>
  BY DEF Receive
<1>3. RowTypes'
  <2>1. partials' \subseteq Keys /\ IsFiniteSet(partials')
    BY <1>1, <1>2, FS_AddElement DEF RowTypes, DownloadsType
  <2>2. UploadsType'
    BY <1>1, <1>2, UploadsTypeKept
  <2>3. QED
    BY <1>1, <1>2, <2>1, <2>2, TypesKept DEF RowTypes, DownloadsType
<1>4. Balanced'
  BY <1>1, <1>2, OthersKeepBalance
<1>5. Recoverable' /\ WrittenHolds'
  <2>1. CASE writing # <<>>
    BY <1>2, <2>1, AheadHolds
  <2>2. CASE writing = <<>>
    <3>1. OnDisk \subseteq OnDisk'
      BY <1>2 DEF OnDisk, Named, FileName
    <3>2. \A i \in DOMAIN rows' : \E j \in DOMAIN rows : rows'[i] = rows[j]
      BY <1>2
    <3>3. QED
      BY <1>2, <2>2, <3>1, <3>2, ShownHolds
  <2>3. QED
    BY <2>1, <2>2
<1>6. QED
  BY <1>3, <1>4, <1>5 DEF RowsInv

\* What was being written is what is saved.
LEMMA WriteEndsKeeps ==
  ASSUME RowsInv, WriteEnds
  PROVE  RowsInv'
<1>1. RowTypes /\ Balanced /\ WrittenHolds
  BY DEF RowsInv
<1>2. /\ writing # <<>> /\ history' = writing /\ writing' = <<>>
      /\ UNCHANGED <<rows, files, partials, uploadVars, news>>
  BY DEF WriteEnds
<1>3. RowTypes'
  <2>1. UploadsType' /\ history' \in Contents /\ writing' \in Contents
    BY <1>1, <1>2, UploadsTypeKept, ContentsHold DEF RowTypes, DownloadsType
  <2>2. QED
    BY <1>1, <1>2, <2>1, TypesKept DEF RowTypes, DownloadsType
<1>4. Balanced'
  BY <1>1, <1>2, OthersKeepBalance
<1>5. Saved' = writing[1]
  BY <1>2 DEF Saved
<1>6. \A i \in DOMAIN rows : ~ IsActive(rows[i].state) => rows[i] \in ToSet(writing[1])
  BY <1>1, <1>2 DEF WrittenHolds
<1>7. Recoverable'
  <2>1. PICK saved : saved = ToSet(writing[1]) /\ saved = ToSet(Saved')
    BY <1>5
  <2>2. \A i \in DOMAIN rows' : ~ IsActive(rows'[i].state) => rows'[i] \in saved
    BY <1>2, <1>6, <2>1
  <2>3. QED
    BY <2>1, <2>2 DEF Recoverable
<1>8. WrittenHolds'
  BY <1>2 DEF WrittenHolds
<1>9. QED
  BY <1>3, <1>4, <1>7, <1>8 DEF RowsInv

\* Whatever the list was put together from is there at the next start too.
LEMMA CrashKeeps ==
  ASSUME RowsInv, Crash
  PROVE  RowsInv'
<1>1. RowTypes
  BY DEF RowsInv
<1>2. /\ rows' \in Seq(Rows) /\ UNCHANGED <<files, partials, history>> /\ writing' = <<>>
      /\ news' = <<>> /\ uploads' = <<>> /\ streams' = NoStreams /\ orders' = <<>>
      /\ overtaken' = [k \in Keys |-> 0]
      /\ \A i \in DOMAIN rows' : rows'[i] \in ToSet(Saved) \/ rows'[i].key \in OnDisk
  BY <1>1, RestartHolds
<1>3. \A S : <<>> \in Seq(S)
  BY EmptySeq
<1>4. UploadsType' /\ news' \in Seq(RowMessages)
  <2>1. NoStreams \in [Keys -> [gated : Nat, collected : Nat]]
    BY DEF NoStreams
  <2>2. streams' \in [Keys -> [gated : Nat, collected : Nat]] /\ overtaken' \in [Keys -> Nat]
    BY <1>2, <2>1
  <2>3. uploads' \in Seq(UploadRow) /\ orders' \in Seq(Keys) /\ news' \in Seq(RowMessages)
    BY <1>2, <1>3
  <2>4. QED
    BY <2>2, <2>3 DEF UploadsType
<1>5. RowTypes'
  BY <1>1, <1>2, <1>4, TypesKept, ContentsHold DEF RowTypes, DownloadsType
<1>6. Balanced'
  <2>1. Quiet'
    BY <1>2 DEF Quiet, NoStreams
  <2>2. QED
    BY <2>1, QuietIsBalanced, PTL
<1>7. Recoverable' /\ WrittenHolds'
  <2>1. Saved' = Saved /\ OnDisk' = OnDisk
    BY <1>2 DEF Saved, OnDisk, Named, FileName
  <2>2. PICK saved : saved = ToSet(Saved) /\ saved = ToSet(Saved')
    BY <2>1
  <2>3. \A i \in DOMAIN rows' : rows'[i] \in saved \/ rows'[i].key \in OnDisk'
    BY <1>2, <2>1, <2>2
  <2>4. QED
    BY <1>2, <2>2, <2>3 DEF Recoverable, WrittenHolds
<1>8. QED
  BY <1>5, <1>6, <1>7 DEF RowsInv

LEMMA StepRowsInv ==
  RowsInv /\ [RowsNext]_rowVars => RowsInv'
<1> SUFFICES ASSUME RowsInv, [RowsNext]_rowVars
             PROVE  RowsInv'
  OBVIOUS
<1>1. CASE UNCHANGED rowVars
  <2>1. UNCHANGED <<rows, history, writing, files, partials, uploads, streams, orders, news,
                    overtaken>>
    BY <1>1 DEF rowVars, downloadVars, uploadVars
  <2>2. Rows' = Rows /\ Contents' = Contents /\ RowMessages' = RowMessages
    BY <2>1, SameRows
  <2>3. RowTypes'
    BY <2>1, <2>2 DEF RowsInv, RowTypes, DownloadsType, UploadsType
  <2>4. Balanced'
    BY <2>1, OthersKeepBalance DEF RowsInv, uploadVars
  <2>5. Recoverable' /\ WrittenHolds'
    BY <2>1 DEF RowsInv, Recoverable, WrittenHolds, Saved, OnDisk, Named, FileName, ToSet,
                EndIsNews
  <2>6. QED
    BY <2>3, <2>4, <2>5 DEF RowsInv
<1>2. CASE StartDownload \/ CancelDownload \/ PauseDownload \/ Outcome \/ DownloadQueuePosition
  BY <1>2, TakenKeeps
<1>3. CASE UploadAction
  BY <1>3, UploadKeeps
<1>4. CASE NewsAction
  BY <1>4, NewsKeeps
<1>5. CASE \E key \in Keys : Receive(key)
  BY <1>5, ReceiveKeeps
<1>6. CASE WriteEnds
  BY <1>6, WriteEndsKeeps
<1>7. CASE Crash
  BY <1>7, CrashKeeps
<1>8. QED
  BY <1>1, <1>2, <1>3, <1>4, <1>5, <1>6, <1>7 DEF RowsNext, UploadAction, NewsAction

LEMMA TheInvariant ==
  RowsSpec => []RowsInv
BY InitRowsInv, StepRowsInv, PTL DEF RowsSpec

-----------------------------------------------------------------------------
(* The results.                                                              *)

\* Whatever was downloaded, cancelled and paused, in whatever order the news
\* came, and wherever the process dies, in the middle of a save too: the finished
\* file of every row that tells of one of the download folder itself is found on
\* the disk at the next start; so is any other row that is over, or it is in the
\* saved history, unless that is being written over at that moment or the news of
\* the end was still to come (save_downloads writes every row that is over, in
\* place and before the core worker takes another message; api_server.rs).
THEOREM FinishedAlwaysSurvives ==
  RowsSpec => []FinishedSurvives
<1>1. RowsInv => FinishedSurvives
  BY RecoverableSurvives DEF RowsInv
<1>2. QED
  BY <1>1, TheInvariant, PTL

LEMMA BalanceEnds ==
  RowsInv => UploadRowsEnd
<1> SUFFICES ASSUME RowsInv, streams = NoStreams, orders = <<>>, news = <<>>, NEW key \in Keys
             PROVE  Cardinality({i \in DOMAIN uploads : uploads[i] = Row(key, "active")})
                      <= overtaken[key]
  BY DEF UploadRowsEnd
<1>1. RowTypes /\ BalancedAt(key)
  BY DEF RowsInv, Balanced
<1>2. \A m : Count(<<>>, 1, m) = 0
  <2>1. <<>> \in Seq({}) /\ Len(<<>>) = 0 /\ DOMAIN <<>> = {}
    BY EmptySeq
  <2>2. QED
    BY <2>1, CountNone
<1>3. Starts(news, 1, key) = 0 /\ EndsOf(news, 1, key) = 0 /\ Count(orders, 1, key) = 0
  BY <1>2 DEF Starts, EndsOf
<1>4. streams[key].gated = 0 /\ streams[key].collected = 0
  BY DEF NoStreams
<1>5. PICK A \in Nat, O \in Nat : A = Count(uploads, 1, Row(key, "active")) /\ O = overtaken[key]
  BY <1>1, BalancedTypes
<1>6. A <= O
  BY <1>1, <1>3, <1>4, <1>5 DEF BalancedAt
<1>7. {i \in DOMAIN uploads : uploads[i] = Row(key, "active")}
        = Places(uploads, 1, Row(key, "active"))
  <2>1. uploads \in Seq(UploadRow)
    BY <1>1 DEF RowTypes, UploadsType
  <2>2. \A i \in DOMAIN uploads : i >= 1
    BY <2>1
  <2>3. QED
    BY <2>1, <2>2 DEF Places
<1>8. QED
  BY <1>5, <1>6, <1>7 DEF Count

\* When no upload is under way every upload row has ended, however many of one
\* file there were and whichever rows had to make room, but for those whose end
\* overtook their start: UploadComplete and UploadFailed each end the first row
\* of the file that is still active, and a row that made room for others takes
\* no other row's end with it (api_server.rs).
THEOREM UploadRowsAlwaysEnd ==
  RowsSpec => []UploadRowsEnd
BY TheInvariant, BalanceEnds, PTL
=============================================================================
