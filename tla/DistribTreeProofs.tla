------------------------- MODULE DistribTreeProofs -------------------------
(***************************************************************************)
(* The properties of DistribTree for any number of connections and         *)
(* children, any levels, speeds and bounds.  Five parts, each an inductive *)
(* invariant over the types of the first: the types, the feed, the child   *)
(* connections, what the server is told, and how many parents were asked.  *)
(***************************************************************************)
EXTENDS DistribTree, TLAPS, SequenceTheorems, FiniteSetTheorems

-----------------------------------------------------------------------------
(* Queues.                                                                   *)

LEMMA AppendFacts ==
  ASSUME NEW S, NEW s \in Seq(S), NEW x \in S
  PROVE  /\ Append(s, x) \in Seq(S) /\ Len(s) \in Nat
         /\ Len(Append(s, x)) = Len(s) + 1
         /\ Append(s, x)[Len(s) + 1] = x
         /\ \A i \in 1 .. Len(s) : Append(s, x)[i] = s[i]
         /\ Range(Append(s, x)) = Range(s) \cup {x}
<1> DEFINE t == Append(s, x)
<1>1. t \in Seq(S) /\ Len(t) = Len(s) + 1 /\ t[Len(s) + 1] = x /\ Len(s) \in Nat
      /\ \A i \in 1 .. Len(s) : t[i] = s[i]
  OBVIOUS
<1>2. DOMAIN s = 1 .. Len(s) /\ DOMAIN t = 1 .. Len(t)
  BY <1>1
<1> HIDE DEF t
<1>3. Range(t) = {t[i] : i \in 1 .. Len(t)} /\ Range(s) = {s[i] : i \in 1 .. Len(s)}
  BY <1>2 DEF Range
<1>4. \A i \in 1 .. Len(t) : i \in 1 .. Len(s) \/ i = Len(s) + 1
  BY <1>1
<1>5. \A i \in 1 .. Len(s) : i \in 1 .. Len(t)
  BY <1>1
<1>6. Len(s) + 1 \in 1 .. Len(t)
  BY <1>1
<1>7. Range(t) = Range(s) \cup {x}
  BY <1>1, <1>3, <1>4, <1>5, <1>6
<1>8. QED
  BY <1>1, <1>7 DEF t

LEMMA TailFacts ==
  ASSUME NEW S, NEW s \in Seq(S), s # <<>>
  PROVE  /\ Head(s) \in S /\ Tail(s) \in Seq(S)
         /\ Len(s) \in Nat \ {0} /\ Head(s) = s[1]
         /\ Len(Tail(s)) = Len(s) - 1
         /\ \A i \in 1 .. Len(s) - 1 : Tail(s)[i] = s[i + 1]
         /\ Range(s) = {Head(s)} \cup Range(Tail(s))
<1> DEFINE t == Tail(s)
<1>1. t \in Seq(S) /\ Len(t) = Len(s) - 1 /\ Len(s) \in Nat \ {0} /\ Head(s) = s[1]
      /\ s[1] \in S /\ \A i \in 1 .. Len(s) - 1 : t[i] = s[i + 1]
  OBVIOUS
<1>2. DOMAIN s = 1 .. Len(s) /\ DOMAIN t = 1 .. Len(t)
  BY <1>1
<1> HIDE DEF t
<1>3. Range(t) = {t[i] : i \in 1 .. Len(t)} /\ Range(s) = {s[i] : i \in 1 .. Len(s)}
  BY <1>2 DEF Range
<1>4. \A i \in 1 .. Len(s) : i = 1 \/ (i - 1 \in 1 .. Len(t) /\ t[i - 1] = s[i])
  BY <1>1
<1>5. \A i \in 1 .. Len(t) : i + 1 \in 1 .. Len(s) /\ t[i] = s[i + 1]
  BY <1>1
<1>6. 1 \in 1 .. Len(s)
  BY <1>1
<1>7. Range(s) = {s[1]} \cup Range(t)
  BY <1>3, <1>4, <1>5, <1>6
<1>8. QED
  BY <1>1, <1>7 DEF t

-----------------------------------------------------------------------------
(* Types.                                                                    *)

View == [level : Nat, root : Roots \cup {OurName}, accept : BOOLEAN]
Msgs == {DistribConnect, PierceDistrib, RelaySearch}
          \cup [kind : {"Advert"}, view : View]
Cmds == {DistribConnect, PierceDistrib, RelaySearch, AdvertiseBranch}

\* The variables other than the connections: their counting is a part of its own.
Typed ==
  /\ logged_in \in BOOLEAN /\ distrib_parent \in BOOLEAN
  /\ bus \in Seq(Msgs) /\ cmds \in Seq(Cmds) /\ told \in View
  /\ upstream \in 0 .. MaxConns
  /\ attached \in BOOLEAN /\ branch \in Branch /\ speeds \in Speeds
  /\ DOMAIN children \subseteq Kids /\ children \in [DOMAIN children -> Kid]
  /\ next_child \in Nat \ {0}
  /\ news \in 0 .. MaxNews /\ drops \in 0 .. MaxDrops
  /\ stacked \in BOOLEAN /\ pierced \in BOOLEAN

LEMMA FedKid ==
  ASSUME NEW kid \in Kid, NEW fs \in Seq(Frames)
  PROVE  /\ [kid EXCEPT !.todo = @ \o fs] \in Kid
         /\ [kid EXCEPT !.todo = @ \o fs].todo = kid.todo \o fs
         /\ [kid EXCEPT !.todo = @ \o fs].heard = kid.heard
         /\ [kid EXCEPT !.todo = @ \o fs].alive = kid.alive
<1>1. kid.todo \o fs \in Seq(Frames)
  BY ConcatProperties DEF Kid
<1>2. QED
  BY <1>1 DEF Kid

Written(kid) ==
  [kid EXCEPT !.todo = Tail(@), !.heard[Head(kid.todo).field] = Head(kid.todo).value,
              !.greeting = IF @ > 0 THEN @ - 1 ELSE 0]

LEMMA WrittenKid ==
  ASSUME NEW kid \in Kid, kid.todo # <<>>
  PROVE  /\ Written(kid) \in Kid /\ Written(kid).alive = kid.alive
         /\ Written(kid).todo = Tail(kid.todo)
         /\ Head(kid.todo) \in Frames
         /\ \A g \in {"level", "root"} :
              Written(kid).heard[g] = IF g = Head(kid.todo).field THEN Head(kid.todo).value
                                      ELSE kid.heard[g]
<1> DEFINE f == Head(kid.todo)
<1>1. f \in Frames /\ Tail(kid.todo) \in Seq(Frames)
  <2>1. kid.todo \in Seq(Frames)
    BY DEF Kid
  <2>2. QED
    BY <2>1, TailFacts
<1>2. kid.heard \in Branch /\ kid.greeting \in 0 .. 2
  BY DEF Kid
<1>3. (IF kid.greeting > 0 THEN kid.greeting - 1 ELSE 0) \in 0 .. 2
  BY <1>2
<1>4. [kid.heard EXCEPT ![f.field] = f.value] \in Branch
  <2>1. CASE f.field = "level" /\ f.value \in Nat
    BY <2>1, <1>2 DEF Branch
  <2>2. CASE f.field = "root" /\ f.value \in Roots \cup {OurName}
    BY <2>2, <1>2 DEF Branch
  <2>3. QED
    BY <1>1, <2>1, <2>2 DEF Frames
<1>5. \A g \in {"level", "root"} :
         [kid.heard EXCEPT ![f.field] = f.value][g] = IF g = f.field THEN f.value
                                                     ELSE kid.heard[g]
  BY <1>2 DEF Branch
<1> DEFINE h == [kid.heard EXCEPT ![f.field] = f.value]
           g0 == IF kid.greeting > 0 THEN kid.greeting - 1 ELSE 0
           td == Tail(kid.todo)
<1>6. Written(kid) = [kid EXCEPT !.todo = td, !.heard = h, !.greeting = g0]
  BY DEF Written, Kid
<1> HIDE DEF f, h, g0, td
<1>7. td \in Seq(Frames) /\ h \in Branch /\ g0 \in 0 .. 2
  BY <1>1, <1>3, <1>4 DEF td, h, g0
<1>8. Written(kid) \in Kid /\ Written(kid).alive = kid.alive /\ Written(kid).todo = td
      /\ Written(kid).heard = h
  BY <1>6, <1>7 DEF Kid
<1>9. QED
  BY <1>1, <1>5, <1>8 DEF f, h, td

\* Every child that is fed keeps its type.
LEMMA ForwardKeepsKids ==
  ASSUME Typed, NEW fs \in Seq(Frames), ForwardToChildren(fs)
  PROVE  /\ DOMAIN children' = Alive /\ DOMAIN children' \subseteq Kids
         /\ children' \in [DOMAIN children' -> Kid]
         /\ \A c \in Alive : children'[c] = [children[c] EXCEPT !.todo = @ \o fs]
<1>1. Alive \subseteq DOMAIN children /\ \A c \in Alive : children[c] \in Kid
  BY DEF Typed, Alive
<1>2. \A c \in Alive : [children[c] EXCEPT !.todo = @ \o fs] \in Kid
  BY <1>1, FedKid
<1>3. /\ DOMAIN children' = Alive
      /\ \A c \in Alive : children'[c] = [children[c] EXCEPT !.todo = @ \o fs]
      /\ children' = [c \in Alive |-> children'[c]]
  BY DEF ForwardToChildren
<1>4. QED
  BY <1>1, <1>2, <1>3 DEF Typed

LEMMA SomeRoot ==
  /\ Root \in Branch /\ Nothing \in View
  /\ \A b \in Branch, yes \in BOOLEAN : Advert(b, yes) \in Msgs
<1>1. Root \in Branch /\ Nothing \in View
  BY DEF Root, Branch, Nothing, View
<1>2. ASSUME NEW b \in Branch, NEW yes \in BOOLEAN
      PROVE  Advert(b, yes) \in Msgs
  <2>1. [level |-> b.level, root |-> b.root, accept |-> yes] \in View
    BY <1>2 DEF Branch, View
  <2>2. QED
    BY <2>1 DEF Advert, Msgs
<1>3. QED
  BY <1>1, <1>2

LEMMA SomeFrames ==
  /\ \A b \in Branch : Position(b) \in Seq(Frames)
  /\ <<>> \in Seq(Frames)
  /\ \A n \in Nat : <<Frame("level", n)>> \in Seq(Frames)
  /\ \A r \in Roots : <<Frame("root", r)>> \in Seq(Frames)
<1>1. \A n \in Nat : Frame("level", n) \in Frames
  BY DEF Frame, Frames
<1>2. \A r \in Roots \cup {OurName} : Frame("root", r) \in Frames
  BY DEF Frame, Frames
<1>3. ASSUME NEW b \in Branch
      PROVE  Position(b) \in Seq(Frames)
  <2>1. Frame("level", b.level) \in Frames /\ Frame("root", b.root) \in Frames
    BY <1>1, <1>2 DEF Branch
  <2>2. QED
    BY <2>1 DEF Position
<1>4. QED
  BY <1>1, <1>2, <1>3

LEMMA InitTyped ==
  ASSUME DistribTreeAssumption, Init
  PROVE  Typed
<1>1. children = [c \in {} |-> {}] /\ DOMAIN children = {}
  BY DEF Init
<1>2. children \in [DOMAIN children -> Kid]
  BY <1>1
<1>3. DOMAIN children \subseteq Kids
  BY <1>1
<1>4. /\ bus \in Seq(Msgs) /\ cmds \in Seq(Cmds) /\ told \in View /\ branch \in Branch
      /\ upstream \in 0 .. MaxConns /\ news \in 0 .. MaxNews /\ drops \in 0 .. MaxDrops
  BY SomeRoot DEF Init, DistribTreeAssumption
<1>5. /\ logged_in \in BOOLEAN /\ distrib_parent \in BOOLEAN /\ attached \in BOOLEAN
      /\ speeds \in Speeds /\ stacked \in BOOLEAN /\ pierced \in BOOLEAN
      /\ next_child = 1
  BY DEF Init
<1>6. QED
  BY <1>2, <1>3, <1>4, <1>5 DEF Typed

\* The bounds and the counters they bound.
LEMMA Bounds ==
  ASSUME DistribTreeAssumption, Typed
  PROVE  /\ MaxConns \in Nat /\ MaxNews \in Nat /\ MaxDrops \in Nat
         /\ upstream \in 0 .. MaxConns /\ news \in 0 .. MaxNews /\ drops \in 0 .. MaxDrops
<1>1. MaxConns \in Nat /\ MaxNews \in Nat /\ MaxDrops \in Nat
  BY DEF DistribTreeAssumption
<1>2. upstream \in 0 .. MaxConns /\ news \in 0 .. MaxNews /\ drops \in 0 .. MaxDrops
  BY DEF Typed
<1>3. QED
  BY <1>1, <1>2

LEMMA CountUp ==
  ASSUME NEW n \in Nat, NEW k \in 0 .. n, k < n
  PROVE  k + 1 \in 0 .. n
OBVIOUS

LEMMA AppendCmd ==
  ASSUME Typed, NEW m \in Cmds
  PROVE  Append(cmds, m) \in Seq(Cmds)
BY DEF Typed

LEMMA AppendBus ==
  ASSUME Typed, NEW m \in Msgs
  PROVE  Append(bus, m) \in Seq(Msgs)
BY DEF Typed

LEMMA KidsTyped ==
  ASSUME DistribTreeAssumption, Typed, NEW c \in Kids, Child(c)
  PROVE  Typed'
<1>1. CASE AdoptChild(c)
  <2>1. [alive |-> TRUE, greeting |-> 2, heard |-> Root, todo |-> Position(branch)] \in Kid
    BY SomeRoot, SomeFrames DEF Typed, Kid
  <2> DEFINE new == [alive |-> TRUE, greeting |-> 2, heard |-> Root, todo |-> Position(branch)]
  <2>2. children' = [d \in DOMAIN children \cup {c} |-> IF d = c THEN new ELSE children[d]]
    BY <1>1 DEF AdoptChild
  <2> HIDE DEF new
  <2>3. DOMAIN children' \subseteq Kids /\ children' \in [DOMAIN children' -> Kid]
    BY <2>1, <2>2 DEF new, Typed
  <2>4. cmds' \in Seq(Cmds)
    BY <1>1, AppendCmd DEF AdoptChild, Cmds
  <2>5. next_child' \in Nat \ {0}
    <3>1. next_child' = next_child + 1
      BY <1>1 DEF AdoptChild
    <3>2. next_child \in Nat \ {0}
      BY DEF Typed
    <3>3. QED
      BY <3>1, <3>2
  <2>6. UNCHANGED <<session, bus, feeds, tree, history>>
    BY <1>1 DEF AdoptChild
  <2>7. QED
    BY <2>3, <2>4, <2>5, <2>6 DEF Typed, session, feeds, tree, history
<1>2. CASE WriteToChild(c)
  <2>1. children[c] \in Kid /\ children[c].todo # <<>> /\ c \in DOMAIN children
        /\ children' = [children EXCEPT ![c] = Written(children[c])]
    BY <1>2 DEF WriteToChild, Alive, Typed, Written
  <2>2. DOMAIN children' \subseteq Kids /\ children' \in [DOMAIN children' -> Kid]
    BY <2>1, WrittenKid DEF Typed
  <2>3. QED
    BY <1>2, <2>2 DEF WriteToChild, Typed, session, feeds, tree, history
<1>3. CASE GreetingFails(c)
  <2>1. children[c] \in Kid /\ c \in DOMAIN children
        /\ children' = [children EXCEPT ![c] = [children[c] EXCEPT !.alive = FALSE]]
    BY <1>3 DEF GreetingFails, Alive, Typed
  <2>2. [children[c] EXCEPT !.alive = FALSE] \in Kid
    BY <2>1 DEF Kid
  <2>3. DOMAIN children' \subseteq Kids /\ children' \in [DOMAIN children' -> Kid]
    BY <2>1, <2>2 DEF Typed
  <2>4. QED
    BY <1>3, <2>3 DEF GreetingFails, Typed, session, feeds, tree, history
<1>4. CASE ChildLeaves(c)
  <2>1. children' = [d \in DOMAIN children \ {c} |-> children[d]]
    BY <1>4 DEF ChildLeaves, Restrict
  <2>2. DOMAIN children' \subseteq Kids /\ children' \in [DOMAIN children' -> Kid]
    BY <2>1 DEF Typed
  <2>3. cmds' \in Seq(Cmds)
    BY <1>4, AppendCmd DEF ChildLeaves, Cmds
  <2>4. QED
    BY <1>4, <2>2, <2>3 DEF ChildLeaves, Typed, session, feeds, tree, history
<1>5. QED
  BY <1>1, <1>2, <1>3, <1>4 DEF Child

LEMMA ParentsTyped ==
  ASSUME DistribTreeAssumption, Typed, NEW c \in Conns, Parent(c)
  PROVE  Typed'
<1>0. Append(cmds, AdvertiseBranch) \in Seq(Cmds)
  BY AppendCmd DEF Cmds
<1>1. CASE DialFails(c)
  BY <1>1 DEF DialFails, Typed, session, tree, kids, history
<1>2. CASE ParentConnects(c)
  BY <1>2 DEF ParentConnects, Typed, session, kids, history
<1>3. CASE OnSearch(c)
  <2>1. DOMAIN children' \subseteq Kids /\ children' \in [DOMAIN children' -> Kid]
    BY <1>3, ForwardKeepsKids, SomeFrames DEF OnSearch
  <2>2. QED
    BY <1>3, <2>1 DEF OnSearch, Typed, session, feeds, tree, history
<1>4. CASE ParentEnds(c)
  <2>1. DOMAIN children' \subseteq Kids /\ children' \in [DOMAIN children' -> Kid]
    BY <1>4, ForwardKeepsKids, SomeFrames, SomeRoot DEF ParentEnds
  <2>2. QED
    BY <1>0, <1>4, <2>1, SomeRoot DEF ParentEnds, Typed, session, history
<1>5. ASSUME NEW level \in Levels, OnBranchLevel(c, level)
      PROVE  Typed'
  <2>1. LevelUnder(level) \in Nat
    BY DEF LevelUnder, DistribTreeAssumption
  <2>2. DOMAIN children' \subseteq Kids /\ children' \in [DOMAIN children' -> Kid]
    BY <1>5, <2>1, ForwardKeepsKids, SomeFrames DEF OnBranchLevel
  <2>3. branch' \in Branch
    BY <1>5, <2>1 DEF OnBranchLevel, Typed, Branch
  <2>4. news' \in 0 .. MaxNews
    <3>1. news < MaxNews /\ news' = news + 1
      BY <1>5 DEF OnBranchLevel, Announced
    <3>2. QED
      BY <3>1, Bounds, CountUp
  <2>5. QED
    BY <1>0, <1>5, <2>2, <2>3, <2>4 DEF OnBranchLevel, Announced, Typed, session, feeds
<1>6. ASSUME NEW root \in Roots, OnBranchRoot(c, root)
      PROVE  Typed'
  <2>1. DOMAIN children' \subseteq Kids /\ children' \in [DOMAIN children' -> Kid]
    BY <1>6, ForwardKeepsKids, SomeFrames DEF OnBranchRoot
  <2>2. branch' \in Branch
    BY <1>6 DEF OnBranchRoot, Typed, Branch
  <2>3. news' \in 0 .. MaxNews
    <3>1. news < MaxNews /\ news' = news + 1
      BY <1>6 DEF OnBranchRoot, Announced
    <3>2. QED
      BY <3>1, Bounds, CountUp
  <2>4. QED
    BY <1>0, <1>6, <2>1, <2>2, <2>3 DEF OnBranchRoot, Announced, Typed, session, feeds
<1>7. QED
  BY <1>1, <1>2, <1>3, <1>4, <1>5, <1>6 DEF Parent

LEMMA ServerTyped ==
  ASSUME DistribTreeAssumption, Typed, Server
  PROVE  Typed'
<1>1. CASE PossibleParents
  <2>1. bus' \in Seq(Msgs)
    BY <1>1, AppendBus DEF PossibleParents, Publish, Msgs
  <2>2. upstream' \in 0 .. MaxConns
    BY <1>1, Bounds, CountUp DEF PossibleParents
  <2>3. QED
    BY <1>1, <2>1, <2>2 DEF PossibleParents, Typed, tree, kids, history
<1>2. CASE ConnectToPeerD
  <2>1. bus' \in Seq(Msgs)
    BY <1>2, AppendBus DEF ConnectToPeerD, Publish, Msgs
  <2>2. upstream' \in 0 .. MaxConns
    BY <1>2, Bounds, CountUp DEF ConnectToPeerD
  <2>3. QED
    BY <1>2, <2>1, <2>2 DEF ConnectToPeerD, Typed, tree, kids
<1>3. CASE EmbeddedMessage
  <2>1. bus' \in Seq(Msgs)
    BY <1>3, AppendBus DEF EmbeddedMessage, Publish, Msgs
  <2>2. QED
    BY <1>3, <2>1 DEF EmbeddedMessage, Typed, session, feeds, tree, kids, history
<1>4. CASE NetConnClosed
  <2>1. drops' \in 0 .. MaxDrops
    BY <1>4, Bounds, CountUp DEF NetConnClosed
  <2>2. QED
    BY <1>4, <2>1 DEF NetConnClosed, Typed, feeds, tree, kids
<1>5. CASE LoginResponse
  <2>1. bus' \in Seq(Msgs)
    BY <1>5, AppendBus, SomeRoot DEF LoginResponse, Publish
  <2>2. QED
    BY <1>5, <2>1, SomeRoot DEF LoginResponse, Typed, feeds, tree, kids, history
<1>6. QED
  BY <1>1, <1>2, <1>3, <1>4, <1>5 DEF Server

LEMMA BusTyped ==
  ASSUME Typed, BusWorker
  PROVE  Typed'
<1>1. bus # <<>> /\ bus' = Tail(bus) /\ Head(bus) \in Msgs /\ Tail(bus) \in Seq(Msgs)
  BY TailFacts DEF BusWorker, BusToReactor, BusToServer, Typed
<1>2. CASE BusToReactor
  <2>1. Head(bus) \in Cmds
    BY <1>1, <1>2 DEF BusToReactor, Forwarded, Msgs, Cmds
  <2>2. cmds' \in Seq(Cmds)
    BY <1>2, <2>1, AppendCmd DEF BusToReactor
  <2>3. QED
    BY <1>1, <1>2, <2>2 DEF BusToReactor, Typed, session, feeds, tree, kids, history
<1>3. CASE BusToServer
  <2>1. Head(bus).view \in View
    BY <1>1, <1>3 DEF BusToServer, Msgs, DistribConnect, PierceDistrib, RelaySearch
  <2>2. told' \in View
    BY <1>3, <2>1 DEF BusToServer, Typed
  <2>3. QED
    BY <1>1, <1>3, <2>2 DEF BusToServer, Typed, feeds, tree, kids, history
<1>4. QED
  BY <1>2, <1>3 DEF BusWorker

LEMMA CommandsTyped ==
  ASSUME Typed, CommandLoop
  PROVE  Typed'
<1>1. cmds # <<>> /\ Tail(cmds) \in Seq(Cmds)
  BY TailFacts DEF CommandLoop, CmdDistribConnect, CmdAdvertiseBranch, CmdRelayDistribSearch,
                   NextCmd, Typed
<1>2. CASE CmdDistribConnect
  BY <1>1, <1>2 DEF CmdDistribConnect, Typed, session, tree, kids
<1>3. CASE CmdAdvertiseBranch
  <2> DEFINE yes == attached /\ Cardinality(DOMAIN children) < ComputeMaxChildren(speeds)
  <2>1. yes \in BOOLEAN
    BY DEF Typed
  <2>2. bus' = Append(bus, Advert(branch, yes))
    BY <1>3 DEF CmdAdvertiseBranch, Publish
  <2> HIDE DEF yes
  <2>3. bus' \in Seq(Msgs)
    BY <2>1, <2>2, AppendBus, SomeRoot DEF Typed
  <2>4. QED
    BY <1>1, <1>3, <2>3 DEF CmdAdvertiseBranch, Typed, session, feeds, tree, kids, history
<1>4. CASE CmdRelayDistribSearch
  <2>1. DOMAIN children' \subseteq Kids /\ children' \in [DOMAIN children' -> Kid]
    BY <1>4, ForwardKeepsKids, SomeFrames DEF CmdRelayDistribSearch
  <2>2. cmds' \in Seq(Cmds)
    BY <1>1, <1>4 DEF CmdRelayDistribSearch, Cmds
  <2>3. QED
    BY <1>4, <2>1, <2>2 DEF CmdRelayDistribSearch, Typed, session, feeds, history
<1>5. QED
  BY <1>2, <1>3, <1>4 DEF CommandLoop

LEMMA NextTyped ==
  ASSUME DistribTreeAssumption, Typed, [Next]_vars
  PROVE  Typed'
<1>1. CASE UNCHANGED vars
  BY <1>1 DEF vars, session, tree, feeds, kids, history, Typed
<1>2. ASSUME NEW s \in Speeds, SpeedsChange(s)
      PROVE  Typed'
  BY <1>2 DEF SpeedsChange, session, feeds, kids, history, Typed
<1>3. QED
  BY <1>1, <1>2, ServerTyped, BusTyped, CommandsTyped, ParentsTyped, KidsTyped DEF Next

-----------------------------------------------------------------------------
(* The feed: parents, and whether we know that we have one.                  *)

\* Unless parents overlapped there is one at most, and it is dialed or read.
OneFeed == ~stacked => /\ \A c, d \in dialing \cup parents : c = d
                       /\ dialing \cap parents = {}

FeedInv == OneFeed /\ AttachedWhileFed /\ RootWithoutParent

feedVars == <<dialing, parents, stacked, attached, branch>>

LEMMA FeedKept == FeedInv /\ UNCHANGED feedVars => FeedInv'
BY DEF FeedInv, OneFeed, AttachedWhileFed, RootWithoutParent, feedVars

LEMMA ParentKeepsFeed ==
  ASSUME Typed, FeedInv, NEW c \in Conns, Parent(c)
  PROVE  FeedInv'
<1> USE DEF FeedInv, OneFeed, AttachedWhileFed, RootWithoutParent
<1>1. CASE DialFails(c)
  BY <1>1 DEF DialFails, tree, history
<1>2. CASE ParentConnects(c)
  BY <1>2 DEF ParentConnects, history
<1>3. CASE OnSearch(c)
  BY <1>3 DEF OnSearch, feeds, tree, history
<1>4. CASE ParentEnds(c)
  BY <1>4 DEF ParentEnds, history
<1>5. CASE \E level \in Levels : OnBranchLevel(c, level)
  <2>1. c \in parents /\ UNCHANGED <<dialing, parents, stacked, attached>>
    BY <1>5 DEF OnBranchLevel, Announced, feeds
  <2>2. QED
    BY <2>1
<1>6. CASE \E root \in Roots : OnBranchRoot(c, root)
  <2>1. c \in parents /\ UNCHANGED <<dialing, parents, stacked, attached>>
    BY <1>6 DEF OnBranchRoot, Announced, feeds
  <2>2. QED
    BY <2>1
<1>7. QED
  BY <1>1, <1>2, <1>3, <1>4, <1>5, <1>6 DEF Parent

LEMMA CommandKeepsFeed ==
  ASSUME Typed, FeedInv, CommandLoop
  PROVE  FeedInv'
<1>1. CASE CmdDistribConnect
  <2> DEFINE x == CHOOSE c \in Conns \ (dialing \cup parents) : TRUE
  <2>1. /\ dialing' = dialing \cup {x} /\ stacked' = (stacked \/ dialing \cup parents # {})
        /\ UNCHANGED <<parents, attached, branch>>
    BY <1>1 DEF CmdDistribConnect, tree
  <2> HIDE DEF x
  <2>2. OneFeed'
    BY <2>1 DEF OneFeed
  <2>3. QED
    BY <2>1, <2>2 DEF FeedInv, AttachedWhileFed, RootWithoutParent
<1>2. CASE CmdAdvertiseBranch
  BY <1>2, FeedKept DEF CmdAdvertiseBranch, feeds, tree, history, feedVars
<1>3. CASE CmdRelayDistribSearch
  BY <1>3 DEF CmdRelayDistribSearch, feeds, history, FeedInv, OneFeed, AttachedWhileFed,
              RootWithoutParent
<1>4. QED
  BY <1>1, <1>2, <1>3 DEF CommandLoop

LEMMA OthersKeepFeed ==
  ASSUME Server \/ BusWorker \/ (\E s \in Speeds : SpeedsChange(s))
           \/ (\E c \in Kids : Child(c)) \/ UNCHANGED vars
  PROVE  UNCHANGED feedVars
<1>1. Server => UNCHANGED feedVars
  BY DEF Server, PossibleParents, ConnectToPeerD, EmbeddedMessage, NetConnClosed, LoginResponse,
         feeds, tree, history, feedVars
<1>2. BusWorker => UNCHANGED feedVars
  BY DEF BusWorker, BusToReactor, BusToServer, feeds, tree, history, feedVars
<1>3. (\E s \in Speeds : SpeedsChange(s)) => UNCHANGED feedVars
  BY DEF SpeedsChange, feeds, history, feedVars
<1>4. ASSUME NEW c \in Kids, Child(c)
      PROVE  UNCHANGED feedVars
  BY <1>4 DEF Child, AdoptChild, WriteToChild, GreetingFails, ChildLeaves, feeds, tree,
              history, feedVars
<1>5. QED
  BY <1>1, <1>2, <1>3, <1>4 DEF vars, feeds, tree, history, feedVars

LEMMA NextFeed ==
  ASSUME Typed, FeedInv, [Next]_vars
  PROVE  FeedInv'
BY FeedKept, ParentKeepsFeed, CommandKeepsFeed, OthersKeepFeed DEF Next

LEMMA InitFeed == Init => FeedInv
BY DEF Init, FeedInv, OneFeed, AttachedWhileFed, RootWithoutParent

-----------------------------------------------------------------------------
(* The child connections.                                                    *)

\* Once everything under way is written, the child's last word on field is v.
Ends(kid, field, v) ==
  \/ \E i \in 1 .. Len(kid.todo) :
       /\ kid.todo[i].field = field /\ kid.todo[i].value = v
       /\ \A j \in 1 .. Len(kid.todo) : kid.todo[j].field = field => j <= i
  \/ /\ \A i \in 1 .. Len(kid.todo) : kid.todo[i].field # field
     /\ kid.heard[field] = v

KidsFollow ==
  \A c \in Alive : \A field \in {"level", "root"} : Ends(children[c], field, branch[field])

LEMMA EndsHears ==
  ASSUME Typed, NEW c \in DOMAIN children, NEW field, NEW v, Ends(children[c], field, v)
  PROVE  WillHear(c, field) = v
<1> DEFINE todo == children[c].todo
           I == {i \in DOMAIN todo : todo[i].field = field}
           Last(k) == \A j \in I : j <= k
<1>1. todo \in Seq(Frames)
  BY DEF Typed, Kid
<1>2. DOMAIN todo = 1 .. Len(todo) /\ Len(todo) \in Nat
  BY <1>1
<1>3. WillHear(c, field) = IF I = {} THEN children[c].heard[field]
                           ELSE todo[CHOOSE k \in I : Last(k)].value
  BY DEF WillHear
<1> HIDE DEF todo
<1>4. CASE \E i \in 1 .. Len(todo) :
             /\ todo[i].field = field /\ todo[i].value = v
             /\ \A j \in 1 .. Len(todo) : todo[j].field = field => j <= i
  <2>1. PICK i \in 1 .. Len(todo) :
             /\ todo[i].field = field /\ todo[i].value = v
             /\ \A j \in 1 .. Len(todo) : todo[j].field = field => j <= i
    BY <1>4
  <2>2. i \in I /\ Last(i) /\ \A k \in I : Last(k) => k = i
    BY <1>2, <2>1
  <2> HIDE DEF I, Last
  <2>3. (CHOOSE k \in I : Last(k)) = i
    BY <2>2
  <2>4. QED
    BY <1>3, <2>1, <2>2, <2>3
<1>5. CASE (\A i \in 1 .. Len(todo) : todo[i].field # field) /\ children[c].heard[field] = v
  BY <1>2, <1>3, <1>5
<1>6. QED
  BY <1>4, <1>5 DEF Ends, todo

\* A frame more makes its value the last word on its field, and on no other.
LEMMA OneMore ==
  ASSUME NEW kid \in Kid, NEW f \in Frames, NEW fed, fed.heard = kid.heard,
         fed.todo = Append(kid.todo, f), NEW g, NEW v
  PROVE  /\ Ends(fed, f.field, f.value)
         /\ g # f.field /\ Ends(kid, g, v) => Ends(fed, g, v)
<1> DEFINE s == kid.todo
           t == Append(s, f)
<1>1. /\ Len(s) \in Nat /\ Len(t) = Len(s) + 1 /\ t[Len(s) + 1] = f
      /\ \A i \in 1 .. Len(s) : t[i] = s[i] /\ i \in 1 .. Len(t)
  BY AppendFacts DEF Kid
<1>2. fed.todo = t /\ kid.todo = s
  OBVIOUS
<1> HIDE DEF s, t
<1>3. Len(t) \in 1 .. Len(t) /\ t[Len(t)] = f /\ \A j \in 1 .. Len(t) : j <= Len(t)
  BY <1>1
<1>4. Ends(fed, f.field, f.value)
  BY <1>2, <1>3 DEF Ends
<1>5. \A j \in 1 .. Len(t) : j \in 1 .. Len(s) \/ t[j] = f
  BY <1>1
<1>6. ASSUME g # f.field, Ends(kid, g, v)
      PROVE  Ends(fed, g, v)
  <2>1. \A j \in 1 .. Len(t) : t[j].field = g => j \in 1 .. Len(s) /\ s[j].field = g
    BY <1>1, <1>5, <1>6
  <2>2. CASE \E i \in 1 .. Len(s) :
               /\ s[i].field = g /\ s[i].value = v
               /\ \A j \in 1 .. Len(s) : s[j].field = g => j <= i
    BY <1>1, <1>2, <2>1, <2>2 DEF Ends
  <2>3. CASE (\A i \in 1 .. Len(s) : s[i].field # g) /\ kid.heard[g] = v
    BY <1>2, <2>1, <2>3 DEF Ends
  <2>4. QED
    BY <1>2, <1>6, <2>2, <2>3 DEF Ends
<1>7. QED
  BY <1>4, <1>6

\* Writing the next frame changes no last word.
LEMMA WrittenEnds ==
  ASSUME NEW kid \in Kid, kid.todo # <<>>, NEW g \in {"level", "root"}, NEW v,
         Ends(kid, g, v)
  PROVE  Ends(Written(kid), g, v)
<1> DEFINE s == kid.todo
           t == Tail(s)
           w == Written(kid)
<1>1. /\ Len(s) \in Nat \ {0} /\ Len(t) = Len(s) - 1 /\ Head(s) = s[1]
      /\ \A i \in 1 .. Len(s) - 1 : t[i] = s[i + 1]
  BY TailFacts DEF Kid
<1>2. w.todo = t /\ w.heard[g] = IF g = Head(s).field THEN Head(s).value ELSE kid.heard[g]
  BY WrittenKid
<1>3. kid.todo = s
  OBVIOUS
<1> HIDE DEF s, t, w
<1>4. \A i \in 1 .. Len(t) : i + 1 \in 1 .. Len(s) /\ t[i] = s[i + 1]
  BY <1>1
<1>5. CASE \E i \in 1 .. Len(s) :
             /\ s[i].field = g /\ s[i].value = v
             /\ \A j \in 1 .. Len(s) : s[j].field = g => j <= i
  <2>1. PICK i \in 1 .. Len(s) : /\ s[i].field = g /\ s[i].value = v
                                 /\ \A j \in 1 .. Len(s) : s[j].field = g => j <= i
    BY <1>5
  <2>2. CASE i = 1
    <3>1. \A k \in 1 .. Len(t) : t[k].field # g
      <4> SUFFICES ASSUME NEW k \in 1 .. Len(t), t[k].field = g
                   PROVE  FALSE
        OBVIOUS
      <4>1. k + 1 \in 1 .. Len(s) /\ s[k + 1].field = g
        BY <1>4
      <4>2. QED
        BY <2>1, <2>2, <4>1
    <3>2. w.heard[g] = v
      BY <1>1, <1>2, <2>1, <2>2
    <3>3. QED
      BY <1>2, <3>1, <3>2 DEF Ends, w
  <2>3. CASE i # 1
    <3> DEFINE k == i - 1
    <3>1. k \in 1 .. Len(t) /\ k + 1 = i
      BY <1>1, <2>3
    <3>2. t[k].field = g /\ t[k].value = v
      BY <1>4, <2>1, <3>1
    <3>3. \A j \in 1 .. Len(t) : t[j].field = g => j <= k
      <4> SUFFICES ASSUME NEW j \in 1 .. Len(t), t[j].field = g
                   PROVE  j + 1 <= i
        BY <3>1
      <4>1. QED
        BY <1>4, <2>1
    <3> HIDE DEF k
    <3>4. QED
      BY <1>2, <3>1, <3>2, <3>3 DEF Ends, w
  <2>4. QED
    BY <2>2, <2>3
<1>6. CASE (\A i \in 1 .. Len(s) : s[i].field # g) /\ kid.heard[g] = v
  <2>0. 1 \in 1 .. Len(s)
    BY <1>1
  <2>1. s[1].field # g /\ \A k \in 1 .. Len(t) : t[k].field # g
    BY <1>4, <1>6, <2>0
  <2>2. w.heard[g] = v
    BY <1>1, <1>2, <1>6, <2>1
  <2>3. QED
    BY <1>2, <2>1, <2>2 DEF Ends, w
<1>7. QED
  BY <1>3, <1>5, <1>6 DEF Ends

LEMMA InitFollow == Init => KidsFollow
<1> SUFFICES ASSUME Init
             PROVE  KidsFollow
  OBVIOUS
<1>1. children = [c \in {} |-> {}]
  BY DEF Init
<1>2. DOMAIN children = {}
  BY <1>1
<1>3. QED
  BY <1>2 DEF KidsFollow, Alive

\* Nothing that a child hears changes.
LEMMA FollowKept == KidsFollow /\ UNCHANGED <<children, branch>> => KidsFollow'
BY DEF KidsFollow, Alive, Ends

\* Feeding the children frames fs is enough when it gives the last words.
LEMMA ForwardFollows ==
  ASSUME Typed, KidsFollow, NEW fs \in Seq(Frames), ForwardToChildren(fs), NEW b, branch' = b,
         \A kid \in Kid :
           (\A g \in {"level", "root"} : Ends(kid, g, branch[g]))
             => \A g \in {"level", "root"} : Ends([kid EXCEPT !.todo = @ \o fs], g, b[g])
  PROVE  KidsFollow'
<1>1. /\ DOMAIN children' = Alive
      /\ \A c \in Alive : children'[c] = [children[c] EXCEPT !.todo = @ \o fs]
  BY ForwardKeepsKids
<1>2. \A c \in Alive : children[c] \in Kid
  BY DEF Alive, Typed
<1>3. \A c \in Alive : \A g \in {"level", "root"} : Ends(children[c], g, branch[g])
  BY DEF KidsFollow
<1>4. ASSUME NEW c \in Alive, NEW g \in {"level", "root"}
      PROVE  Ends(children'[c], g, branch'[g])
  <2> DEFINE kid == children[c]
  <2>1. kid \in Kid /\ \A h \in {"level", "root"} : Ends(kid, h, branch[h])
    BY <1>2, <1>3
  <2>2. children'[c] = [kid EXCEPT !.todo = @ \o fs]
    BY <1>1
  <2> HIDE DEF kid
  <2>3. Ends([kid EXCEPT !.todo = @ \o fs], g, b[g])
    BY <2>1
  <2>4. QED
    BY <2>2, <2>3
<1>5. Alive' \subseteq Alive
  BY <1>1 DEF Alive
<1>6. QED
  BY <1>4, <1>5 DEF KidsFollow, Ends

LEMMA FollowSilence ==
  ASSUME Typed, KidsFollow, ForwardToChildren(<<>>), branch' = branch
  PROVE  KidsFollow'
<1>1. ASSUME NEW kid \in Kid
      PROVE  [kid EXCEPT !.todo = @ \o <<>>] = kid
  <2>1. kid.todo \o <<>> = kid.todo
    BY ConcatEmptySeq DEF Kid
  <2>2. QED
    BY <2>1 DEF Kid
<1>2. QED
  BY <1>1, ForwardFollows, SomeFrames

\* A fed child's words, for one frame and for a whole position.
LEMMA FedOne ==
  ASSUME NEW kid \in Kid, NEW f \in Frames
  PROVE  /\ [kid EXCEPT !.todo = @ \o <<f>>] \in Kid
         /\ Ends([kid EXCEPT !.todo = @ \o <<f>>], f.field, f.value)
         /\ \A g, v : g # f.field /\ Ends(kid, g, v)
              => Ends([kid EXCEPT !.todo = @ \o <<f>>], g, v)
<1> DEFINE fs == <<f>>
           fed == [kid EXCEPT !.todo = @ \o fs]
<1>0. fs \in Seq(Frames)
  OBVIOUS
<1> HIDE DEF fs
<1>1. fed \in Kid /\ fed.heard = kid.heard /\ fed.todo = kid.todo \o fs
  BY <1>0, FedKid
<1>2. kid.todo \o fs = Append(kid.todo, f)
  BY AppendIsConcat DEF Kid, fs
<1> HIDE DEF fed
<1>3. Ends(fed, f.field, f.value)
  BY <1>1, <1>2, OneMore
<1>4. \A g, v : g # f.field /\ Ends(kid, g, v) => Ends(fed, g, v)
  BY <1>1, <1>2, OneMore
<1>5. QED
  BY <1>1, <1>3, <1>4 DEF fed, fs

LEMMA TwoAreOneAndOne ==
  ASSUME NEW S, NEW a \in S, NEW b \in S
  PROVE  <<a>> \o <<b>> = <<a, b>>
<1> DEFINE s == <<a>> \o <<b>>
           t == <<a, b>>
<1>1. t \in Seq(S) /\ Len(t) = 2 /\ t[1] = a /\ t[2] = b
  OBVIOUS
<1>2. s \in Seq(S) /\ Len(s) = 2 /\ s[1] = a /\ s[2] = b
  OBVIOUS
<1> HIDE DEF s, t
<1>3. \A i \in 1 .. Len(s) : i = 1 \/ i = 2
  BY <1>2
<1>4. \A i \in 1 .. Len(s) : s[i] = t[i]
  BY <1>1, <1>2, <1>3
<1>5. s = t
  BY <1>1, <1>2, <1>4, SeqEqual
<1>6. QED
  BY <1>5 DEF s, t

LEMMA FedPosition ==
  ASSUME NEW kid \in Kid, NEW b \in Branch
  PROVE  \A g \in {"level", "root"} : Ends([kid EXCEPT !.todo = @ \o Position(b)], g, b[g])
<1> DEFINE l == Frame("level", b.level)
           r == Frame("root", b.root)
           one == [kid EXCEPT !.todo = @ \o <<l>>]
           both == [one EXCEPT !.todo = @ \o <<r>>]
<1>1. /\ l \in Frames /\ l.field = "level" /\ l.value = b.level
      /\ r \in Frames /\ r.field = "root" /\ r.value = b.root
  BY DEF Frame, Frames, Branch
<1>2. Position(b) = <<l, r>>
  BY DEF Position
<1> HIDE DEF l, r
<1>3. one \in Kid /\ Ends(one, "level", b.level)
  BY <1>1, FedOne
<1>4. one.todo = kid.todo \o <<l>>
  BY <1>1, FedKid
<1>5. both = [kid EXCEPT !.todo = @ \o <<l, r>>]
  <2>1. kid.todo \in Seq(Frames) /\ <<l>> \in Seq(Frames) /\ <<r>> \in Seq(Frames)
    BY <1>1 DEF Kid
  <2>2. (kid.todo \o <<l>>) \o <<r>> = kid.todo \o (<<l>> \o <<r>>)
    BY <2>1, ConcatAssociative
  <2>3. <<l>> \o <<r>> = <<l, r>>
    BY <1>1, TwoAreOneAndOne
  <2>4. one.todo \o <<r>> = kid.todo \o <<l, r>>
    BY <1>4, <2>2, <2>3
  <2>5. QED
    BY <2>4 DEF Kid
<1> HIDE DEF one
<1>6. Ends(both, "level", b.level) /\ Ends(both, "root", b.root)
  BY <1>1, <1>3, FedOne
<1> HIDE DEF both
<1>7. QED
  BY <1>2, <1>5, <1>6

LEMMA ChildFollows ==
  ASSUME Typed, KidsFollow, NEW c \in Kids, Child(c)
  PROVE  KidsFollow'
<1>0. branch' = branch
  BY DEF Child, AdoptChild, WriteToChild, GreetingFails, ChildLeaves, tree
<1>1. CASE AdoptChild(c)
  <2> DEFINE new == [alive |-> TRUE, greeting |-> 2, heard |-> Root, todo |-> Position(branch)]
  <2>1. children' = [d \in DOMAIN children \cup {c} |-> IF d = c THEN new ELSE children[d]]
    BY <1>1 DEF AdoptChild
  <2>2. \A g \in {"level", "root"} : Ends(new, g, branch[g])
    <3> DEFINE none == [alive |-> TRUE, greeting |-> 2, heard |-> Root, todo |-> <<>>]
    <3>1. none \in Kid
      BY SomeRoot, SomeFrames DEF Kid
    <3>2. new = [none EXCEPT !.todo = @ \o Position(branch)]
      <4> DEFINE p == Position(branch)
      <4>1. p \in Seq(Frames)
        BY SomeFrames DEF Typed
      <4> HIDE DEF p
      <4>2. none.todo \o p = p
        BY <4>1, ConcatEmptySeq
      <4>3. new = [alive |-> TRUE, greeting |-> 2, heard |-> Root, todo |-> p]
        BY DEF p
      <4>4. new = [none EXCEPT !.todo = p]
        <5> DEFINE yes == TRUE
                   two == 2
                   e   == <<>>
        <5>1. new = [alive |-> yes, greeting |-> two, heard |-> Root, todo |-> p]
              /\ none = [alive |-> yes, greeting |-> two, heard |-> Root, todo |-> e]
          BY <4>3
        <5> HIDE DEF new, none, yes, two, e
        <5>2. QED
          BY <5>1
      <4>5. QED
        BY <4>2, <4>4 DEF p
    <3> HIDE DEF none, new
    <3>3. QED
      BY <3>1, <3>2, FedPosition DEF Typed
  <2> HIDE DEF new
  <2>3. \A d \in Alive' : children'[d] = new \/ (d \in Alive /\ children'[d] = children[d])
    BY <2>1 DEF Alive
  <2>4. \A d \in Alive' : \A g \in {"level", "root"} : Ends(children'[d], g, branch[g])
    BY <2>2, <2>3 DEF KidsFollow
  <2>5. QED
    BY <1>0, <2>4 DEF KidsFollow, Ends
<1>2. CASE WriteToChild(c)
  <2>1. c \in Alive /\ children[c] \in Kid /\ children[c].todo # <<>>
        /\ children' = [children EXCEPT ![c] = Written(children[c])]
    BY <1>2 DEF WriteToChild, Alive, Typed, Written
  <2>2. \A g \in {"level", "root"} : Ends(Written(children[c]), g, branch[g])
    BY <2>1, WrittenEnds DEF KidsFollow
  <2>3. \A d \in Alive' : d \in Alive /\ (d # c => children'[d] = children[d])
                         /\ (d = c => children'[d] = Written(children[c]))
    BY <2>1, WrittenKid DEF Alive, Typed
  <2>4. \A d \in Alive' : \A g \in {"level", "root"} : Ends(children'[d], g, branch[g])
    BY <2>2, <2>3 DEF KidsFollow
  <2>5. QED
    BY <1>0, <2>4 DEF KidsFollow, Ends
<1>3. CASE GreetingFails(c) \/ ChildLeaves(c)
  <2>1. \A d \in Alive' : d \in Alive /\ children'[d] = children[d]
    <3>1. CASE GreetingFails(c)
      <4>1. children' = [children EXCEPT ![c] = [children[c] EXCEPT !.alive = FALSE]]
        BY <3>1 DEF GreetingFails
      <4>2. c \in DOMAIN children /\ children[c] \in Kid
        BY <3>1 DEF GreetingFails, Alive, Typed
      <4>3. ~[children[c] EXCEPT !.alive = FALSE].alive
        BY <4>2 DEF Kid
      <4>4. QED
        BY <4>1, <4>2, <4>3 DEF Alive
    <3>2. CASE ChildLeaves(c)
      <4>1. children' = [d \in DOMAIN children \ {c} |-> children[d]]
        BY <3>2 DEF ChildLeaves, Restrict
      <4>2. QED
        BY <4>1 DEF Alive
    <3>3. QED
      BY <1>3, <3>1, <3>2
  <2>2. \A d \in Alive' : \A g \in {"level", "root"} : Ends(children'[d], g, branch[g])
    BY <2>1 DEF KidsFollow
  <2>3. QED
    BY <1>0, <2>2 DEF KidsFollow, Ends
<1>4. QED
  BY <1>1, <1>2, <1>3 DEF Child

LEMMA ParentFollowed ==
  ASSUME DistribTreeAssumption, Typed, KidsFollow, NEW c \in Conns, Parent(c)
  PROVE  KidsFollow'
<1>1. CASE DialFails(c) \/ ParentConnects(c)
  BY <1>1, FollowKept DEF DialFails, ParentConnects, tree, kids
<1>2. CASE OnSearch(c)
  BY <1>2, FollowSilence DEF OnSearch, tree
<1>3. CASE ParentEnds(c)
  <2> DEFINE fs == Position(Root)
  <2>1. ForwardToChildren(fs) /\ branch' = Root
    BY <1>3 DEF ParentEnds
  <2>2. fs \in Seq(Frames)
    BY SomeFrames, SomeRoot
  <2>3. \A kid \in Kid : \A g \in {"level", "root"} :
           Ends([kid EXCEPT !.todo = @ \o fs], g, Root[g])
    BY SomeRoot, FedPosition
  <2> HIDE DEF fs
  <2>4. QED
    BY <2>1, <2>2, <2>3, ForwardFollows
<1>4. ASSUME NEW level \in Levels, OnBranchLevel(c, level)
      PROVE  KidsFollow'
  <2> DEFINE f == Frame("level", LevelUnder(level))
             b == [branch EXCEPT !.level = LevelUnder(level)]
  <2>1. ForwardToChildren(<<f>>) /\ branch' = b
    BY <1>4 DEF OnBranchLevel
  <2>2. LevelUnder(level) \in Nat
    BY DEF LevelUnder, DistribTreeAssumption
  <2>3. f \in Frames /\ f.field = "level" /\ f.value = LevelUnder(level)
    BY <2>2 DEF Frame, Frames
  <2>4. b["level"] = LevelUnder(level) /\ b["root"] = branch["root"]
    BY DEF Typed, Branch
  <2> HIDE DEF f, b
  <2>5. \A kid \in Kid :
          (\A g \in {"level", "root"} : Ends(kid, g, branch[g]))
            => \A g \in {"level", "root"} : Ends([kid EXCEPT !.todo = @ \o <<f>>], g, b[g])
    BY <2>3, <2>4, FedOne
  <2>6. <<f>> \in Seq(Frames)
    BY <2>3
  <2>7. QED
    BY <2>1, <2>5, <2>6, ForwardFollows
<1>5. ASSUME NEW root \in Roots, OnBranchRoot(c, root)
      PROVE  KidsFollow'
  <2> DEFINE f == Frame("root", root)
             b == [branch EXCEPT !.root = root]
  <2>1. ForwardToChildren(<<f>>) /\ branch' = b
    BY <1>5 DEF OnBranchRoot
  <2>2. f \in Frames /\ f.field = "root" /\ f.value = root
    BY DEF Frame, Frames
  <2>3. b["root"] = root /\ b["level"] = branch["level"]
    BY DEF Typed, Branch
  <2> HIDE DEF f, b
  <2>4. \A kid \in Kid :
          (\A g \in {"level", "root"} : Ends(kid, g, branch[g]))
            => \A g \in {"level", "root"} : Ends([kid EXCEPT !.todo = @ \o <<f>>], g, b[g])
    BY <2>2, <2>3, FedOne
  <2>5. <<f>> \in Seq(Frames)
    BY <2>2
  <2>6. QED
    BY <2>1, <2>4, <2>5, ForwardFollows
<1>6. QED
  BY <1>1, <1>2, <1>3, <1>4, <1>5 DEF Parent

LEMMA NextFollow ==
  ASSUME DistribTreeAssumption, Typed, KidsFollow, [Next]_vars
  PROVE  KidsFollow'
<1>1. CASE Server
  BY <1>1, FollowKept DEF Server, PossibleParents, ConnectToPeerD, EmbeddedMessage,
     NetConnClosed, LoginResponse, tree, kids
<1>2. CASE BusWorker
  BY <1>2, FollowKept DEF BusWorker, BusToReactor, BusToServer, tree, kids
<1>3. CASE CommandLoop
  <2>1. CASE CmdDistribConnect \/ CmdAdvertiseBranch
    BY <2>1, FollowKept DEF CmdDistribConnect, CmdAdvertiseBranch, tree, kids
  <2>2. CASE CmdRelayDistribSearch
    BY <2>2, FollowSilence DEF CmdRelayDistribSearch
  <2>3. QED
    BY <1>3, <2>1, <2>2 DEF CommandLoop
<1>4. CASE \E s \in Speeds : SpeedsChange(s)
  BY <1>4, FollowKept DEF SpeedsChange, kids
<1>5. CASE UNCHANGED vars
  BY <1>5, FollowKept DEF vars, tree, kids
<1>6. QED
  BY <1>1, <1>2, <1>3, <1>4, <1>5, ParentFollowed, ChildFollows DEF Next

-----------------------------------------------------------------------------
(* What the server is told.                                                  *)

\* What v says is so: our position, if the link never dropped, and that we accept
\* children only while something feeds us.
IsTrue(v) == /\ drops = 0 => v.level = branch.level /\ v.root = branch.root
             /\ v.accept => attached

Final(s, i) == /\ i \in 1 .. Len(s) /\ s[i].kind = "Advert"
               /\ \A j \in 1 .. Len(s) : s[j].kind = "Advert" => j <= i

NoAdvert(s) == \A i \in 1 .. Len(s) : s[i].kind # "Advert"

\* Unless a new advertisement is ordered, the last one on its way is true, and if
\* none is, what the server believes.
LastIsTrue ==
  AdvertiseBranch \notin Range(cmds) =>
    /\ \A i \in 1 .. Len(bus) : Final(bus, i) => IsTrue(bus[i].view)
    /\ NoAdvert(bus) /\ logged_in => IsTrue(told)

ToldInv == (drops = 0 => logged_in) /\ LastIsTrue

\* An action that orders an advertisement keeps the invariant.
LEMMA OrderedIsTold ==
  ASSUME Typed, ToldInv, cmds' = Append(cmds, AdvertiseBranch),
         drops' = drops, logged_in' = logged_in
  PROVE  ToldInv'
<1>1. AdvertiseBranch \in Range(cmds')
  BY AppendFacts DEF Typed, Cmds
<1>2. QED
  BY <1>1 DEF ToldInv, LastIsTrue

\* The same for one that leaves alone what the advertisements are about.
LEMMA StillTold ==
  ASSUME Typed, ToldInv, AdvertiseBranch \in Range(cmds) => AdvertiseBranch \in Range(cmds'),
         drops' = 0 => drops = 0 /\ logged_in', logged_in' => logged_in,
         told' = told, branch' = branch, attached => attached',
         \/ bus' = bus
         \/ \E m \in Msgs : m.kind # "Advert" /\ bus' = Append(bus, m)
         \/ bus # <<>> /\ Head(bus).kind # "Advert" /\ bus' = Tail(bus)
  PROVE  ToldInv'
<1>0. \A v : IsTrue(v) => (drops' = 0 => v.level = branch'.level /\ v.root = branch'.root)
                         /\ (v.accept => attached')
  BY DEF IsTrue
<1>1. /\ \A i \in 1 .. Len(bus') : Final(bus', i) =>
           \E k \in 1 .. Len(bus) : Final(bus, k) /\ bus[k] = bus'[i]
      /\ NoAdvert(bus') => NoAdvert(bus)
  <2>1. CASE bus' = bus
    BY <2>1
  <2>2. CASE \E m \in Msgs : m.kind # "Advert" /\ bus' = Append(bus, m)
    <3> DEFINE n == Len(bus)
    <3>1. PICK m \in Msgs : m.kind # "Advert" /\ bus' = Append(bus, m)
      BY <2>2
    <3>2. /\ n \in Nat /\ Len(bus') = n + 1 /\ bus'[n + 1] = m
          /\ \A i \in 1 .. n : bus'[i] = bus[i]
      BY <3>1, AppendFacts DEF Typed
    <3>3. \A i \in 1 .. Len(bus') : i \in 1 .. n \/ bus'[i] = m
      BY <3>2
    <3>4. \A i \in 1 .. n : i \in 1 .. Len(bus')
      BY <3>2
    <3> HIDE DEF n
    <3>5. NoAdvert(bus') => NoAdvert(bus)
      BY <3>2, <3>4 DEF NoAdvert, n
    <3>6. ASSUME NEW i \in 1 .. Len(bus'), Final(bus', i)
          PROVE  Final(bus, i)
      BY <3>1, <3>2, <3>3, <3>4, <3>6 DEF Final, n
    <3>7. QED
      BY <3>2, <3>5, <3>6 DEF Final, n
  <2>3. CASE bus # <<>> /\ Head(bus).kind # "Advert" /\ bus' = Tail(bus)
    <3>1. /\ Len(bus) \in Nat \ {0} /\ Len(bus') = Len(bus) - 1 /\ bus[1] = Head(bus)
          /\ \A i \in 1 .. Len(bus) - 1 : bus'[i] = bus[i + 1]
      BY <2>3, TailFacts DEF Typed
    <3>2. \A i \in 1 .. Len(bus') : i + 1 \in 1 .. Len(bus) /\ bus'[i] = bus[i + 1]
      BY <3>1
    <3>3. \A k \in 1 .. Len(bus) : k = 1 \/ (k - 1 \in 1 .. Len(bus') /\ bus'[k - 1] = bus[k])
      BY <3>1
    <3>4. NoAdvert(bus') => NoAdvert(bus)
      BY <2>3, <3>1, <3>3 DEF NoAdvert
    <3>5. ASSUME NEW i \in 1 .. Len(bus'), Final(bus', i)
          PROVE  Final(bus, i + 1) /\ i + 1 \in 1 .. Len(bus) /\ bus[i + 1] = bus'[i]
      <4>1. bus[i + 1].kind = "Advert" /\ i + 1 \in 1 .. Len(bus) /\ bus[i + 1] = bus'[i]
        BY <3>2, <3>5 DEF Final
      <4>2. ASSUME NEW k \in 1 .. Len(bus), bus[k].kind = "Advert"
            PROVE  k <= i + 1
        <5>1. k # 1
          BY <2>3, <3>1, <4>2
        <5>2. k - 1 \in 1 .. Len(bus') /\ bus'[k - 1].kind = "Advert"
          BY <3>3, <4>2, <5>1
        <5>3. k - 1 <= i
          BY <3>5, <5>2 DEF Final
        <5>4. QED
          BY <5>3
      <4>3. QED
        BY <4>1, <4>2 DEF Final
    <3>6. QED
      BY <3>4, <3>5
  <2>4. QED
    BY <2>1, <2>2, <2>3
<1>2. ASSUME AdvertiseBranch \notin Range(cmds')
      PROVE  /\ \A i \in 1 .. Len(bus') : Final(bus', i) =>
                  \E k \in 1 .. Len(bus) : bus[k] = bus'[i] /\ IsTrue(bus[k].view)
             /\ NoAdvert(bus') /\ logged_in' => IsTrue(told)
  BY <1>1, <1>2 DEF ToldInv, LastIsTrue
<1>3. LastIsTrue'
  <2> SUFFICES ASSUME AdvertiseBranch \notin Range(cmds')
               PROVE  /\ \A i \in 1 .. Len(bus') : Final(bus', i) => IsTrue(bus[i].view)'
                      /\ NoAdvert(bus') /\ logged_in' => IsTrue(told)'
    BY DEF LastIsTrue, Final, NoAdvert
  <2>1. QED
    BY <1>0, <1>2 DEF IsTrue
<1>4. QED
  BY <1>3 DEF ToldInv

\* A new advertisement that is true settles it.
LEMMA NewsIsTold ==
  ASSUME Typed, NEW v \in View, bus' = Append(bus, [kind |-> "Advert", view |-> v]),
         drops' = 0 => logged_in',
         drops' = 0 => v.level = branch'.level /\ v.root = branch'.root,
         v.accept => attached'
  PROVE  ToldInv'
<1> DEFINE n == Len(bus)
           m == [kind |-> "Advert", view |-> v]
<1>1. m \in Msgs /\ m.kind = "Advert" /\ m.view = v
  BY DEF Msgs
<1> HIDE DEF m
<1>2. n \in Nat /\ Len(bus') = n + 1 /\ bus'[n + 1] = m
  BY <1>1, AppendFacts DEF Typed, m
<1>3. n + 1 \in 1 .. Len(bus')
  BY <1>2
<1> HIDE DEF n
<1>4. \A i \in 1 .. Len(bus') : Final(bus', i) => bus'[i] = m
  <2> SUFFICES ASSUME NEW i \in 1 .. Len(bus'), Final(bus', i)
               PROVE  bus'[i] = m
    OBVIOUS
  <2>1. n + 1 <= i
    BY <1>1, <1>2, <1>3 DEF Final
  <2>2. i = n + 1
    BY <1>2, <2>1
  <2>3. QED
    BY <1>2, <2>2
<1>5. ~NoAdvert(bus')
  BY <1>1, <1>2, <1>3 DEF NoAdvert
<1>6. LastIsTrue'
  BY <1>1, <1>4, <1>5 DEF LastIsTrue, IsTrue, Final, NoAdvert
<1>7. QED
  BY <1>6 DEF ToldInv

LEMMA TailKeepsOrder ==
  ASSUME Typed, cmds # <<>>, Head(cmds).kind # "AdvertiseBranch",
         AdvertiseBranch \in Range(cmds)
  PROVE  AdvertiseBranch \in Range(Tail(cmds))
BY TailFacts DEF Typed, AdvertiseBranch

LEMMA OrderKept ==
  ASSUME Typed, NEW m \in Cmds, AdvertiseBranch \in Range(cmds)
  PROVE  AdvertiseBranch \in Range(Append(cmds, m))
BY AppendFacts DEF Typed

LEMMA ServerKeepsTold ==
  ASSUME DistribTreeAssumption, Typed, ToldInv, Server
  PROVE  ToldInv'
<1>1. DistribConnect \in Msgs /\ PierceDistrib \in Msgs /\ RelaySearch \in Msgs
      /\ DistribConnect.kind # "Advert" /\ PierceDistrib.kind # "Advert"
      /\ RelaySearch.kind # "Advert"
  BY DEF Msgs, DistribConnect, PierceDistrib, RelaySearch
<1>2. CASE PossibleParents
  <2>1. bus' = Append(bus, DistribConnect)
        /\ UNCHANGED <<logged_in, told, cmds, attached, branch, drops>>
    BY <1>2 DEF PossibleParents, Publish, tree, history
  <2>2. QED
    BY <1>1, <2>1, StillTold DEF ToldInv
<1>3. CASE ConnectToPeerD
  <2>1. bus' = Append(bus, PierceDistrib)
        /\ UNCHANGED <<logged_in, told, cmds, attached, branch, drops>>
    BY <1>3 DEF ConnectToPeerD, Publish, tree
  <2>2. QED
    BY <1>1, <2>1, StillTold DEF ToldInv
<1>4. CASE EmbeddedMessage
  <2>1. bus' = Append(bus, RelaySearch)
        /\ UNCHANGED <<logged_in, told, cmds, attached, branch, drops>>
    BY <1>4 DEF EmbeddedMessage, Publish, session, tree, history
  <2>2. QED
    BY <1>1, <2>1, StillTold DEF ToldInv
<1>5. CASE NetConnClosed
  <2>1. drops' # 0 /\ ~logged_in' /\ UNCHANGED <<bus, told, cmds, attached, branch>>
    BY <1>5 DEF NetConnClosed, tree, Typed
  <2>2. QED
    BY <2>1, StillTold
<1>6. CASE LoginResponse
  <2> DEFINE v == [level |-> Root.level, root |-> Root.root, accept |-> FALSE]
  <2>1. v \in View /\ ~v.accept
    BY SomeRoot DEF View, Branch
  <2>2. bus' = Append(bus, [kind |-> "Advert", view |-> v]) /\ logged_in'
    BY <1>6 DEF LoginResponse, Publish, Advert
  <2>3. drops' # 0
    BY <1>6 DEF LoginResponse, history, ToldInv
  <2> HIDE DEF v
  <2>4. QED
    BY <2>1, <2>2, <2>3, NewsIsTold
<1>7. QED
  BY <1>2, <1>3, <1>4, <1>5, <1>6, Zenon DEF Server

LEMMA BusKeepsTold ==
  ASSUME Typed, ToldInv, BusWorker
  PROVE  ToldInv'
<1>1. CASE BusToReactor
  <2>1. /\ bus # <<>> /\ Head(bus) \in Msgs /\ Head(bus).kind \in Forwarded /\ bus' = Tail(bus)
        /\ cmds' = Append(cmds, Head(bus))
        /\ UNCHANGED <<logged_in, told, attached, branch, drops>>
    BY <1>1, TailFacts DEF BusToReactor, session, tree, history, Typed
  <2>2. Head(bus) \in Cmds /\ Head(bus).kind # "Advert"
    BY <2>1 DEF Forwarded, Msgs, Cmds
  <2>3. QED
    BY <2>1, <2>2, OrderKept, StillTold DEF ToldInv
<1>2. CASE BusToServer
  <2>1. /\ bus # <<>> /\ bus' = Tail(bus) /\ Head(bus).kind = "Advert"
        /\ told' = (IF logged_in THEN Head(bus).view ELSE told)
        /\ UNCHANGED <<logged_in, cmds, attached, branch, drops>>
    BY <1>2 DEF BusToServer, tree, history
  <2>2. /\ Len(bus) \in Nat \ {0} /\ Len(bus') = Len(bus) - 1 /\ bus[1] = Head(bus)
        /\ \A i \in 1 .. Len(bus) - 1 : bus'[i] = bus[i + 1]
    BY <2>1, TailFacts DEF Typed
  <2>3. \A i \in 1 .. Len(bus') : i + 1 \in 1 .. Len(bus) /\ bus'[i] = bus[i + 1]
    BY <2>2
  <2>4. \A k \in 1 .. Len(bus) : k = 1 \/ (k - 1 \in 1 .. Len(bus') /\ bus'[k - 1] = bus[k])
    BY <2>2
  <2> SUFFICES ASSUME AdvertiseBranch \notin Range(cmds)
               PROVE  /\ \A i \in 1 .. Len(bus') : Final(bus', i) => IsTrue(bus'[i].view)
                      /\ NoAdvert(bus') /\ logged_in => IsTrue(told')
    BY <2>1 DEF ToldInv, LastIsTrue, Final, NoAdvert, IsTrue
  <2>5. \A i \in 1 .. Len(bus) : Final(bus, i) => IsTrue(bus[i].view)
    BY DEF ToldInv, LastIsTrue
  <2>6. ASSUME NEW i \in 1 .. Len(bus'), Final(bus', i)
        PROVE  IsTrue(bus'[i].view)
    <3>1. bus[i + 1].kind = "Advert" /\ i + 1 \in 1 .. Len(bus) /\ bus[i + 1] = bus'[i]
      BY <2>3, <2>6 DEF Final
    <3>2. ASSUME NEW k \in 1 .. Len(bus), bus[k].kind = "Advert"
          PROVE  k <= i + 1
      <4>1. CASE k = 1
        BY <4>1
      <4>2. CASE k # 1
        <5>1. k - 1 \in 1 .. Len(bus') /\ bus'[k - 1].kind = "Advert"
          BY <2>4, <3>2, <4>2
        <5>2. k - 1 <= i
          BY <2>6, <5>1 DEF Final
        <5>3. QED
          BY <5>2
      <4>3. QED
        BY <4>1, <4>2
    <3>3. Final(bus, i + 1)
      BY <3>1, <3>2 DEF Final
    <3>4. QED
      BY <2>5, <3>1, <3>3
  <2>7. ASSUME NoAdvert(bus'), logged_in
        PROVE  IsTrue(told')
    <3>1. 1 \in 1 .. Len(bus) /\ bus[1].kind = "Advert"
      BY <2>1, <2>2
    <3>2. ASSUME NEW k \in 1 .. Len(bus), bus[k].kind = "Advert"
          PROVE  k <= 1
      BY <2>4, <2>7, <3>2 DEF NoAdvert
    <3>3. Final(bus, 1)
      BY <3>1, <3>2 DEF Final
    <3>4. QED
      BY <2>1, <2>2, <2>5, <2>7, <3>1, <3>3
  <2>8. QED
    BY <2>6, <2>7
<1>3. QED
  BY <1>1, <1>2 DEF BusWorker

LEMMA CommandsKeepTold ==
  ASSUME Typed, ToldInv, CommandLoop
  PROVE  ToldInv'
<1>1. CASE CmdDistribConnect
  <2>1. /\ cmds # <<>> /\ Head(cmds).kind # "AdvertiseBranch" /\ cmds' = Tail(cmds)
        /\ UNCHANGED <<bus, logged_in, told, attached, branch, drops>>
    BY <1>1 DEF CmdDistribConnect, NextCmd, session, tree
  <2>2. QED
    BY <2>1, TailKeepsOrder, StillTold DEF ToldInv
<1>2. CASE CmdAdvertiseBranch
  <2> DEFINE yes == attached /\ Cardinality(DOMAIN children) < ComputeMaxChildren(speeds)
             v == [level |-> branch.level, root |-> branch.root, accept |-> yes]
  <2>1. v \in View /\ v.level = branch.level /\ v.root = branch.root /\ v.accept = yes
    <3>1. yes \in BOOLEAN
      BY DEF Typed
    <3> HIDE DEF yes
    <3>2. QED
      BY <3>1 DEF View, Typed, Branch
  <2>2. bus' = Append(bus, [kind |-> "Advert", view |-> v])
        /\ UNCHANGED <<logged_in, attached, branch, drops>>
    BY <1>2 DEF CmdAdvertiseBranch, Publish, Advert, session, tree, history
  <2>3. yes => attached
    OBVIOUS
  <2> HIDE DEF yes, v
  <2>4. QED
    BY <2>1, <2>2, <2>3, NewsIsTold DEF ToldInv
<1>3. CASE CmdRelayDistribSearch
  <2>1. /\ cmds # <<>> /\ Head(cmds).kind # "AdvertiseBranch"
        /\ cmds' = (IF attached THEN Tail(cmds) ELSE Append(Tail(cmds), AdvertiseBranch))
        /\ attached' /\ UNCHANGED <<bus, logged_in, told, branch, drops>>
    BY <1>3 DEF CmdRelayDistribSearch, NextCmd, session, history
  <2>2. Tail(cmds) \in Seq(Cmds) /\ AdvertiseBranch \in Cmds
    <3>1. AdvertiseBranch \in Cmds
      BY DEF Cmds
    <3>2. QED
      BY <2>1, <3>1, TailFacts DEF Typed
  <2>3. Range(Append(Tail(cmds), AdvertiseBranch)) = Range(Tail(cmds)) \cup {AdvertiseBranch}
    <3> DEFINE rest == Tail(cmds)
    <3>1. rest \in Seq(Cmds)
      BY <2>2
    <3> HIDE DEF rest
    <3>2. Range(Append(rest, AdvertiseBranch)) = Range(rest) \cup {AdvertiseBranch}
      BY <2>2, <3>1, AppendFacts
    <3>3. QED
      BY <3>2 DEF rest
  <2>4. AdvertiseBranch \in Range(cmds) => AdvertiseBranch \in Range(cmds')
    BY <2>1, <2>3, TailKeepsOrder
  <2>5. QED
    BY <2>1, <2>4, StillTold DEF ToldInv
<1>4. QED
  BY <1>1, <1>2, <1>3 DEF CommandLoop

LEMMA ParentKeepsTold ==
  ASSUME Typed, ToldInv, NEW c \in Conns, Parent(c)
  PROVE  ToldInv'
<1>1. CASE DialFails(c)
  <2>1. UNCHANGED <<bus, cmds, logged_in, told, attached, branch, drops>>
    BY <1>1 DEF DialFails, session, tree, history
  <2>2. QED
    BY <2>1, StillTold DEF ToldInv
<1>2. CASE ParentConnects(c)
  <2>1. attached' /\ UNCHANGED <<bus, cmds, logged_in, told, branch, drops>>
    BY <1>2 DEF ParentConnects, session, history
  <2>2. QED
    BY <2>1, StillTold DEF ToldInv
<1>3. CASE OnSearch(c)
  <2>1. UNCHANGED <<bus, cmds, logged_in, told, attached, branch, drops>>
    BY <1>3 DEF OnSearch, session, tree, history
  <2>2. QED
    BY <2>1, StillTold DEF ToldInv
<1>4. CASE ParentEnds(c)
  <2>1. cmds' = Append(cmds, AdvertiseBranch) /\ UNCHANGED <<logged_in, drops>>
    BY <1>4 DEF ParentEnds, session, history
  <2>2. QED
    BY <2>1, OrderedIsTold
<1>5. CASE \E level \in Levels : OnBranchLevel(c, level)
  <2>1. cmds' = Append(cmds, AdvertiseBranch) /\ UNCHANGED <<logged_in, drops>>
    BY <1>5 DEF OnBranchLevel, Announced, session
  <2>2. QED
    BY <2>1, OrderedIsTold
<1>6. CASE \E root \in Roots : OnBranchRoot(c, root)
  <2>1. cmds' = Append(cmds, AdvertiseBranch) /\ UNCHANGED <<logged_in, drops>>
    BY <1>6 DEF OnBranchRoot, Announced, session
  <2>2. QED
    BY <2>1, OrderedIsTold
<1>7. QED
  BY <1>1, <1>2, <1>3, <1>4, <1>5, <1>6 DEF Parent

LEMMA NextTold ==
  ASSUME DistribTreeAssumption, Typed, ToldInv, [Next]_vars
  PROVE  ToldInv'
<1>1. ASSUME NEW c \in Kids, Child(c)
      PROVE  ToldInv'
  <2>1. CASE AdoptChild(c) \/ ChildLeaves(c)
    <3>1. cmds' = Append(cmds, AdvertiseBranch) /\ UNCHANGED <<logged_in, drops>>
      BY <2>1 DEF AdoptChild, ChildLeaves, session, history
    <3>2. QED
      BY <3>1, OrderedIsTold
  <2>2. CASE WriteToChild(c) \/ GreetingFails(c)
    <3>1. UNCHANGED <<bus, cmds, logged_in, told, attached, branch, drops>>
      BY <2>2 DEF WriteToChild, GreetingFails, session, tree, history
    <3>2. QED
      BY <3>1, StillTold DEF ToldInv
  <2>3. QED
    BY <1>1, <2>1, <2>2 DEF Child
<1>2. CASE \E s \in Speeds : SpeedsChange(s)
  <2>1. UNCHANGED <<bus, cmds, logged_in, told, attached, branch, drops>>
    BY <1>2 DEF SpeedsChange, session, history
  <2>2. QED
    BY <2>1, StillTold DEF ToldInv
<1>3. CASE UNCHANGED vars
  <2>1. UNCHANGED <<bus, cmds, logged_in, told, attached, branch, drops>>
    BY <1>3 DEF vars, session, tree, history
  <2>2. QED
    BY <2>1, StillTold DEF ToldInv
<1>4. QED
  BY <1>1, <1>2, <1>3, ServerKeepsTold, BusKeepsTold, CommandsKeepTold, ParentKeepsTold DEF Next

LEMMA InitTold == Init => ToldInv
<1> SUFFICES ASSUME Init
             PROVE  ToldInv
  OBVIOUS
<1>1. /\ bus = <<>> /\ logged_in = TRUE /\ told = Nothing /\ branch = Root
  BY DEF Init
<1>2. Len(bus) = 0
  BY <1>1
<1>3. IsTrue(told)
  BY <1>1 DEF IsTrue, Nothing, Root
<1>4. QED
  BY <1>1, <1>2, <1>3 DEF ToldInv, LastIsTrue

-----------------------------------------------------------------------------
(* How many parents were asked for.                                          *)

\* x is on the queue s once at most.
Once(s, x) == \A i, j \in 1 .. Len(s) : s[i] = x /\ s[j] = x => i = j

LEMMA OnceAppend ==
  ASSUME NEW S, NEW s \in Seq(S), NEW x, NEW y \in S, Once(s, x), y = x => x \notin Range(s)
  PROVE  Once(Append(s, y), x)
<1> DEFINE t == Append(s, y)
<1>1. /\ Len(s) \in Nat /\ Len(t) = Len(s) + 1 /\ t[Len(s) + 1] = y
      /\ \A i \in 1 .. Len(s) : t[i] = s[i]
  BY AppendFacts
<1>2. \A i \in 1 .. Len(s) : s[i] \in Range(s)
  BY DEF Range
<1> HIDE DEF t
<1>3. \A i \in 1 .. Len(t) : i = Len(s) + 1 \/ i \in 1 .. Len(s)
  BY <1>1
<1>4. Once(t, x)
  <2> SUFFICES ASSUME NEW i \in 1 .. Len(t), NEW j \in 1 .. Len(t), t[i] = x, t[j] = x
               PROVE  i = j
    BY DEF Once
  <2>1. CASE i \in 1 .. Len(s) /\ j \in 1 .. Len(s)
    BY <1>1, <2>1 DEF Once
  <2>2. CASE i = Len(s) + 1 \/ j = Len(s) + 1
    BY <1>1, <1>2, <1>3, <2>2
  <2>3. QED
    BY <1>3, <2>1, <2>2
<1>5. QED
  BY <1>4 DEF t

LEMMA OnceTail ==
  ASSUME NEW S, NEW s \in Seq(S), s # <<>>, NEW x, Once(s, x)
  PROVE  Once(Tail(s), x) /\ (Head(s) = x => x \notin Range(Tail(s)))
<1> DEFINE t == Tail(s)
<1>1. /\ Len(s) \in Nat \ {0} /\ Len(t) = Len(s) - 1 /\ Head(s) = s[1] /\ t \in Seq(S)
      /\ \A i \in 1 .. Len(s) - 1 : t[i] = s[i + 1]
  BY TailFacts
<1>2. DOMAIN t = 1 .. Len(t)
  BY <1>1
<1> HIDE DEF t
<1>3. \A i \in 1 .. Len(t) :
         i \in Nat /\ i + 1 \in 1 .. Len(s) /\ i + 1 # 1 /\ t[i] = s[i + 1]
  BY <1>1
<1>4. Once(t, x)
  BY <1>3 DEF Once
<1>5. ASSUME Head(s) = x, x \in Range(t)
      PROVE  FALSE
  <2>1. PICK i \in 1 .. Len(t) : t[i] = x
    BY <1>2, <1>5 DEF Range
  <2>2. 1 \in 1 .. Len(s) /\ s[1] = x
    BY <1>1, <1>5
  <2>3. QED
    BY <1>3, <2>1, <2>2 DEF Once
<1>6. QED
  BY <1>4, <1>5 DEF t

\* Without a lost link or an indirect connection one parent was asked for at most,
\* and is asked for, dialed or read.
AskedOnce ==
  drops = 0 /\ ~pierced =>
    /\ ~stacked
    /\ PierceDistrib \notin Range(bus) \cup Range(cmds)
    /\ Once(bus, DistribConnect) /\ Once(cmds, DistribConnect)
    /\ ~(DistribConnect \in Range(bus) /\ DistribConnect \in Range(cmds))
    /\ DistribConnect \in Range(bus) \cup Range(cmds) => dialing \cup parents = {}
    /\ ~distrib_parent => DistribConnect \notin Range(bus) \cup Range(cmds)
                          /\ dialing \cup parents = {}

askedVars == <<distrib_parent, bus, cmds, dialing, parents, stacked, pierced, drops>>

LEMMA AskedKept == AskedOnce /\ UNCHANGED askedVars => AskedOnce'
BY DEF AskedOnce, Once, askedVars

\* A message or command of another kind changes nothing.
LEMMA AskedStill ==
  ASSUME Typed, AskedOnce, NEW m, m \notin {DistribConnect, PierceDistrib},
         UNCHANGED <<distrib_parent, stacked, pierced, drops>>,
         dialing' \cup parents' \subseteq dialing \cup parents,
         \/ bus' = bus
         \/ m \in Msgs /\ bus' = Append(bus, m)
         \/ bus # <<>> /\ Head(bus) = m /\ bus' = Tail(bus),
         \/ cmds' = cmds
         \/ m \in Cmds /\ cmds' = Append(cmds, m)
         \/ cmds # <<>> /\ cmds' = Tail(cmds)
  PROVE  AskedOnce'
<1>1. /\ Range(bus') \subseteq Range(bus) \cup {m}
      /\ Once(bus, DistribConnect) => Once(bus', DistribConnect)
  <2>1. CASE bus' = bus
    BY <2>1
  <2>2. CASE m \in Msgs /\ bus' = Append(bus, m)
    BY <2>2, AppendFacts, OnceAppend DEF Typed
  <2>3. CASE bus # <<>> /\ Head(bus) = m /\ bus' = Tail(bus)
    BY <2>3, TailFacts, OnceTail DEF Typed
  <2>4. QED
    BY <2>1, <2>2, <2>3
<1>2. /\ Range(cmds') \subseteq Range(cmds) \cup {m}
      /\ Once(cmds, DistribConnect) => Once(cmds', DistribConnect)
  <2>1. CASE cmds' = cmds
    BY <2>1
  <2>2. CASE m \in Cmds /\ cmds' = Append(cmds, m)
    BY <2>2, AppendFacts, OnceAppend DEF Typed
  <2>3. CASE cmds # <<>> /\ cmds' = Tail(cmds)
    BY <2>3, TailFacts, OnceTail DEF Typed
  <2>4. QED
    BY <2>1, <2>2, <2>3
<1>3. /\ drops' = 0 /\ ~pierced' => drops = 0 /\ ~pierced
      /\ dialing \cup parents = {} => dialing' \cup parents' = {}
  OBVIOUS
<1>4. Once(bus', DistribConnect) = Once(bus, DistribConnect)'
      /\ Once(cmds', DistribConnect) = Once(cmds, DistribConnect)'
  BY DEF Once, DistribConnect
<1>5. QED
  BY <1>1, <1>2, <1>3, <1>4 DEF AskedOnce

LEMMA KindsDiffer ==
  /\ DistribConnect # PierceDistrib /\ DistribConnect # RelaySearch
  /\ DistribConnect # AdvertiseBranch /\ PierceDistrib # RelaySearch
  /\ PierceDistrib # AdvertiseBranch
  /\ \A b, yes : Advert(b, yes) \notin {DistribConnect, PierceDistrib}
  /\ \A m : m.kind = "Advert" => m \notin {DistribConnect, PierceDistrib}
BY DEF DistribConnect, PierceDistrib, RelaySearch, AdvertiseBranch, Advert

LEMMA ServerAsksOnce ==
  ASSUME DistribTreeAssumption, Typed, AskedOnce, Server
  PROVE  AskedOnce'
<1>1. CASE PossibleParents
  <2>1. /\ ~distrib_parent /\ distrib_parent' /\ bus' = Append(bus, DistribConnect)
        /\ UNCHANGED <<cmds, dialing, parents, stacked, pierced, drops>>
    BY <1>1 DEF PossibleParents, Publish, history
  <2>2. DistribConnect \in Msgs
    BY DEF Msgs
  <2>3. Range(bus') = Range(bus) \cup {DistribConnect}
    BY <2>1, <2>2, AppendFacts DEF Typed
  <2>4. Once(bus, DistribConnect) /\ DistribConnect \notin Range(bus)
          => Once(bus', DistribConnect)
    BY <2>1, <2>2, OnceAppend DEF Typed
  <2>5. Once(bus', DistribConnect) = Once(bus, DistribConnect)'
        /\ Once(cmds, DistribConnect)' = Once(cmds, DistribConnect)
    BY <2>1 DEF Once, DistribConnect
  <2>6. QED
    BY <2>1, <2>3, <2>4, <2>5, KindsDiffer DEF AskedOnce
<1>2. CASE ConnectToPeerD
  BY <1>2 DEF ConnectToPeerD, AskedOnce
<1>3. CASE EmbeddedMessage
  <2>1. RelaySearch \in Msgs /\ bus' = Append(bus, RelaySearch)
        /\ UNCHANGED <<distrib_parent, cmds, dialing, parents, stacked, pierced, drops>>
    BY <1>3 DEF EmbeddedMessage, Publish, session, feeds, history, Msgs
  <2>2. QED
    BY <2>1, AskedStill, KindsDiffer
<1>4. CASE NetConnClosed
  <2>1. drops' # 0
    BY <1>4 DEF NetConnClosed, Typed
  <2>2. QED
    BY <2>1 DEF AskedOnce
<1>5. CASE LoginResponse
  <2>1. Advert(Root, FALSE) \in Msgs /\ bus' = Append(bus, Advert(Root, FALSE))
        /\ UNCHANGED <<distrib_parent, cmds, dialing, parents, stacked, pierced, drops>>
    BY <1>5, SomeRoot DEF LoginResponse, Publish, feeds, history
  <2>2. QED
    BY <2>1, AskedStill, KindsDiffer
<1>6. QED
  BY <1>1, <1>2, <1>3, <1>4, <1>5, Zenon DEF Server

LEMMA BusAsksOnce ==
  ASSUME Typed, AskedOnce, BusWorker
  PROVE  AskedOnce'
<1>1. CASE BusToReactor
  <2> DEFINE m == Head(bus)
  <2>1. /\ bus # <<>> /\ bus' = Tail(bus) /\ cmds' = Append(cmds, m) /\ m \in Msgs
        /\ m.kind \in Forwarded
        /\ UNCHANGED <<distrib_parent, dialing, parents, stacked, pierced, drops>>
    BY <1>1, TailFacts DEF BusToReactor, session, feeds, history, Typed
  <2>2. m \in Cmds
    BY <2>1 DEF Forwarded, Msgs, Cmds
  <2>3. Range(bus) = {m} \cup Range(bus') /\ Range(cmds') = Range(cmds) \cup {m}
    BY <2>1, <2>2, AppendFacts, TailFacts DEF Typed
  <2>4. Once(bus, DistribConnect) =>
          Once(bus', DistribConnect) /\ (m = DistribConnect => DistribConnect \notin Range(bus'))
    BY <2>1, OnceTail DEF Typed
  <2>5. Once(cmds, DistribConnect) /\ (m = DistribConnect => DistribConnect \notin Range(cmds))
          => Once(cmds', DistribConnect)
    BY <2>1, <2>2, OnceAppend DEF Typed
  <2>6. Once(bus', DistribConnect) = Once(bus, DistribConnect)'
        /\ Once(cmds', DistribConnect) = Once(cmds, DistribConnect)'
    BY DEF Once, DistribConnect
  <2> HIDE DEF m
  <2>7. Range(bus') \cup Range(cmds') \subseteq Range(bus) \cup Range(cmds)
    BY <2>3
  <2>8. ASSUME Once(bus, DistribConnect), Once(cmds, DistribConnect),
               ~(DistribConnect \in Range(bus) /\ DistribConnect \in Range(cmds))
        PROVE  /\ Once(bus', DistribConnect) /\ Once(cmds', DistribConnect)
               /\ ~(DistribConnect \in Range(bus') /\ DistribConnect \in Range(cmds'))
    BY <2>3, <2>4, <2>5, <2>8
  <2>9. QED
    BY <2>1, <2>6, <2>7, <2>8 DEF AskedOnce
<1>2. CASE BusToServer
  <2>1. /\ bus # <<>> /\ bus' = Tail(bus) /\ Head(bus).kind = "Advert"
        /\ UNCHANGED <<distrib_parent, cmds, dialing, parents, stacked, pierced, drops>>
    BY <1>2 DEF BusToServer, feeds, history
  <2>2. QED
    BY <2>1, AskedStill, KindsDiffer
<1>3. QED
  BY <1>1, <1>2 DEF BusWorker

LEMMA CommandsAskOnce ==
  ASSUME Typed, AskedOnce, CommandLoop
  PROVE  AskedOnce'
<1>1. CASE CmdDistribConnect
  <2> DEFINE x == CHOOSE c \in Conns \ (dialing \cup parents) : TRUE
  <2>1. /\ cmds # <<>> /\ Head(cmds) \in Cmds /\ cmds' = Tail(cmds)
        /\ Head(cmds).kind \in {"DistribConnect", "PierceDistrib"}
        /\ dialing' = dialing \cup {x} /\ stacked' = (stacked \/ dialing \cup parents # {})
        /\ UNCHANGED <<distrib_parent, bus, parents, pierced, drops>>
    BY <1>1, TailFacts DEF CmdDistribConnect, NextCmd, session, Typed
  <2> HIDE DEF x
  <2>2. Head(cmds) \in {DistribConnect, PierceDistrib}
    BY <2>1 DEF Cmds, RelaySearch, AdvertiseBranch
  <2>3. Range(cmds) = {Head(cmds)} \cup Range(cmds')
    BY <2>1, TailFacts DEF Typed
  <2>4. Once(cmds, DistribConnect) => Once(cmds', DistribConnect)
          /\ (Head(cmds) = DistribConnect => DistribConnect \notin Range(cmds'))
    BY <2>1, OnceTail DEF Typed
  <2>5. Once(bus, DistribConnect)' = Once(bus, DistribConnect)
        /\ Once(cmds', DistribConnect) = Once(cmds, DistribConnect)'
    BY <2>1 DEF Once, DistribConnect
  <2>6. QED
    BY <2>1, <2>2, <2>3, <2>4, <2>5 DEF AskedOnce
<1>2. CASE CmdAdvertiseBranch
  <2> DEFINE yes == attached /\ Cardinality(DOMAIN children) < ComputeMaxChildren(speeds)
             m == Advert(branch, yes)
  <2>1. m \in Msgs
    <3>1. yes \in BOOLEAN
      BY DEF Typed
    <3> HIDE DEF yes
    <3>2. QED
      BY <3>1, SomeRoot DEF Typed
  <2>2. /\ bus' = Append(bus, m) /\ cmds # <<>> /\ cmds' = Tail(cmds)
        /\ UNCHANGED <<distrib_parent, dialing, parents, stacked, pierced, drops>>
    BY <1>2 DEF CmdAdvertiseBranch, NextCmd, Publish, session, feeds, history
  <2>3. m \notin {DistribConnect, PierceDistrib}
    BY KindsDiffer
  <2> HIDE DEF m
  <2>4. QED
    BY <2>1, <2>2, <2>3, AskedStill
<1>3. CASE CmdRelayDistribSearch
  <2>1. /\ cmds # <<>> /\ Head(cmds).kind = "RelayDistribSearch"
        /\ cmds' = (IF attached THEN Tail(cmds) ELSE Append(Tail(cmds), AdvertiseBranch))
        /\ UNCHANGED <<distrib_parent, bus, dialing, parents, stacked, pierced, drops>>
    BY <1>3 DEF CmdRelayDistribSearch, NextCmd, session, feeds, history
  <2>2. AdvertiseBranch \in Cmds
    BY DEF Cmds
  <2>3. Tail(cmds) \in Seq(Cmds) /\ Range(Tail(cmds)) \subseteq Range(cmds)
        /\ (Once(cmds, DistribConnect) => Once(Tail(cmds), DistribConnect))
    BY <2>1, TailFacts, OnceTail DEF Typed
  <2>4. Range(cmds') \subseteq Range(cmds) \cup {AdvertiseBranch}
        /\ (Once(cmds, DistribConnect) => Once(cmds', DistribConnect))
    <3> DEFINE rest == Tail(cmds)
    <3>1. rest \in Seq(Cmds) /\ (cmds' = rest \/ cmds' = Append(rest, AdvertiseBranch))
      BY <2>1, <2>3
    <3> HIDE DEF rest
    <3>2. Range(Append(rest, AdvertiseBranch)) = Range(rest) \cup {AdvertiseBranch}
      BY <2>2, <3>1, AppendFacts
    <3>3. Once(rest, DistribConnect) => Once(Append(rest, AdvertiseBranch), DistribConnect)
      BY <2>2, <3>1, OnceAppend, KindsDiffer
    <3>4. Range(rest) \subseteq Range(cmds)
          /\ (Once(cmds, DistribConnect) => Once(rest, DistribConnect))
      BY <2>3 DEF rest
    <3>5. QED
      BY <3>1, <3>2, <3>3, <3>4
  <2>5. Once(bus, DistribConnect)' = Once(bus, DistribConnect)
        /\ Once(cmds', DistribConnect) = Once(cmds, DistribConnect)'
    BY <2>1 DEF Once, DistribConnect
  <2>6. QED
    BY <2>1, <2>4, <2>5, KindsDiffer DEF AskedOnce
<1>4. QED
  BY <1>1, <1>2, <1>3 DEF CommandLoop

LEMMA ParentAskedOnce ==
  ASSUME Typed, AskedOnce, NEW c \in Conns, Parent(c)
  PROVE  AskedOnce'
<1>1. AdvertiseBranch \in Cmds /\ AdvertiseBranch \notin {DistribConnect, PierceDistrib}
  BY KindsDiffer DEF Cmds
<1>2. /\ UNCHANGED <<distrib_parent, bus, stacked, pierced, drops>>
      /\ dialing' \cup parents' \subseteq dialing \cup parents
      /\ cmds' = cmds \/ cmds' = Append(cmds, AdvertiseBranch)
  <2>1. CASE DialFails(c) \/ OnSearch(c)
    BY <2>1 DEF DialFails, OnSearch, session, feeds, history
  <2>2. CASE ParentConnects(c) \/ ParentEnds(c)
    BY <2>2 DEF ParentConnects, ParentEnds, session, history
  <2>3. CASE (\E level \in Levels : OnBranchLevel(c, level))
               \/ \E root \in Roots : OnBranchRoot(c, root)
    BY <2>3 DEF OnBranchLevel, OnBranchRoot, Announced, session, feeds
  <2>4. QED
    BY <2>1, <2>2, <2>3 DEF Parent
<1>3. QED
  BY <1>1, <1>2, AskedStill

LEMMA NextAsked ==
  ASSUME DistribTreeAssumption, Typed, AskedOnce, [Next]_vars
  PROVE  AskedOnce'
<1>1. ASSUME NEW c \in Kids, Child(c)
      PROVE  AskedOnce'
  <2>1. AdvertiseBranch \in Cmds /\ AdvertiseBranch \notin {DistribConnect, PierceDistrib}
    BY KindsDiffer DEF Cmds
  <2>2. /\ UNCHANGED <<distrib_parent, bus, stacked, pierced, drops, dialing, parents>>
        /\ cmds' = cmds \/ cmds' = Append(cmds, AdvertiseBranch)
    BY <1>1 DEF Child, AdoptChild, WriteToChild, GreetingFails, ChildLeaves, session, feeds,
                history
  <2>3. QED
    BY <2>1, <2>2, AskedStill
<1>2. CASE \E s \in Speeds : SpeedsChange(s)
  BY <1>2, AskedKept DEF SpeedsChange, session, feeds, history, askedVars
<1>3. CASE UNCHANGED vars
  BY <1>3, AskedKept DEF vars, session, feeds, history, askedVars
<1>4. QED
  BY <1>1, <1>2, <1>3, ServerAsksOnce, BusAsksOnce, CommandsAskOnce, ParentAskedOnce DEF Next

LEMMA InitAsked == Init => AskedOnce
<1> SUFFICES ASSUME Init
             PROVE  AskedOnce
  OBVIOUS
<1>1. bus = <<>> /\ cmds = <<>> /\ dialing = {} /\ parents = {} /\ ~stacked
  BY DEF Init
<1>2. Range(bus) = {} /\ Range(cmds) = {} /\ Len(bus) = 0 /\ Len(cmds) = 0
  BY <1>1 DEF Range
<1>3. Once(bus, DistribConnect) /\ Once(cmds, DistribConnect)
  BY <1>2 DEF Once
<1>4. QED
  BY <1>1, <1>2, <1>3 DEF AskedOnce

-----------------------------------------------------------------------------
(* Connections and children are within their bounds.                         *)

Connects == {"DistribConnect", "PierceDistrib"}
At(s) == {i \in 1 .. Len(s) : s[i].kind \in Connects}
Asks(s) == Cardinality(At(s))

LEMMA AsksType ==
  ASSUME NEW S, NEW s \in Seq(S)
  PROVE  IsFiniteSet(At(s)) /\ Asks(s) \in Nat
<1>1. IsFiniteSet(1 .. Len(s))
  BY FS_Interval
<1>2. At(s) \subseteq 1 .. Len(s)
  BY DEF At
<1>3. IsFiniteSet(At(s))
  BY <1>1, <1>2, FS_Subset
<1>4. QED
  BY <1>3, FS_CardinalityType DEF Asks

LEMMA AsksAppend ==
  ASSUME NEW S, NEW s \in Seq(S), NEW m \in S
  PROVE  Asks(Append(s, m)) = IF m.kind \in Connects THEN Asks(s) + 1 ELSE Asks(s)
<1> DEFINE t == Append(s, m)
           n == Len(s)
<1>1. /\ n \in Nat /\ Len(t) = n + 1 /\ t[n + 1] = m /\ \A i \in 1 .. n : t[i] = s[i]
  BY AppendFacts
<1> HIDE DEF t, n
<1>2. \A i \in 1 .. n + 1 : i \in 1 .. n \/ i = n + 1
  BY <1>1
<1>3. \A i \in 1 .. n : i \in 1 .. n + 1
  BY <1>1
<1>4. n + 1 \in 1 .. n + 1 /\ n + 1 \notin 1 .. n
  BY <1>1
<1>5. At(t) = IF m.kind \in Connects THEN At(s) \cup {n + 1} ELSE At(s)
  BY <1>1, <1>2, <1>3, <1>4 DEF At, n
<1>6. n + 1 \notin At(s)
  BY <1>4 DEF At, n
<1>7. QED
  BY <1>5, <1>6, AsksType, FS_AddElement DEF Asks, t

LEMMA AsksTail ==
  ASSUME NEW S, NEW s \in Seq(S), s # <<>>
  PROVE  /\ Asks(Tail(s)) <= Asks(s)
         /\ Head(s).kind \in Connects => Asks(Tail(s)) <= Asks(s) - 1
<1> DEFINE t == Tail(s)
           rest == At(s) \ {1}
           shift == [i \in rest |-> i - 1]
<1>1. /\ Len(s) \in Nat \ {0} /\ Len(t) = Len(s) - 1 /\ Head(s) = s[1] /\ t \in Seq(S)
      /\ \A i \in 1 .. Len(s) - 1 : t[i] = s[i + 1]
  BY TailFacts
<1>2. IsFiniteSet(rest) /\ Cardinality(rest) = IF 1 \in At(s) THEN Asks(s) - 1 ELSE Asks(s)
  BY AsksType, FS_RemoveElement DEF Asks
<1> HIDE DEF t
<1>3. \A i \in rest : i - 1 \in At(t)
  <2> SUFFICES ASSUME NEW i \in rest
               PROVE  i - 1 \in At(t)
    OBVIOUS
  <2>1. i \in 1 .. Len(s) /\ s[i].kind \in Connects /\ i # 1
    BY DEF At
  <2>2. i - 1 \in 1 .. Len(t) /\ t[i - 1] = s[i]
    BY <1>1, <2>1
  <2>3. QED
    BY <2>1, <2>2 DEF At
<1>4. \A k \in At(t) : k + 1 \in rest /\ (k + 1) - 1 = k
  <2> SUFFICES ASSUME NEW k \in At(t)
               PROVE  k + 1 \in rest /\ (k + 1) - 1 = k
    OBVIOUS
  <2>1. k \in 1 .. Len(t) /\ t[k].kind \in Connects
    BY DEF At
  <2>2. k + 1 \in 1 .. Len(s) /\ s[k + 1] = t[k] /\ k + 1 # 1 /\ (k + 1) - 1 = k
    BY <1>1, <2>1
  <2>3. QED
    BY <2>1, <2>2 DEF At
<1> HIDE DEF rest
<1>5. shift \in Surjection(rest, At(t))
  BY <1>3, <1>4 DEF Surjection
<1> HIDE DEF shift
<1>6. Cardinality(At(t)) <= Cardinality(rest)
  BY <1>2, <1>5, FS_Surjection
<1>7. 1 \in At(s) <=> Head(s).kind \in Connects
  BY <1>1 DEF At
<1>8. Asks(s) \in Nat /\ Asks(t) \in Nat
  BY <1>1, AsksType
<1>9. Asks(t) <= IF 1 \in At(s) THEN Asks(s) - 1 ELSE Asks(s)
  BY <1>2, <1>6 DEF Asks
<1>10. Asks(t) <= Asks(s) /\ (1 \in At(s) => Asks(t) <= Asks(s) - 1)
  BY <1>8, <1>9
<1>11. QED
  BY <1>7, <1>10 DEF t

UpInv ==
  /\ dialing \subseteq Conns /\ parents \subseteq Conns
  /\ Cardinality(dialing \cup parents) + Asks(bus) + Asks(cmds) <= upstream

LEMMA ConnsFinite ==
  ASSUME DistribTreeAssumption, NEW D, D \subseteq Conns
  PROVE  IsFiniteSet(D) /\ Cardinality(D) \in Nat
         /\ (Cardinality(D) < MaxConns => Conns \ D # {})
<1>1. IsFiniteSet(Conns) /\ Cardinality(Conns) = MaxConns
  <2>1. MaxConns \in Nat /\ 1 \in Int /\ MaxConns \in Int
    BY DEF DistribTreeAssumption
  <2>2. /\ IsFiniteSet(1 .. MaxConns)
        /\ Cardinality(1 .. MaxConns) = IF 1 > MaxConns THEN 0 ELSE MaxConns - 1 + 1
    BY <2>1, FS_Interval
  <2>3. QED
    BY <2>1, <2>2 DEF Conns
<1>2. IsFiniteSet(D) /\ Cardinality(D) \in Nat
  BY <1>1, FS_Subset, FS_CardinalityType
<1>3. Conns \ D = {} => D = Conns
  OBVIOUS
<1>4. QED
  BY <1>1, <1>2, <1>3 DEF DistribTreeAssumption

\* No new request beyond upstream, and no connection that was not there.
LEMMA UpStill ==
  ASSUME DistribTreeAssumption, Typed, UpInv, upstream' = upstream,
         dialing' \cup parents' \subseteq dialing \cup parents,
         Asks(bus') + Asks(cmds') <= Asks(bus) + Asks(cmds),
         Asks(bus') \in Nat, Asks(cmds') \in Nat
  PROVE  UpInv'
<1> DEFINE D == dialing \cup parents
           E == dialing' \cup parents'
<1>1. D \subseteq Conns /\ E \subseteq D
  BY DEF UpInv
<1>2. IsFiniteSet(D) /\ Cardinality(D) \in Nat
  BY <1>1, ConnsFinite
<1>3. IsFiniteSet(E) /\ Cardinality(E) <= Cardinality(D) /\ Cardinality(E) \in Nat
  BY <1>1, <1>2, FS_Subset, FS_CardinalityType
<1>4. Asks(bus) \in Nat /\ Asks(cmds) \in Nat
  BY AsksType DEF Typed
<1>5. upstream \in Nat
  BY DEF Typed
<1>6. Cardinality(D) + Asks(bus) + Asks(cmds) <= upstream
  BY DEF UpInv
<1> HIDE DEF D, E
<1>7. Cardinality(E) + Asks(bus') + Asks(cmds') <= upstream
  BY <1>2, <1>3, <1>4, <1>5, <1>6
<1>8. Asks(bus') = Asks(bus)' /\ Asks(cmds') = Asks(cmds)'
  BY DEF Asks, At, Connects
<1>9. QED
  BY <1>1, <1>7, <1>8 DEF UpInv, D, E, Conns

LEMMA SumKept ==
  ASSUME Typed
  PROVE  /\ Asks(bus) \in Nat /\ Asks(cmds) \in Nat
         /\ \A m \in Msgs : m.kind \notin Connects => Asks(Append(bus, m)) = Asks(bus)
         /\ \A m \in Cmds : m.kind \notin Connects => Asks(Append(cmds, m)) = Asks(cmds)
BY AsksType, AsksAppend DEF Typed

LEMMA NextUp ==
  ASSUME DistribTreeAssumption, Typed, Typed', UpInv, [Next]_vars
  PROVE  UpInv'
<1>0. /\ Asks(bus) \in Nat /\ Asks(cmds) \in Nat
      /\ Asks(bus') \in Nat /\ Asks(cmds') \in Nat
  BY AsksType DEF Typed
<1>a. AdvertiseBranch \in Cmds /\ AdvertiseBranch.kind \notin Connects
      /\ RelaySearch \in Msgs /\ RelaySearch.kind \notin Connects
  BY DEF Cmds, Msgs, Connects, AdvertiseBranch, RelaySearch
<1>b. \A b \in Branch, yes \in BOOLEAN :
         Advert(b, yes) \in Msgs /\ Advert(b, yes).kind \notin Connects
  BY SomeRoot DEF Advert, Connects
<1>c. Asks(Append(cmds, AdvertiseBranch)) = Asks(cmds)
  BY <1>a, SumKept
<1>1. ASSUME NEW m \in Msgs, m.kind \in Connects, bus' = Append(bus, m),
             upstream' = upstream + 1, UNCHANGED <<cmds, dialing, parents>>
      PROVE  UpInv'
  <2>1. Asks(bus') = Asks(bus) + 1
    BY <1>1, AsksAppend DEF Typed
  <2>2. Asks(bus') = Asks(bus)' /\ Asks(cmds)' = Asks(cmds)
    BY <1>1 DEF Asks, At, Connects
  <2>3. Cardinality(dialing \cup parents) \in Nat
    BY ConnsFinite DEF UpInv
  <2>4. /\ Cardinality(dialing \cup parents) + Asks(bus) + Asks(cmds) <= upstream
        /\ upstream \in Nat
    BY DEF UpInv, Typed
  <2>5. Cardinality(dialing \cup parents) + Asks(bus') + Asks(cmds) <= upstream'
    BY <1>0, <1>1, <2>1, <2>3, <2>4
  <2>6. (dialing \cup parents)' = dialing \cup parents
    BY <1>1
  <2>7. QED
    BY <1>1, <2>2, <2>5, <2>6 DEF UpInv, Conns
<1>2. CASE PossibleParents
  BY <1>1, <1>2 DEF PossibleParents, Publish, DistribConnect, Msgs, Connects
<1>3. CASE ConnectToPeerD
  BY <1>1, <1>3 DEF ConnectToPeerD, Publish, PierceDistrib, Msgs, Connects
<1>4. CASE EmbeddedMessage
  <2>1. bus' = Append(bus, RelaySearch) /\ UNCHANGED <<cmds, dialing, parents, upstream>>
    BY <1>4 DEF EmbeddedMessage, Publish, feeds
  <2>2. QED
    BY <1>0, <1>a, <2>1, SumKept, UpStill
<1>5. CASE NetConnClosed
  <2>1. UNCHANGED <<bus, cmds, dialing, parents, upstream>>
    BY <1>5 DEF NetConnClosed, feeds
  <2>2. QED
    BY <1>0, <2>1, UpStill
<1>6. CASE LoginResponse
  <2> DEFINE m == Advert(Root, FALSE)
  <2>1. bus' = Append(bus, m) /\ UNCHANGED <<cmds, dialing, parents, upstream>>
    BY <1>6 DEF LoginResponse, Publish, feeds
  <2>2. m \in Msgs /\ m.kind \notin Connects
    BY <1>b, SomeRoot
  <2> HIDE DEF m
  <2>3. Asks(bus') = Asks(bus)
    BY <2>1, <2>2, SumKept
  <2>4. QED
    BY <1>0, <2>1, <2>3, UpStill
<1>7. CASE BusToReactor
  <2> DEFINE m == Head(bus)
  <2>1. bus # <<>> /\ bus' = Tail(bus) /\ cmds' = Append(cmds, m) /\ m \in Msgs
        /\ m.kind \in Forwarded /\ UNCHANGED <<dialing, parents, upstream>>
    BY <1>7, TailFacts DEF BusToReactor, feeds, Typed
  <2>2. m \in Cmds
    BY <2>1 DEF Forwarded, Msgs, Cmds
  <2>3. Asks(cmds') = IF m.kind \in Connects THEN Asks(cmds) + 1 ELSE Asks(cmds)
    BY <2>1, <2>2, AsksAppend DEF Typed
  <2>4. Asks(bus') <= Asks(bus) /\ (m.kind \in Connects => Asks(bus') <= Asks(bus) - 1)
    BY <2>1, AsksTail DEF Typed
  <2>5. Asks(bus') + Asks(cmds') <= Asks(bus) + Asks(cmds)
    BY <1>0, <2>3, <2>4
  <2>6. QED
    BY <1>0, <2>1, <2>5, UpStill
<1>8. CASE BusToServer
  <2>1. bus # <<>> /\ bus' = Tail(bus) /\ UNCHANGED <<cmds, dialing, parents, upstream>>
    BY <1>8 DEF BusToServer, feeds
  <2>2. Asks(bus') <= Asks(bus)
    BY <2>1, AsksTail DEF Typed
  <2>3. QED
    BY <1>0, <2>1, <2>2, UpStill
<1>9. CASE CmdDistribConnect
  <2> DEFINE D == dialing \cup parents
             x == CHOOSE c \in Conns \ D : TRUE
  <2>1. /\ cmds # <<>> /\ Head(cmds).kind \in Connects /\ cmds' = Tail(cmds)
        /\ dialing' = dialing \cup {x} /\ UNCHANGED <<bus, parents, upstream>>
    BY <1>9 DEF CmdDistribConnect, NextCmd, Connects
  <2>2. Asks(cmds') <= Asks(cmds) - 1
    BY <2>1, AsksTail DEF Typed
  <2>3. D \subseteq Conns /\ IsFiniteSet(D) /\ Cardinality(D) \in Nat
        /\ (Cardinality(D) < MaxConns => Conns \ D # {})
    BY ConnsFinite DEF UpInv
  <2>4. upstream \in Nat /\ upstream <= MaxConns /\ MaxConns \in Nat
    BY DEF Typed, DistribTreeAssumption
  <2>5. Cardinality(D) + Asks(bus) + Asks(cmds) <= upstream
    BY DEF UpInv
  <2> HIDE DEF D
  <2>6. Cardinality(D) < MaxConns
    BY <1>0, <2>2, <2>3, <2>4, <2>5
  <2>7. x \in Conns /\ x \notin D
    BY <2>3, <2>6
  <2> HIDE DEF x
  <2>8. Cardinality(D \cup {x}) = Cardinality(D) + 1
    BY <2>3, <2>7, FS_AddElement
  <2>9. /\ dialing' \cup parents' = D \cup {x}
        /\ dialing' \subseteq Conns /\ parents' \subseteq Conns
    <3>1. dialing' \cup parents' = D \cup {x}
      BY <2>1 DEF D
    <3>2. dialing \subseteq Conns /\ parents \subseteq Conns
      BY DEF UpInv
    <3>3. QED
      BY <2>1, <2>7, <3>1, <3>2
  <2>10. Cardinality(dialing' \cup parents') + Asks(bus) + Asks(cmds') <= upstream
    <3>1. Cardinality(dialing' \cup parents') = Cardinality(D) + 1
      BY <2>8, <2>9
    <3>2. Asks(bus) \in Nat /\ Asks(cmds) \in Nat /\ Asks(cmds') \in Nat
      BY <1>0
    <3>3. QED
      BY <2>2, <2>3, <2>4, <2>5, <3>1, <3>2
  <2>11. Asks(bus)' = Asks(bus) /\ Asks(cmds)' = Asks(cmds')
    BY <2>1 DEF Asks, At, Connects
  <2>12. QED
    BY <2>1, <2>9, <2>10, <2>11 DEF UpInv, Conns
<1>10. CASE CmdAdvertiseBranch
  <2> DEFINE yes == attached /\ Cardinality(DOMAIN children) < ComputeMaxChildren(speeds)
  <2>1. /\ bus' = Append(bus, Advert(branch, yes)) /\ cmds # <<>> /\ cmds' = Tail(cmds)
        /\ UNCHANGED <<dialing, parents, upstream>>
    BY <1>10 DEF CmdAdvertiseBranch, NextCmd, Publish, feeds
  <2>2. yes \in BOOLEAN
    BY DEF Typed
  <2> HIDE DEF yes
  <2>3. Asks(bus') = Asks(bus)
    BY <1>b, <2>1, <2>2, SumKept DEF Typed
  <2>4. Asks(cmds') <= Asks(cmds)
    BY <2>1, AsksTail DEF Typed
  <2>5. QED
    BY <1>0, <2>1, <2>3, <2>4, UpStill
<1>11. CASE CmdRelayDistribSearch
  <2> DEFINE rest == Tail(cmds)
  <2>1. /\ cmds # <<>> /\ (cmds' = rest \/ cmds' = Append(rest, AdvertiseBranch))
        /\ UNCHANGED <<bus, dialing, parents, upstream>>
    BY <1>11 DEF CmdRelayDistribSearch, NextCmd, feeds
  <2>2. rest \in Seq(Cmds) /\ Asks(rest) <= Asks(cmds)
    BY <2>1, TailFacts, AsksTail DEF Typed
  <2> HIDE DEF rest
  <2>3. Asks(Append(rest, AdvertiseBranch)) = Asks(rest)
    BY <1>a, <2>2, AsksAppend
  <2>4. Asks(cmds') <= Asks(cmds)
    BY <2>1, <2>2, <2>3
  <2>5. QED
    BY <1>0, <2>1, <2>4, UpStill
<1>12. ASSUME NEW c \in Conns, Parent(c)
       PROVE  UpInv'
  <2>1. /\ UNCHANGED <<bus, upstream>> /\ dialing' \cup parents' \subseteq dialing \cup parents
        /\ cmds' = cmds \/ cmds' = Append(cmds, AdvertiseBranch)
    <3>1. CASE DialFails(c) \/ OnSearch(c)
      BY <3>1 DEF DialFails, OnSearch, feeds
    <3>2. CASE ParentConnects(c) \/ ParentEnds(c)
      BY <3>2 DEF ParentConnects, ParentEnds
    <3>3. CASE (\E level \in Levels : OnBranchLevel(c, level))
                 \/ \E root \in Roots : OnBranchRoot(c, root)
      BY <3>3 DEF OnBranchLevel, OnBranchRoot, Announced, feeds
    <3>4. QED
      BY <1>12, <3>1, <3>2, <3>3 DEF Parent
  <2>2. Asks(cmds') = Asks(cmds)
    BY <1>c, <2>1
  <2>3. QED
    BY <1>0, <2>1, <2>2, UpStill
<1>13. ASSUME NEW c \in Kids, Child(c)
       PROVE  UpInv'
  <2>1. /\ UNCHANGED <<bus, upstream, dialing, parents>>
        /\ cmds' = cmds \/ cmds' = Append(cmds, AdvertiseBranch)
    BY <1>13 DEF Child, AdoptChild, WriteToChild, GreetingFails, ChildLeaves, feeds
  <2>2. Asks(cmds') = Asks(cmds)
    BY <1>c, <2>1
  <2>3. QED
    BY <1>0, <2>1, <2>2, UpStill
<1>14. CASE (\E s \in Speeds : SpeedsChange(s)) \/ UNCHANGED vars
  <2>1. UNCHANGED <<bus, cmds, upstream, dialing, parents>>
    BY <1>14 DEF SpeedsChange, vars, feeds
  <2>2. QED
    BY <1>0, <2>1, UpStill
<1>15. QED
  BY <1>2, <1>3, <1>4, <1>5, <1>6, <1>7, <1>8, <1>9, <1>10, <1>11, <1>12, <1>13, <1>14, Zenon
     DEF Next, Server, BusWorker, CommandLoop

LEMMA InitUp ==
  ASSUME DistribTreeAssumption, Init
  PROVE  UpInv
<1>1. bus = <<>> /\ cmds = <<>> /\ dialing = {} /\ parents = {} /\ upstream = 0
  BY DEF Init
<1>2. At(bus) = {} /\ At(cmds) = {}
  BY <1>1 DEF At
<1>3. Asks(bus) = 0 /\ Asks(cmds) = 0 /\ Cardinality({}) = 0
  BY <1>2, FS_EmptySet DEF Asks
<1>4. dialing \cup parents = {}
  BY <1>1
<1>5. QED
  BY <1>1, <1>3, <1>4 DEF UpInv

\* Children are adopted within a capacity we have, so never more than the largest.
CapInv == \E s \in Speeds : Cardinality(DOMAIN children) <= ComputeMaxChildren(s)

LEMMA CapacityType ==
  ASSUME DistribTreeAssumption, NEW s \in Speeds
  PROVE  ComputeMaxChildren(s) \in Nat
<1>1. s.speed \in Nat /\ s.min_speed \in Nat /\ s.ratio \in Nat
  BY DEF DistribTreeAssumption
<1>2. CASE s.ratio > 0 /\ s.speed >= s.min_speed
  <2> DEFINE a == s.speed
             r == s.ratio
             fit == a \div r
  <2>1. a \in Nat /\ r \in Nat /\ r > 0
    BY <1>1, <1>2
  <2> HIDE DEF a, r
  <2>2. fit \in Nat
    BY <2>1
  <2> HIDE DEF fit
  <2>3. fit \div 100 \in Nat
    BY <2>2
  <2>4. ComputeMaxChildren(s) = IF fit \div 100 < 10 THEN fit \div 100 ELSE 10
    BY <1>2 DEF ComputeMaxChildren, MAX_DISTRIB_CHILDREN, fit, a, r
  <2>5. QED
    BY <2>3, <2>4
<1>3. CASE ~(s.ratio > 0 /\ s.speed >= s.min_speed)
  BY <1>3 DEF ComputeMaxChildren
<1>4. QED
  BY <1>2, <1>3

\* Fewer children than before, or as many.
LEMMA CapStill ==
  ASSUME DistribTreeAssumption, Typed, CapInv, DOMAIN children' \subseteq DOMAIN children
  PROVE  CapInv'
<1>1. DOMAIN children \subseteq 1 .. MaxKids /\ MaxKids \in Nat
  BY DEF Typed, Kids, DistribTreeAssumption
<1>2. IsFiniteSet(1 .. MaxKids)
  BY <1>1, FS_Interval
<1>3. IsFiniteSet(DOMAIN children) /\ Cardinality(DOMAIN children) \in Nat
  BY <1>1, <1>2, FS_Subset, FS_CardinalityType
<1>4. Cardinality(DOMAIN children') <= Cardinality(DOMAIN children)
      /\ Cardinality(DOMAIN children') \in Nat
  BY <1>3, FS_Subset, FS_CardinalityType
<1>5. PICK s \in Speeds : Cardinality(DOMAIN children) <= ComputeMaxChildren(s)
  BY DEF CapInv
<1>6. Cardinality(DOMAIN children') <= ComputeMaxChildren(s)
  BY <1>3, <1>4, <1>5, CapacityType
<1>7. ComputeMaxChildren(s)' = ComputeMaxChildren(s)
  BY DEF ComputeMaxChildren, MAX_DISTRIB_CHILDREN
<1>8. QED
  BY <1>6 DEF CapInv, ComputeMaxChildren, MAX_DISTRIB_CHILDREN

LEMMA NextCap ==
  ASSUME DistribTreeAssumption, Typed, CapInv, [Next]_vars
  PROVE  CapInv'
<1>1. ASSUME NEW c \in Kids, AdoptChild(c)
      PROVE  CapInv'
  <2> DEFINE K == DOMAIN children
  <2>1. Cardinality(K) < ComputeMaxChildren(speeds) /\ DOMAIN children' = K \cup {c}
    BY <1>1 DEF AdoptChild
  <2>2. K \subseteq 1 .. MaxKids /\ MaxKids \in Nat /\ speeds \in Speeds
    BY DEF Typed, Kids, DistribTreeAssumption
  <2>3. IsFiniteSet(1 .. MaxKids)
    BY <2>2, FS_Interval
  <2>4. IsFiniteSet(K) /\ Cardinality(K) \in Nat
    BY <2>2, <2>3, FS_Subset, FS_CardinalityType
  <2> HIDE DEF K
  <2>5. Cardinality(K \cup {c}) <= Cardinality(K) + 1
    <3>1. Cardinality(K \cup {c}) = IF c \in K THEN Cardinality(K) ELSE Cardinality(K) + 1
      BY <2>4, FS_AddElement
    <3>2. QED
      BY <2>4, <3>1
  <2>6. Cardinality(K \cup {c}) \in Nat
    BY <2>4, FS_AddElement, FS_CardinalityType
  <2>7. ComputeMaxChildren(speeds) \in Nat
    BY <2>2, CapacityType
  <2>8. Cardinality(DOMAIN children') <= ComputeMaxChildren(speeds)
    BY <2>1, <2>4, <2>5, <2>6, <2>7
  <2>9. QED
    BY <2>2, <2>8 DEF CapInv, ComputeMaxChildren, MAX_DISTRIB_CHILDREN
<1>2. ASSUME NEW c \in Kids, WriteToChild(c) \/ GreetingFails(c) \/ ChildLeaves(c)
      PROVE  DOMAIN children' \subseteq DOMAIN children
  BY <1>2 DEF WriteToChild, GreetingFails, ChildLeaves, Restrict
<1>3. ASSUME NEW fs, ForwardToChildren(fs)
      PROVE  DOMAIN children' \subseteq DOMAIN children
  BY <1>3 DEF ForwardToChildren, Alive
<1>4. ASSUME NEW c \in Conns, Parent(c)
      PROVE  DOMAIN children' \subseteq DOMAIN children
  <2>1. CASE DialFails(c) \/ ParentConnects(c)
    BY <2>1 DEF DialFails, ParentConnects, kids
  <2>2. CASE OnSearch(c) \/ ParentEnds(c)
    BY <1>3, <2>2 DEF OnSearch, ParentEnds
  <2>3. CASE (\E level \in Levels : OnBranchLevel(c, level))
               \/ \E root \in Roots : OnBranchRoot(c, root)
    BY <1>3, <2>3 DEF OnBranchLevel, OnBranchRoot
  <2>4. QED
    BY <1>4, <2>1, <2>2, <2>3 DEF Parent
<1>5. CASE Server \/ BusWorker \/ (\E s \in Speeds : SpeedsChange(s)) \/ UNCHANGED vars
  BY <1>5, CapStill DEF Server, PossibleParents, ConnectToPeerD, EmbeddedMessage,
     NetConnClosed, LoginResponse, BusWorker, BusToReactor, BusToServer, SpeedsChange, vars, kids
<1>6. CASE CommandLoop
  BY <1>3, <1>6, CapStill DEF CommandLoop, CmdDistribConnect, CmdAdvertiseBranch,
     CmdRelayDistribSearch, kids
<1>7. QED
  BY <1>1, <1>2, <1>4, <1>5, <1>6, CapStill DEF Next, Child

LEMMA InitCap ==
  ASSUME DistribTreeAssumption, Init
  PROVE  CapInv
<1>1. children = [c \in {} |-> {}]
  BY DEF Init
<1>2. DOMAIN children = {}
  BY <1>1
<1>3. PICK s \in Speeds : TRUE
  BY DEF DistribTreeAssumption
<1>4. Cardinality(DOMAIN children) <= ComputeMaxChildren(s)
  BY <1>2, FS_EmptySet, CapacityType
<1>5. QED
  BY <1>4 DEF CapInv

-----------------------------------------------------------------------------
(* The theorems.                                                             *)

IInv == /\ Typed /\ UpInv /\ CapInv
        /\ FeedInv /\ KidsFollow /\ ToldInv /\ AskedOnce

LEMMA SpecIInv == Spec => []IInv
<1>1. Init => IInv
  BY DistribTreeAssumption, InitTyped, InitUp, InitCap, InitFeed, InitFollow, InitTold, InitAsked
     DEF IInv
<1>2. IInv /\ [Next]_vars => IInv'
  <2> SUFFICES ASSUME IInv, [Next]_vars
               PROVE  IInv'
    OBVIOUS
  <2>1. Typed'
    BY DistribTreeAssumption, NextTyped DEF IInv
  <2>2. UpInv' /\ CapInv'
    BY DistribTreeAssumption, <2>1, NextUp, NextCap DEF IInv
  <2>3. FeedInv' /\ KidsFollow' /\ ToldInv' /\ AskedOnce'
    BY DistribTreeAssumption, NextFeed, NextFollow, NextTold, NextAsked DEF IInv
  <2>4. QED
    BY <2>1, <2>2, <2>3 DEF IInv
<1>3. QED
  BY <1>1, <1>2, PTL DEF Spec

\* Session asks for a parent only once, so there never are two connections to
\* parents unless the link dropped or the server relayed one (PossibleParents).
THEOREM OneParentIsAsked == Spec => []OneParent
<1>1. IInv => OneParent
  <2> DEFINE D == dialing \cup parents
  <2> SUFFICES ASSUME IInv, drops = 0, ~pierced
               PROVE  ~stacked /\ Cardinality(D) <= 1
    BY DEF OneParent
  <2>1. ~stacked
    BY DEF IInv, AskedOnce
  <2>2. \A c, d \in D : c = d
    BY <2>1 DEF IInv, FeedInv, OneFeed
  <2> HIDE DEF D
  <2>3. CASE D = {}
    BY <2>1, <2>3, FS_EmptySet
  <2>4. CASE D # {}
    <3>1. PICK c \in D : D = {c}
      BY <2>2, <2>4
    <3>2. Cardinality(D) = 1
      BY <3>1, FS_Singleton
    <3>3. QED
      BY <2>1, <3>2
  <2>5. QED
    BY <2>3, <2>4
<1>2. QED
  BY <1>1, SpecIInv, PTL

\* While a parent feeds us we know it (DistribState::attached), as long as
\* parents never overlapped.
THEOREM FedIsAttached == Spec => []AttachedWhileFed
<1>1. IInv => AttachedWhileFed
  BY DEF IInv, FeedInv
<1>2. QED
  BY <1>1, SpecIInv, PTL

\* Our place in the tree hangs together: types, capacity, no position without a
\* parent, and no server that goes on sending children to a node nothing feeds.
THEOREM PlaceHangsTogether == Spec => []WellFormed
<1>1. IInv => WellFormed
  <2> SUFFICES ASSUME IInv
               PROVE  WellFormed
    OBVIOUS
  <2>1. TypeOK
    <3>1. (\A m \in Range(bus) : m \in Msgs) /\ (\A m \in Range(cmds) : m \in Cmds)
      BY DEF IInv, Typed, Range
    <3>2. (\A m \in Msgs : m.kind \in Forwarded \cup {"Advert"})
          /\ (\A m \in Cmds : m.kind \in Forwarded \cup {"AdvertiseBranch"})
      BY DEF Msgs, Cmds, Forwarded, DistribConnect, PierceDistrib, RelaySearch, AdvertiseBranch
    <3>3. QED
      BY <3>1, <3>2 DEF IInv, Typed, UpInv, CapInv, TypeOK, View
  <2>2. RootWithoutParent
    BY DEF IInv, FeedInv
  <2>3. AcceptOnlyAttached
    <3> SUFFICES ASSUME logged_in, told.accept, ~AdvertUnderWay
                 PROVE  attached
      BY DEF AcceptOnlyAttached
    <3>1. AdvertiseBranch \notin Range(cmds)
      BY DEF AdvertUnderWay
    <3>2. NoAdvert(bus)
      <4>1. bus \in Seq(Msgs)
        BY DEF IInv, Typed
      <4>2. \A i \in 1 .. Len(bus) : bus[i] \in Range(bus)
        BY <4>1 DEF Range
      <4>3. QED
        BY <4>2 DEF NoAdvert, AdvertUnderWay
    <3>3. QED
      BY <3>1, <3>2 DEF IInv, ToldInv, LastIsTrue, IsTrue
  <2>4. QED
    BY <2>1, <2>2, <2>3 DEF WellFormed
<1>2. QED
  BY <1>1, SpecIInv, PTL

\* Every child is on its way to our position, whenever it was adopted and
\* however much of its greeting is written (serve_child, forward_to_children).
THEOREM ChildrenAreToldInOrder == Spec => []ChildrenFollow
<1>1. IInv => ChildrenFollow
  BY EndsHears DEF IInv, KidsFollow, ChildrenFollow, Alive
<1>2. QED
  BY <1>1, SpecIInv, PTL

\* Once nothing is under way the server knows our position, as long as the link
\* has not dropped (CmdAdvertiseBranch).
THEOREM ServerKnowsPosition == Spec => []PositionIsToldWhileLinked
<1>1. IInv => PositionIsToldWhileLinked
  <2> SUFFICES ASSUME IInv, drops = 0, logged_in, ~AdvertUnderWay
               PROVE  told.level = branch.level /\ told.root = branch.root
    BY DEF PositionIsToldWhileLinked, PositionIsTold
  <2>1. AdvertiseBranch \notin Range(cmds)
    BY DEF AdvertUnderWay
  <2>2. NoAdvert(bus)
    <3>1. bus \in Seq(Msgs)
      BY DEF IInv, Typed
    <3>2. \A i \in 1 .. Len(bus) : bus[i] \in Range(bus)
      BY <3>1 DEF Range
    <3>3. QED
      BY <3>2 DEF NoAdvert, AdvertUnderWay
  <2>3. QED
    BY <2>1, <2>2 DEF IInv, ToldInv, LastIsTrue, IsTrue
<1>2. QED
  BY <1>1, SpecIInv, PTL
=============================================================================
