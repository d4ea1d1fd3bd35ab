---------------------------- MODULE DistribTree ----------------------------
(***************************************************************************)
(* Our place in the distributed search tree: the parent session asks for   *)
(* and peer_net connects to, the branch position the parent gives us, the  *)
(* children we feed, and what the server is told of both.                  *)
(*                                                                         *)
(* Actors: the bus worker, the reactor's command loop, one task for each   *)
(* parent and each child connection (an action ends at an await), the      *)
(* server, the parents and the children.  A search is relayed at once and  *)
(* changes only who is still registered, so search frames are left out of  *)
(* the children's channels; the three frames of an advertisement travel    *)
(* together; the server's limits take effect when they are set.            *)
(***************************************************************************)
EXTENDS Integers, Sequences, FiniteSets, Functions

CONSTANTS
  MaxConns,      \* bound: connections that carry a parent
  MaxKids,       \* bound: children's connections
  OurName,       \* our user name, a root's name
  Roots,         \* other branch roots
  Levels,        \* branch levels parents announce
  Speeds,        \* [speed, min_speed, ratio]: what sizes our capacity
  MaxNews,       \* bound: announcements of parents
  MaxDrops,      \* bound: losses of the server link
  MaxQueued      \* bound: messages and commands waiting when something new happens

ASSUME DistribTreeAssumption ==
  /\ MaxConns \in Nat /\ MaxKids \in Nat
  /\ OurName \notin Roots
  /\ Levels \subseteq Int
  /\ Speeds \subseteq [speed : Nat, min_speed : Nat, ratio : Nat] /\ Speeds # {}
  /\ MaxNews \in Nat /\ MaxDrops \in Nat /\ MaxQueued \in Nat \ {0}

VARIABLES
  logged_in,
  distrib_parent,  \* Session's field: did we ask for a parent?
  bus,             \* messages published and not yet handled
  told,            \* what the server believes: [level, root, accept], or Nothing
  cmds,            \* the reactor's command channel
  dialing,         \* parent connections being made
  parents,         \* parent connections that serve_distrib reads
  upstream,        \* parent connections asked for so far
  attached,        \* DistribState::attached
  branch,          \* DistribState::branch
  speeds,          \* upload speed and the server's limits
  children,        \* DistribState::children, id -> the child's connection
  next_child,      \* DistribState::next_child_id
  news,            \* announcements so far
  stacked,         \* were two parent connections ever made or read at once?
  pierced,         \* did the server ever relay an indirect parent connection?
  drops

session == <<logged_in, distrib_parent, told>>
tree    == <<attached, branch, speeds>>
feeds   == <<dialing, parents, upstream>>
kids    == <<children, next_child>>
history == <<news, stacked, pierced, drops>>
vars    == <<session, bus, cmds, feeds, tree, kids, history>>

Conns == 1 .. MaxConns
Kids  == 1 .. MaxKids

Branch == [level : Nat, root : Roots \cup {OurName}]
Root   == [level |-> 0, root |-> OurName]

Nothing == [level |-> 0, root |-> OurName, accept |-> FALSE]

Advert(b, yes) ==
  [kind |-> "Advert", view |-> [level |-> b.level, root |-> b.root, accept |-> yes]]
DistribConnect == [kind |-> "DistribConnect"]
PierceDistrib  == [kind |-> "PierceDistrib"]
RelaySearch    == [kind |-> "RelayDistribSearch"]
AdvertiseBranch == [kind |-> "AdvertiseBranch"]

\* A frame to a child: one field of our position.
Frame(field, value) == [field |-> field, value |-> value]
Position(b) == <<Frame("level", b.level), Frame("root", b.root)>>

Frames == [field : {"level"}, value : Nat]
            \cup [field : {"root"}, value : Roots \cup {OurName}]
\* A child's connection: frames of the greeting not yet written, the position it
\* has heard, and the frames to write.
Kid == [alive : BOOLEAN, greeting : 0 .. 2, heard : Branch, todo : Seq(Frames)]

\* The login told the server that we are a root without children.
Init ==
  /\ logged_in = TRUE
  /\ distrib_parent = FALSE
  /\ bus = <<>>
  /\ told = Nothing
  /\ cmds = <<>>
  /\ dialing = {}
  /\ parents = {}
  /\ upstream = 0
  /\ attached = FALSE
  /\ branch = Root
  /\ speeds \in Speeds
  /\ children = [c \in {} |-> {}]
  /\ next_child = 1
  /\ news = 0
  /\ stacked = FALSE
  /\ pierced = FALSE
  /\ drops = 0

RoomToQueue == Len(bus) + Len(cmds) < MaxQueued

-----------------------------------------------------------------------------
(* Children. *)

MAX_DISTRIB_CHILDREN == 10

ComputeMaxChildren(s) ==
  IF s.ratio > 0 /\ s.speed >= s.min_speed
  THEN LET fit == (s.speed \div s.ratio) \div 100
       IN  IF fit < MAX_DISTRIB_CHILDREN THEN fit ELSE MAX_DISTRIB_CHILDREN
  ELSE 0

Alive == {c \in DOMAIN children : children[c].alive}

\* Faulty: a child that has not heard the greeting yet is left out.
ForwardToGreeted(frames) ==
  children' = [c \in Alive |-> IF children[c].greeting = 0
                               THEN [children[c] EXCEPT !.todo = @ \o frames]
                               ELSE children[c]]

\* forward_to_children: queue frames for every child, and prune those whose
\* task has gone.
ForwardToChildren(frames) ==
  children' = [c \in Alive |-> [children[c] EXCEPT !.todo = @ \o frames]]

\* An inbound child is registered and its greeting snapshot taken, unless we
\* are at capacity.
AdoptChild(c) ==
  /\ c = next_child /\ next_child' = next_child + 1
  /\ RoomToQueue
  /\ Cardinality(DOMAIN children) < ComputeMaxChildren(speeds)
  /\ children' = [d \in DOMAIN children \cup {c} |->
                    IF d = c THEN [alive |-> TRUE, greeting |-> 2, heard |-> Root,
                                   todo |-> Position(branch)]
                    ELSE children[d]]
  /\ cmds' = Append(cmds, AdvertiseBranch)
  /\ UNCHANGED <<session, bus, feeds, tree, history>>

\* The task writes the next frame.
WriteToChild(c) ==
  /\ c \in Alive /\ children[c].todo # <<>>
  /\ LET kid == children[c]
         f   == Head(kid.todo)
     IN  children' = [children EXCEPT ![c] =
           [kid EXCEPT !.todo = Tail(@), !.heard[f.field] = f.value,
                       !.greeting = IF @ > 0 THEN @ - 1 ELSE 0]]
  /\ UNCHANGED <<session, bus, cmds, feeds, tree, next_child, history>>

\* A write of the greeting fails: the task ends, its registration stays.
GreetingFails(c) ==
  /\ c \in Alive /\ children[c].greeting > 0
  /\ children' = [children EXCEPT ![c].alive = FALSE]
  /\ UNCHANGED <<session, bus, cmds, feeds, tree, next_child, history>>

\* A later write, or the keepalive ping, fails.
ChildLeaves(c) ==
  /\ c \in Alive /\ children[c].greeting = 0
  /\ RoomToQueue
  /\ children' = Restrict(children, DOMAIN children \ {c})
  /\ cmds' = Append(cmds, AdvertiseBranch)
  /\ UNCHANGED <<session, bus, feeds, tree, next_child, history>>

-----------------------------------------------------------------------------
(* The server and session. *)

Publish(m) == bus' = Append(bus, m)

\* Faulty: every list is taken up.
PossibleParentsAlways ==
  /\ logged_in /\ upstream < MaxConns /\ RoomToQueue
  /\ upstream' = upstream + 1
  /\ distrib_parent' = TRUE
  /\ Publish(DistribConnect)
  /\ UNCHANGED <<logged_in, told, cmds, dialing, parents, tree, kids, history>>

\* A list of candidates: we adopt the first, unless we asked for one before.
PossibleParents ==
  /\ logged_in /\ ~distrib_parent /\ upstream < MaxConns /\ RoomToQueue
  /\ upstream' = upstream + 1
  /\ distrib_parent' = TRUE
  /\ Publish(DistribConnect)
  /\ UNCHANGED <<logged_in, told, cmds, dialing, parents, tree, kids, history>>

\* The server relays a peer's ConnectToPeer for a D connection.
ConnectToPeerD ==
  /\ logged_in /\ upstream < MaxConns /\ RoomToQueue
  /\ upstream' = upstream + 1
  /\ pierced' = TRUE
  /\ Publish(PierceDistrib)
  /\ UNCHANGED <<logged_in, distrib_parent, told, cmds, dialing, parents, tree, kids, news,
                 stacked, drops>>

\* The server feeds a root searches itself (at most one on its way here).
EmbeddedMessage ==
  /\ logged_in /\ RoomToQueue /\ RelaySearch \notin Range(bus) \cup Range(cmds)
  /\ Publish(RelaySearch)
  /\ UNCHANGED <<session, cmds, feeds, tree, kids, history>>

\* The link is lost; parents' and children's connections are not.
NetConnClosed ==
  /\ logged_in /\ drops < MaxDrops
  /\ logged_in' = FALSE
  /\ distrib_parent' = FALSE
  /\ drops' = drops + 1
  /\ UNCHANGED <<told, bus, cmds, feeds, tree, kids, news, stacked, pierced>>

\* A later login presents us as a root without children.
LoginResponse ==
  /\ ~logged_in /\ RoomToQueue
  /\ logged_in' = TRUE
  /\ told' = Nothing
  /\ Publish(Advert(Root, FALSE))
  /\ UNCHANGED <<distrib_parent, cmds, feeds, tree, kids, history>>

\* ParentMinSpeed, ParentSpeedRatio, or the speed of a finished upload.
SpeedsChange(s) ==
  /\ speeds' = s
  /\ UNCHANGED <<session, bus, cmds, feeds, attached, branch, kids, history>>

-----------------------------------------------------------------------------
(* The bus: peer_net's forwarding handlers, and net_edge's writes. *)

Forwarded == {"DistribConnect", "PierceDistrib", "RelayDistribSearch"}

BusToReactor ==
  /\ bus # <<>> /\ Head(bus).kind \in Forwarded
  /\ bus' = Tail(bus)
  /\ cmds' = Append(cmds, Head(bus))
  /\ UNCHANGED <<session, feeds, tree, kids, history>>

BusToServer ==
  /\ bus # <<>> /\ Head(bus).kind = "Advert"
  /\ bus' = Tail(bus)
  /\ told' = IF logged_in THEN Head(bus).view ELSE told
  /\ UNCHANGED <<logged_in, distrib_parent, cmds, feeds, tree, kids, history>>

-----------------------------------------------------------------------------
(* The command loop. *)

NextCmd(kinds) == cmds # <<>> /\ Head(cmds).kind \in kinds

\* One more parent task; connections are numbered as they are dialed.
CmdDistribConnect ==
  /\ NextCmd({"DistribConnect", "PierceDistrib"})
  /\ cmds' = Tail(cmds)
  /\ LET dialed == dialing \cup parents
     IN  /\ dialing' = dialing \cup {CHOOSE c \in Conns \ dialed : TRUE}
         /\ stacked' = (stacked \/ dialed # {})
  /\ UNCHANGED <<session, bus, parents, upstream, tree, kids, news, pierced, drops>>

\* Faulty: accepts children whether or not we have searches to relay.
CmdAdvertiseDetached ==
  /\ NextCmd({"AdvertiseBranch"})
  /\ cmds' = Tail(cmds)
  /\ Publish(Advert(branch, Cardinality(DOMAIN children) < ComputeMaxChildren(speeds)))
  /\ UNCHANGED <<session, feeds, tree, kids, history>>

CmdAdvertiseBranch ==
  /\ NextCmd({"AdvertiseBranch"})
  /\ cmds' = Tail(cmds)
  /\ Publish(Advert(branch,
               attached /\ Cardinality(DOMAIN children) < ComputeMaxChildren(speeds)))
  /\ UNCHANGED <<session, feeds, tree, kids, history>>

\* A search from the server: from now on we are attached.
CmdRelayDistribSearch ==
  /\ NextCmd({"RelayDistribSearch"})
  /\ attached' = TRUE
  /\ cmds' = IF attached THEN Tail(cmds) ELSE Append(Tail(cmds), AdvertiseBranch)
  /\ ForwardToChildren(<<>>)
  /\ UNCHANGED <<session, bus, feeds, branch, speeds, next_child, history>>

-----------------------------------------------------------------------------
(* A parent's task. *)

DialFails(c) ==
  /\ c \in dialing
  /\ dialing' = dialing \ {c}
  /\ UNCHANGED <<session, bus, cmds, parents, upstream, tree, kids, history>>

\* Faulty: the first news, not the connection, attaches us.
ParentConnectsDetached(c) ==
  /\ c \in dialing
  /\ dialing' = dialing \ {c}
  /\ parents' = parents \cup {c}
  /\ UNCHANGED <<session, bus, cmds, upstream, tree, kids, history>>

ParentConnects(c) ==
  /\ c \in dialing
  /\ dialing' = dialing \ {c}
  /\ parents' = parents \cup {c}
  /\ attached' = TRUE
  /\ UNCHANGED <<session, bus, cmds, upstream, branch, speeds, kids, history>>

Announced ==
  /\ news < MaxNews /\ RoomToQueue
  /\ news' = news + 1
  /\ cmds' = Append(cmds, AdvertiseBranch)
  /\ UNCHANGED <<session, bus, feeds, attached, speeds, next_child, stacked, pierced, drops>>

\* Our level is one below the parent's.
LevelUnder(level) == (IF level > 0 THEN level ELSE 0) + 1

OnBranchLevel(c, level) ==
  /\ c \in parents
  /\ branch' = [branch EXCEPT !.level = LevelUnder(level)]
  /\ ForwardToChildren(<<Frame("level", LevelUnder(level))>>)
  /\ Announced

OnBranchRoot(c, root) ==
  /\ c \in parents
  /\ branch' = [branch EXCEPT !.root = root]
  /\ ForwardToChildren(<<Frame("root", root)>>)
  /\ Announced

OnSearch(c) ==
  /\ c \in parents
  /\ ForwardToChildren(<<>>)
  /\ UNCHANGED <<session, bus, cmds, feeds, tree, next_child, history>>

\* Faulty: nobody is told that we are a root again.
ParentEndsQuietly(c) ==
  /\ c \in parents /\ RoomToQueue
  /\ parents' = parents \ {c}
  /\ attached' = FALSE
  /\ branch' = Root
  /\ ForwardToChildren(Position(Root))
  /\ UNCHANGED <<session, bus, cmds, dialing, upstream, speeds, next_child, history>>

\* The connection ends: we are a root again, detached.
ParentEnds(c) ==
  /\ c \in parents /\ RoomToQueue
  /\ parents' = parents \ {c}
  /\ attached' = FALSE
  /\ branch' = Root
  /\ ForwardToChildren(Position(Root))
  /\ cmds' = Append(cmds, AdvertiseBranch)
  /\ UNCHANGED <<session, bus, dialing, upstream, speeds, next_child, history>>

-----------------------------------------------------------------------------
Server == \/ PossibleParents \/ ConnectToPeerD \/ EmbeddedMessage
          \/ NetConnClosed \/ LoginResponse

BusWorker == BusToReactor \/ BusToServer

CommandLoop == CmdDistribConnect \/ CmdAdvertiseBranch \/ CmdRelayDistribSearch

Parent(c) ==
  \/ DialFails(c) \/ ParentConnects(c) \/ OnSearch(c) \/ ParentEnds(c)
  \/ \E level \in Levels : OnBranchLevel(c, level)
  \/ \E root \in Roots : OnBranchRoot(c, root)

Child(c) == AdoptChild(c) \/ WriteToChild(c) \/ GreetingFails(c) \/ ChildLeaves(c)

Next ==
  \/ Server \/ BusWorker \/ CommandLoop
  \/ \E s \in Speeds : SpeedsChange(s)
  \/ \E c \in Conns : Parent(c)
  \/ \E c \in Kids : Child(c)

Spec == Init /\ [][Next]_vars

-----------------------------------------------------------------------------
\* Every variable keeps its type, and children never outnumber the largest
\* capacity we had.
TypeOK ==
  /\ logged_in \in BOOLEAN /\ distrib_parent \in BOOLEAN
  /\ \A m \in Range(bus) : m.kind \in Forwarded \cup {"Advert"}
  /\ \A m \in Range(cmds) : m.kind \in Forwarded \cup {"AdvertiseBranch"}
  /\ told \in [level : Nat, root : Roots \cup {OurName}, accept : BOOLEAN]
  /\ dialing \subseteq Conns /\ parents \subseteq Conns
  /\ upstream \in 0 .. MaxConns
  /\ attached \in BOOLEAN /\ branch \in Branch /\ speeds \in Speeds
  /\ DOMAIN children \subseteq Kids
  /\ \E s \in Speeds : Cardinality(DOMAIN children) <= ComputeMaxChildren(s)
  /\ children \in [DOMAIN children -> Kid]
  /\ next_child \in Nat \ {0}
  /\ news \in 0 .. MaxNews /\ drops \in 0 .. MaxDrops
  /\ stacked \in BOOLEAN /\ pierced \in BOOLEAN

\* One search feed: session asks for a parent only once ("adopt at most one"),
\* so without a lost link or an indirect connection there never are two.
OneParent ==
  drops = 0 /\ ~pierced => ~stacked /\ Cardinality(dialing \cup parents) <= 1

\* We know that we have a parent, "or the server is feeding us", as long as
\* parents never overlapped.
AttachedWhileFed == parents # {} /\ ~stacked => attached

\* Without a parent we are "our own branch root": no position outlives the
\* connection it came from.
RootWithoutParent == parents = {} => branch = Root

\* What a child has heard, once everything under way to it is written.
WillHear(c, field) ==
  LET kid  == children[c]
      news_of == {i \in DOMAIN kid.todo : kid.todo[i].field = field}
  IN  IF news_of = {} THEN kid.heard[field]
      ELSE kid.todo[CHOOSE i \in news_of : \A j \in news_of : j <= i].value

\* Every child is on its way to our position: a parent's news reaches also those
\* whose greeting is half written, and the greeting never overwrites it.
ChildrenFollow ==
  \A c \in Alive : \A field \in {"level", "root"} : WillHear(c, field) = branch[field]

AdvertUnderWay == AdvertiseBranch \in Range(cmds) \/ \E m \in Range(bus) : m.kind = "Advert"

\* The server sends us children "only [...] while attached": it never goes on
\* believing that we accept some while nothing feeds us.
AcceptOnlyAttached == logged_in /\ told.accept /\ ~AdvertUnderWay => attached

\* Our place in the tree hangs together, whatever ended or dropped in whichever
\* order: types and capacity, no position without a parent, and no server that
\* goes on sending children to a node that nothing feeds.
WellFormed == TypeOK /\ RootWithoutParent /\ AcceptOnlyAttached

\* The server knows our position once nothing is under way: an advertisement
\* follows every change of it ("sent whenever a parent updates our level/root").
PositionIsTold ==
  logged_in /\ ~AdvertUnderWay => told.level = branch.level /\ told.root = branch.root

\* The same as long as the link to the server has not dropped.
PositionIsToldWhileLinked == drops = 0 => PositionIsTold
=============================================================================
