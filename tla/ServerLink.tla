----------------------------- MODULE ServerLink -----------------------------
(***************************************************************************)
(* The link to the Soulseek server: net_edge's connector threads and the   *)
(* write half it holds, the session's login state, and the bus between     *)
(* them.                                                                   *)
(*                                                                         *)
(* Actors: one thread per connection attempt (it connects, hands the write *)
(* half over, announces the connection, then reads until the end), the bus *)
(* worker (one action per message, the handlers of its route in order),    *)
(* the server, and the user who saves settings at any time.  Nothing       *)
(* reconnects but a saved configuration, and every saved configuration     *)
(* does, whatever the old connection's thread is doing.                    *)
(*                                                                         *)
(* missed, drained, rushed and late are history: they only remember in     *)
(* which circumstances a connection was replaced or started, for the       *)
(* properties to name the connections they speak of.                       *)
(***************************************************************************)
EXTENDS Naturals, Sequences, FiniteSets, Functions

CONSTANTS
  MaxConns,   \* bound: connections started
  MaxSaves,   \* bound: configurations saved
  MaxHangUps  \* bound: connections closed when the server hangs up of its own accord

ASSUME ServerLinkAssumption ==
  MaxConns \in Nat \ {0} /\ MaxSaves \in Nat /\ MaxHangUps \in Nat

VARIABLES
  phase,      \* per connection, what its thread does
  opened,     \* per connection, the configuration it was opened for
  latest,     \* connections started so far
  write_rx,   \* NetEdge::write_rx, write halves handed over
  sock,       \* NetEdge::sock, 0 for None
  shut,       \* connections whose socket was shut down
  bus,
  state,      \* Session::state
  config,     \* the configuration session has, a version number
  saves,      \* configurations saved
  logins,     \* server: <<connection, version>> of the logins it received
  answered,   \* server: connections whose login it answered
  hung_up,    \* server: connections it closed
  missed,     \* history: connections still connecting when a saved change dropped the link
  drained,    \* history: connections whose unused write half a saved change dropped
  rushed,     \* history: connections started while a login was on its way to net_edge
  late        \* history: connections announced while an older one was still alive

edge   == <<latest, opened, write_rx, sock, shut>>
sess   == <<state, config>>
server == <<logins, answered, hung_up>>
past   == <<missed, drained, rushed, late>>
vars   == <<phase, edge, bus, sess, saves, server, past>>

Conns == 1 .. MaxConns

Phases == {"none", "connecting", "handed", "reading", "done"}

Connected(g)      == [kind |-> "Connected", conn |-> g]
Down(g)           == [kind |-> "Down", conn |-> g]  \* NetConn Failed or Closed
LoginAnswer(ok)   == [kind |-> "LoginAnswer", ok |-> ok]
Login(v)          == [kind |-> "Login", version |-> v]
Frames            == [kind |-> "Frames"]            \* any other NetTx
ConfigChanged(on, v) == [kind |-> "ConfigChanged", configured |-> on, version |-> v]

Messages ==
  {Connected(g) : g \in Conns} \cup {Down(g) : g \in {0} \cup Conns}
    \cup {LoginAnswer(ok) : ok \in BOOLEAN} \cup {Login(v) : v \in 0..MaxSaves} \cup {Frames}
    \cup {ConfigChanged(on, v) : on \in BOOLEAN, v \in 1..MaxSaves}

\* on_start with credentials configured.
Init ==
  /\ phase = [g \in Conns |-> IF g = 1 THEN "connecting" ELSE "none"]
  /\ opened = [g \in Conns |-> 0]
  /\ latest = 1
  /\ write_rx = <<>>
  /\ sock = 0
  /\ shut = {}
  /\ bus = <<>>
  /\ state = "Disconnected"
  /\ config = 0
  /\ saves = 0
  /\ logins = {}
  /\ answered = {}
  /\ hung_up = {}
  /\ missed = {} /\ drained = {} /\ rushed = {} /\ late = {}

-----------------------------------------------------------------------------
(* connect_and_read, the thread of connection g. *)

Alive(g) == phase[g] \notin {"none", "done"}

Goes(g, from, to) == phase[g] = from /\ phase' = [phase EXCEPT ![g] = to]

ConnectFails(g) ==
  /\ Goes(g, "connecting", "done")
  /\ bus' = Append(bus, Down(g))
  /\ UNCHANGED <<edge, sess, saves, server, past>>

HandWriteHalf(g) ==
  /\ Goes(g, "connecting", "handed")
  /\ write_rx' = Append(write_rx, g)
  /\ UNCHANGED <<latest, opened, sock, shut, bus, sess, saves, server, past>>

Announce(g) ==
  /\ Goes(g, "handed", "reading")
  /\ bus' = Append(bus, Connected(g))
  /\ late' = late \cup {h \in {g} : \E older \in Conns : older < g /\ Alive(older)}
  /\ UNCHANGED <<edge, sess, saves, server, missed, drained, rushed>>

\* The reader ends: our side was shut down, or the server hung up.
ReadEnd(g) ==
  /\ g \in shut \cup hung_up
  /\ Goes(g, "reading", "done")
  /\ bus' = Append(bus, Down(g))
  /\ UNCHANGED <<edge, sess, saves, server, past>>

-----------------------------------------------------------------------------
(* The server. *)

\* It answers the login of a connection once, and the reader publishes it.
AnswerLogin(g, ok) ==
  /\ phase[g] = "reading"
  /\ g \notin answered \cup hung_up \cup shut
  /\ \E v \in 0..MaxSaves : <<g, v>> \in logins
  /\ answered' = answered \cup {g}
  /\ hung_up' = IF ok THEN hung_up ELSE hung_up \cup {g}
  /\ bus' = Append(bus, LoginAnswer(ok))
  /\ UNCHANGED <<phase, edge, sess, saves, logins, past>>

HangUp(g) ==
  /\ phase[g] \in {"handed", "reading"} /\ g \notin hung_up
  /\ Cardinality(hung_up) < MaxHangUps
  /\ hung_up' = hung_up \cup {g}
  /\ UNCHANGED <<phase, edge, bus, sess, saves, logins, answered, past>>

-----------------------------------------------------------------------------
(* The bus worker: session and net_edge. *)

Handled(kind) == bus # <<>> /\ Head(bus).kind = kind

BusConnected ==
  /\ Handled("Connected")
  /\ state' = "AwaitingLogin"
  /\ bus' = Append(Tail(bus), Login(config))
  /\ UNCHANGED <<phase, edge, config, saves, server, past>>

\* Faulty: only a login under way is given up.
BusDownWhileAwaiting ==
  /\ Handled("Down")
  /\ state' = IF state = "AwaitingLogin" THEN "Disconnected" ELSE state
  /\ bus' = Tail(bus)
  /\ UNCHANGED <<phase, edge, config, saves, server, past>>

BusDown ==
  /\ Handled("Down")
  /\ state' = "Disconnected"
  /\ bus' = Tail(bus)
  /\ UNCHANGED <<phase, edge, config, saves, server, past>>

\* Faulty: the state is left as it was.
BusLoginAnswerMute ==
  /\ Handled("LoginAnswer")
  /\ bus' = IF Head(bus).ok THEN Append(Tail(bus), Frames) ELSE Tail(bus)
  /\ UNCHANGED <<phase, edge, sess, saves, server, past>>

\* Logged in, the session joins the search tree: more frames to the server.
BusLoginAnswer ==
  /\ Handled("LoginAnswer")
  /\ \/ /\ Head(bus).ok
        /\ state' = "LoggedIn"
        /\ bus' = Append(Tail(bus), Frames)
     \/ /\ ~Head(bus).ok
        /\ state' = "Disconnected"
        /\ bus' = Tail(bus)
  /\ UNCHANGED <<phase, edge, config, saves, server, past>>

\* Faulty: writes first, then takes the new write half.
BusNetTxLate ==
  /\ bus # <<>> /\ Head(bus).kind \in {"Login", "Frames"}
  /\ bus' = Tail(bus)
  /\ sock' = IF write_rx = <<>> THEN sock ELSE write_rx[Len(write_rx)]
  /\ write_rx' = <<>>
  /\ logins' = IF sock # 0 /\ Head(bus).kind = "Login" /\ sock \notin shut \cup hung_up
               THEN logins \cup {<<sock, Head(bus).version>>} ELSE logins
  /\ UNCHANGED <<phase, latest, opened, shut, sess, saves, answered, hung_up, past>>

\* NetTx: take the newest write half handed over, and write to it, whatever
\* becomes of the bytes.
BusNetTx ==
  /\ bus # <<>> /\ Head(bus).kind \in {"Login", "Frames"}
  /\ bus' = Tail(bus)
  /\ sock' = IF write_rx = <<>> THEN sock ELSE write_rx[Len(write_rx)]
  /\ write_rx' = <<>>
  /\ logins' = IF sock' # 0 /\ Head(bus).kind = "Login" /\ sock' \notin shut \cup hung_up
               THEN logins \cup {<<sock', Head(bus).version>>} ELSE logins
  /\ UNCHANGED <<phase, latest, opened, shut, sess, saves, answered, hung_up, past>>

\* Faulty: the old write half is kept.
DisconnectKeepingSock == UNCHANGED <<sock, write_rx, shut, drained>>

\* Shut the socket in use, forget it and every write half handed over.
Disconnect ==
  /\ shut' = IF sock = 0 THEN shut ELSE shut \cup {sock}
  /\ sock' = 0
  /\ write_rx' = <<>>
  /\ drained' = drained \cup Range(write_rx)

\* Faulty: the login keeps the credentials the program started with.
SessionConfigKept(v) == config' = config

SessionConfigChanged(v) == config' = v

\* session takes the credentials, then net_edge drops the link and, when they
\* name a user, starts a connection.  A connection still connecting has handed
\* nothing over yet, and goes on.
BusConfigChanged ==
  /\ Handled("ConfigChanged")
  /\ SessionConfigChanged(Head(bus).version)
  /\ Disconnect
  /\ missed' = missed \cup {g \in Conns : phase[g] = "connecting"}
  /\ \/ /\ Head(bus).configured
        /\ latest' = latest + 1
        /\ opened' = [opened EXCEPT ![latest + 1] = Head(bus).version]
        /\ phase' = [phase EXCEPT ![latest + 1] = "connecting"]
        /\ bus' = Tail(bus)
        /\ rushed' = rushed \cup {g \in {latest + 1} : \E m \in Range(bus) : m.kind = "Login"}
     \/ /\ ~Head(bus).configured
        /\ bus' = Append(Tail(bus), Down(0))
        /\ UNCHANGED <<latest, opened, phase, rushed>>
  /\ UNCHANGED <<state, saves, server, late>>

-----------------------------------------------------------------------------
Ended == \A g \in Conns : ~ Alive(g)

\* The user saves settings (config_store publishes them), whatever the link and
\* the session are doing.
Save(on) ==
  /\ saves < MaxSaves /\ saves + 1 < MaxConns
  /\ saves' = saves + 1
  /\ bus' = Append(bus, ConfigChanged(on, saves + 1))
  /\ UNCHANGED <<phase, edge, sess, server, past>>

Thread(g) == ConnectFails(g) \/ HandWriteHalf(g) \/ Announce(g) \/ ReadEnd(g)

BusWorker == BusConnected \/ BusDown \/ BusLoginAnswer \/ BusNetTx \/ BusConfigChanged

Next ==
  \/ \E g \in Conns : Thread(g) \/ HangUp(g) \/ \E ok \in BOOLEAN : AnswerLogin(g, ok)
  \/ BusWorker
  \/ \E on \in BOOLEAN : Save(on)

Spec == Init /\ [][Next]_vars

\* Threads and the bus worker run on, and the server answers a login unless it
\* hangs up.  The user need not save, nor the server hang up.
FairSpec ==
  /\ Spec
  /\ WF_vars(BusWorker)
  /\ \A g \in Conns : WF_vars(Thread(g) \/ \E ok \in BOOLEAN : AnswerLogin(g, ok))

-----------------------------------------------------------------------------
\* Every variable keeps its type.
TypeOK ==
  /\ phase \in [Conns -> Phases]
  /\ opened \in [Conns -> 0..MaxSaves]
  /\ latest \in Conns
  /\ write_rx \in Seq(Conns)
  /\ sock \in {0} \cup Conns
  /\ shut \subseteq Conns
  /\ bus \in Seq(Messages)
  /\ state \in {"Disconnected", "AwaitingLogin", "LoggedIn"}
  /\ config \in 0..MaxSaves /\ saves \in 0..MaxSaves
  /\ logins \subseteq Conns \X (0..MaxSaves)
  /\ answered \subseteq Conns /\ hung_up \subseteq Conns
  /\ missed \subseteq Conns /\ drained \subseteq Conns
  /\ rushed \subseteq Conns /\ late \subseteq Conns

\* What is written goes to the connection opened last: a saved change leaves no
\* old socket for "the next NetTx" to pick up, neither the one it shut nor a write
\* half it drained.  Only a connection that was still connecting at the change, and
\* hands its half over later, gets written to in spite of it.
SockIsLatest ==
  sock # 0 => sock \notin shut \cup drained /\ (sock = latest \/ sock \in missed)

\* A login carries the credentials its connection was opened for: a saved change
\* "take[s] effect without a restart", and at once.  Not so on a connection the
\* change missed, nor on one that was started with the old login still on its way.
LoginIsFresh ==
  \A l \in logins : l[2] = opened[l[1]] \/ l[1] \in missed \cup rushed

\* The server answered the login of the connection opened last and the link stands
\* (a server that refuses a login closes the connection).
LinkStands ==
  /\ sock = latest /\ phase[latest] = "reading"
  /\ latest \in answered \ (hung_up \cup shut)

\* With nothing left on the bus, the session is logged in when that link stands:
\* it "re-logs in on Connected" after a saved change, and stays so, when the older
\* connections were over at the time the new one was announced.
SessionMatchesLink == bus = <<>> /\ LinkStands /\ latest \notin late => state = "LoggedIn"

\* Nobody is logged in over a dead link once every thread has ended and its
\* events are handled.
NoGhostSession == bus = <<>> /\ Ended => state = "Disconnected"

\* The session is what the link makes of it: every variable has its type, and
\* nobody stays logged in over a link that has ended.
WellFormed == TypeOK /\ NoGhostSession

\* The connection opened last, when the server keeps it open and no saved change
\* drops it, gets its login answered, as its login frame finds its write half,
\* whatever came first, unless an older connection that the change missed hands its
\* own half over.  And the session becomes logged in, or an older connection was
\* still there to be announced after it.
LoginCompletes ==
  []<> \/ phase[latest] # "reading"
       \/ latest \in answered /\ (state = "LoggedIn" \/ latest \in late)
       \/ latest \in hung_up \cup shut \cup drained
       \/ missed \ {latest} # {}
=============================================================================
