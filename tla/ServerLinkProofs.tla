-------------------------- MODULE ServerLinkProofs --------------------------
(***************************************************************************)
(* Settings are saved at any time, so several connections may be alive.    *)
(* The inductive invariant follows the write halves (which of them         *)
(* net_edge may still write to, and with which credentials) and what is    *)
(* still on the bus behind the last word on the link.                      *)
(***************************************************************************)
EXTENDS ServerLink, TLAPS, SequenceTheorems

-----------------------------------------------------------------------------
(* The bus.  A step takes k messages, none or one, and may send m. *)

Sent == 1 .. Len(bus)

Moves(k, m) ==
  /\ Len(bus) \in Nat /\ k \in {0, 1}
  /\ k = 1 => 1 \in Sent /\ Head(bus) = bus[1] /\ bus[1] \in Messages
  /\ \A i \in Sent : i > k => i - k \in Sent' /\ bus'[i - k] = bus[i]
  /\ \A i \in Sent' : i + k \in Sent => bus'[i] = bus[i + k]
  /\ \A i \in Sent' : i + k \notin Sent => bus'[i] = m

Adds(m) == Len(bus') \in Sent' /\ bus'[Len(bus')] = m

LEMMA Stays ==
  ASSUME bus \in Seq(Messages), bus' = bus
  PROVE  bus' \in Seq(Messages) /\ Moves(0, Frames)
BY DEF Moves, Sent

LEMMA Appended ==
  ASSUME bus \in Seq(Messages), NEW m \in Messages, bus' = Append(bus, m)
  PROVE  bus' \in Seq(Messages) /\ Moves(0, m) /\ Adds(m)
BY DEF Moves, Adds, Sent

LEMMA Taken ==
  ASSUME bus \in Seq(Messages), bus # <<>>, bus' = Tail(bus)
  PROVE  bus' \in Seq(Messages) /\ Moves(1, Frames)
BY DEF Moves, Sent

LEMMA Relayed ==
  ASSUME bus \in Seq(Messages), bus # <<>>, NEW m \in Messages, bus' = Append(Tail(bus), m)
  PROVE  bus' \in Seq(Messages) /\ Moves(1, m) /\ Adds(m)
<1>1. Tail(bus) \in Seq(Messages) /\ Len(Tail(bus)) = Len(bus) - 1
  OBVIOUS
<1>2. \A i \in 1 .. Len(bus) - 1 : Tail(bus)[i] = bus[i + 1]
  OBVIOUS
<1>3. Len(bus') = Len(bus) /\ bus'[Len(bus)] = m /\ bus' \in Seq(Messages)
  BY <1>1
<1>4. \A i \in 1 .. Len(bus) - 1 : bus'[i] = bus[i + 1]
  BY <1>1, <1>2
<1>5. Len(bus) \in Nat \ {0} /\ Head(bus) = bus[1] /\ bus[1] \in Messages
  OBVIOUS
<1>6. \A i \in Sent : i > 1 => i - 1 \in Sent' /\ bus'[i - 1] = bus[i]
  <2> SUFFICES ASSUME NEW i \in Sent, i > 1
               PROVE  i - 1 \in Sent' /\ bus'[i - 1] = bus[i]
    OBVIOUS
  <2>1. i - 1 \in 1 .. Len(bus) - 1 /\ (i - 1) + 1 = i
    BY <1>5 DEF Sent
  <2>2. bus'[i - 1] = bus[(i - 1) + 1]
    BY <1>4, <2>1
  <2>3. QED
    BY <1>3, <1>5, <2>1, <2>2 DEF Sent
<1>7. Sent' = Sent
  BY <1>3 DEF Sent
<1>8. \A i \in Sent : i # Len(bus) => i \in 1 .. Len(bus) - 1 /\ i + 1 \in Sent
  BY <1>5 DEF Sent
<1>9. \A i \in Sent' : i + 1 \in Sent => bus'[i] = bus[i + 1]
  BY <1>4, <1>5, <1>7 DEF Sent
<1>10. Len(bus') = Len(bus) /\ bus'[Len(bus)] = m /\ Len(bus) \in Sent /\ 1 \in Sent
  BY <1>3, <1>5 DEF Sent
<1>11. \A i \in Sent' : i + 1 \notin Sent => bus'[i] = m
  BY <1>7, <1>8, <1>10
<1>12. Moves(1, m)
  BY <1>5, <1>6, <1>9, <1>10, <1>11 DEF Moves
<1>13. QED
  BY <1>3, <1>7, <1>10, <1>12 DEF Adds

LEMMA Kinds ==
  /\ Frames \in Messages /\ Frames.kind = "Frames"
  /\ \A g \in {0} \cup Conns : Down(g) \in Messages /\ Down(g).kind = "Down"
  /\ \A g \in Conns : Connected(g) \in Messages /\ Connected(g).kind = "Connected"
  /\ \A ok \in BOOLEAN : /\ LoginAnswer(ok) \in Messages
                         /\ LoginAnswer(ok).kind = "LoginAnswer" /\ LoginAnswer(ok).ok = ok
  /\ \A v \in 0..MaxSaves : /\ Login(v) \in Messages
                            /\ Login(v).kind = "Login" /\ Login(v).version = v
<1>1. Frames \in Messages /\ Frames.kind = "Frames"
  BY DEF Messages, Frames
<1>2. \A g \in {0} \cup Conns : Down(g) \in Messages /\ Down(g).kind = "Down"
  BY DEF Messages, Down
<1>3. \A g \in Conns : Connected(g) \in Messages /\ Connected(g).kind = "Connected"
  BY DEF Messages, Connected
<1>4. \A ok \in BOOLEAN : /\ LoginAnswer(ok) \in Messages
                         /\ LoginAnswer(ok).kind = "LoginAnswer" /\ LoginAnswer(ok).ok = ok
  BY DEF Messages, LoginAnswer
<1>5. \A v \in 0..MaxSaves : /\ Login(v) \in Messages
                            /\ Login(v).kind = "Login" /\ Login(v).version = v
  BY DEF Messages, Login
<1>6. QED
  BY <1>1, <1>2, <1>3, <1>4, <1>5

LEMMA Versions ==
  ASSUME NEW m \in Messages, m.kind \in {"Login", "ConfigChanged"}
  PROVE  m.version \in 0 .. MaxSaves
BY DEF Messages, Login, Connected, Down, LoginAnswer, Frames, ConfigChanged

LEMMA Answers ==
  ASSUME NEW m \in Messages, m.kind = "LoginAnswer", m.ok
  PROVE  m = LoginAnswer(TRUE)
BY DEF Messages, Login, Connected, Down, LoginAnswer, Frames, ConfigChanged

-----------------------------------------------------------------------------
(* The inductive invariant. *)

IsChange(m) == m.kind = "ConfigChanged"

\* The changes on the bus are newer than every connection, and in order.
Counted ==
  /\ saves < MaxConns /\ latest <= saves + 1
  /\ \A i \in Sent : IsChange(bus[i]) => latest <= bus[i].version /\ bus[i].version <= saves
  /\ \A i, j \in Sent : i < j /\ IsChange(bus[i]) /\ IsChange(bus[j]) =>
       bus[i].version < bus[j].version
  /\ \A g \in Conns : g > latest => phase[g] = "none"

Waits(g) == \E i \in 1 .. Len(write_rx) : write_rx[i] = g

Unborn(g) == phase[g] \in {"none", "connecting"}

\* The write halves net_edge writes to, or may take up, are none it gave away.
Halves ==
  /\ \A g \in Conns : g = sock \/ Waits(g) => ~ Unborn(g) /\ g \notin shut \cup drained
  /\ \A g \in shut \cup drained : ~ Unborn(g)

\* What travels to connection g is of its own credentials.
Suited(g) ==
  /\ g = latest /\ opened[g] = config
  /\ g \in rushed \/ \A i \in Sent : bus[i].kind = "Login" => bus[i].version = config

Fits == \A g \in Conns : g = sock \/ Waits(g) \/ phase[g] = "connecting" =>
                           g \in missed \/ Suited(g)

\* The logins the server has.
Fresh ==
  /\ LoginIsFresh
  /\ \A l \in logins : l[1] <= latest /\ ~ Unborn(l[1]) /\ ~ Waits(l[1])
  /\ \A g \in answered : phase[g] \in {"reading", "done"} /\ \E l \in logins : l[1] = g

\* Connections announced in good order have no older one beside them.
Alone ==
  phase[latest] = "reading" /\ latest \notin late =>
    \A g \in Conns : g < latest => ~ Alive(g)

Turns(m) == m.kind \in {"Connected", "Down", "LoginAnswer"}

\* What the server answered is known to the session, or on its way, and nothing
\* behind it says otherwise.
Told ==
  LinkStands /\ latest \notin late =>
    \/ state = "LoggedIn" /\ \A i \in Sent : ~ Turns(bus[i])
    \/ \E i \in Sent : bus[i] = LoginAnswer(TRUE) /\ \A j \in Sent : j > i => ~ Turns(bus[j])

\* The messages that take the session out of Disconnected.
Raises(m) == m.kind \in {"Connected", "LoginAnswer"}

\* Once every connection has ended the session is down, or an end is on the bus
\* with nothing after it that would raise the session again.
Quiet ==
  Ended => \/ state = "Disconnected" /\ \A i \in Sent : ~ Raises(bus[i])
           \/ \E i \in Sent : bus[i].kind = "Down" /\ \A j \in Sent : j > i => ~ Raises(bus[j])

IInv ==
  /\ TypeOK /\ Counted /\ Halves /\ Fits
  /\ Fresh /\ Alone /\ Told /\ Quiet

LEMMA InitIInv == Init => IInv
<1> SUFFICES ASSUME Init
             PROVE  IInv
  OBVIOUS
<1> USE ServerLinkAssumption
<1>0. Len(bus) = 0 /\ Sent = {} /\ 1 \in Conns /\ Len(write_rx) = 0
  BY DEF Init, Sent, Conns
<1>1. TypeOK
  BY <1>0 DEF Init, TypeOK, Conns, Phases
<1>2. Counted /\ Halves
  BY <1>0 DEF Init, Counted, Halves, Waits, Unborn, Conns
<1>3. Fits /\ Fresh
  BY <1>0 DEF Init, Fits, Suited, Fresh, LoginIsFresh, Waits, Conns
<1>4. Alone /\ Told
  BY <1>0 DEF Init, Alone, Told, LinkStands
<1>5. Quiet
  BY <1>0 DEF Init, Quiet
<1>6. QED
  BY <1>1, <1>2, <1>3, <1>4, <1>5 DEF IInv

-----------------------------------------------------------------------------
(* What a step leaves alone keeps its part of the invariant. *)

\* A thread that goes on with what it had handed over, or ends.
Onward ==
  \A g \in Conns : \/ phase'[g] = phase[g]
                   \/ Alive(g) /\ ~ Unborn(g)' /\ (phase[g] = "connecting" => phase'[g] = "done")

LEMMA CountedKept ==
  ASSUME IInv, NEW k \in {0, 1}, NEW m, Moves(k, m), ~ IsChange(m), UNCHANGED <<latest, saves>>,
         \A g \in Conns : phase[g] = "none" => phase'[g] = "none"
  PROVE  Counted'
<1>1. \A i \in Sent' : IsChange(bus'[i]) => i + k \in Sent /\ bus'[i] = bus[i + k]
  BY DEF Moves
<1>2. (saves < MaxConns /\ latest <= saves + 1)'
  BY DEF IInv, Counted
<1>3. \A i \in Sent' : IsChange(bus'[i]) => latest <= bus'[i].version /\ bus'[i].version <= saves
  BY <1>1 DEF IInv, Counted
<1>4. \A i, j \in Sent' : i < j /\ IsChange(bus'[i]) /\ IsChange(bus'[j]) =>
        bus'[i].version < bus'[j].version
  <2> SUFFICES ASSUME NEW i \in Sent', NEW j \in Sent', i < j,
                      IsChange(bus'[i]), IsChange(bus'[j])
               PROVE  bus'[i].version < bus'[j].version
    OBVIOUS
  <2>1. i + k < j + k
    BY DEF Sent, Moves
  <2>2. QED
    BY <1>1, <2>1 DEF IInv, Counted
<1>5. \A g \in Conns : g > latest => phase'[g] = "none"
  BY DEF IInv, Counted
<1>6. QED
  BY <1>2, <1>3, <1>4, <1>5 DEF Counted

LEMMA HalvesKept ==
  ASSUME IInv, Onward, UNCHANGED <<sock, write_rx, shut, drained>>
  PROVE  Halves'
BY DEF IInv, TypeOK, Halves, Onward, Unborn, Waits

LEMMA FitsKept ==
  ASSUME IInv, Onward, NEW k \in {0, 1}, NEW m, Moves(k, m),
         m.kind = "Login" => m.version = config,
         UNCHANGED <<sock, write_rx, latest, opened, config, missed, rushed>>
  PROVE  Fits'
<1>1. ASSUME NEW g \in Conns, Suited(g)
      PROVE  Suited(g)'
  BY <1>1 DEF Suited, Moves
<1>2. \A g \in Conns : phase'[g] = "connecting" => phase[g] = "connecting"
  BY DEF Onward, Unborn
<1>3. QED
  BY <1>1, <1>2 DEF IInv, Fits, Waits

LEMMA FreshKept ==
  ASSUME IInv, Onward, UNCHANGED <<write_rx, latest, opened, logins, missed, rushed>>,
         \A g \in Conns : phase[g] \in {"reading", "done"} => phase'[g] \in {"reading", "done"},
         \A g \in answered' : \/ g \in answered
                              \/ phase'[g] = "reading" /\ \E l \in logins : l[1] = g
  PROVE  Fresh'
<1>1. LoginIsFresh'
  BY DEF IInv, Fresh, LoginIsFresh
<1>2. \A l \in logins : l[1] \in Conns
  BY DEF IInv, TypeOK
<1>3. \A l \in logins' : l[1] <= latest' /\ ~ Unborn(l[1])' /\ ~ Waits(l[1])'
  BY <1>2 DEF IInv, Fresh, Onward, Unborn, Waits
<1>4. \A g \in answered' : phase'[g] \in {"reading", "done"} /\ \E l \in logins' : l[1] = g
  BY DEF IInv, TypeOK, Fresh
<1>5. QED
  BY <1>1, <1>3, <1>4 DEF Fresh

LEMMA AloneKept ==
  ASSUME IInv, UNCHANGED <<latest, late>>,
         \A g \in Conns : Alive(g)' => Alive(g),
         phase'[latest] = "reading" => phase[latest] = "reading"
  PROVE  Alone'
BY DEF IInv, Alone

LEMMA ToldKept ==
  ASSUME IInv, NEW k \in {0, 1}, NEW m, Moves(k, m), ~ Turns(m), k = 1 => ~ Turns(bus[1]),
         state' = state, LinkStands' /\ latest' \notin late' => LinkStands /\ latest \notin late
  PROVE  Told'
<1> SUFFICES ASSUME LinkStands, latest \notin late
             PROVE  \/ state = "LoggedIn" /\ \A i \in Sent' : ~ Turns(bus'[i])
                    \/ \E i \in Sent' : /\ bus'[i] = LoginAnswer(TRUE)
                                       /\ \A j \in Sent' : j > i => ~ Turns(bus'[j])
  BY DEF Told
<1>1. CASE state = "LoggedIn" /\ \A i \in Sent : ~ Turns(bus[i])
  BY <1>1 DEF Moves
<1>2. CASE \E i \in Sent : bus[i] = LoginAnswer(TRUE) /\ \A j \in Sent : j > i => ~ Turns(bus[j])
  <2>1. PICK i \in Sent : bus[i] = LoginAnswer(TRUE) /\ \A j \in Sent : j > i => ~ Turns(bus[j])
    BY <1>2
  <2>2. Turns(bus[i])
    BY <2>1, Kinds DEF Turns
  <2>3. i > k
    BY <2>2 DEF Sent, Moves
  <2>4. i - k \in Sent' /\ bus'[i - k] = bus[i]
    BY <2>3 DEF Moves
  <2>5. \A j \in Sent' : j > i - k => j + k > i
    BY DEF Sent, Moves
  <2>6. \A j \in Sent' : j > i - k => ~ Turns(bus'[j])
    BY <2>1, <2>5 DEF Moves
  <2>7. QED
    BY <2>1, <2>4, <2>6
<1>3. QED
  BY <1>1, <1>2 DEF IInv, Told

LEMMA QuietKept ==
  ASSUME IInv, NEW k \in {0, 1}, NEW m, Moves(k, m), ~ Raises(m), k = 1 => bus[1].kind # "Down",
         state' = state \/ (k = 1 /\ Raises(bus[1])), Ended' => Ended
  PROVE  Quiet'
<1> SUFFICES ASSUME Ended
             PROVE  \/ state' = "Disconnected" /\ \A i \in Sent' : ~ Raises(bus'[i])
                    \/ \E i \in Sent' : /\ bus'[i].kind = "Down"
                                       /\ \A j \in Sent' : j > i => ~ Raises(bus'[j])
  BY DEF Quiet
<1>1. CASE state = "Disconnected" /\ \A i \in Sent : ~ Raises(bus[i])
  BY <1>1 DEF Moves
<1>2. CASE \E i \in Sent : bus[i].kind = "Down" /\ \A j \in Sent : j > i => ~ Raises(bus[j])
  <2>1. PICK i \in Sent : bus[i].kind = "Down" /\ \A j \in Sent : j > i => ~ Raises(bus[j])
    BY <1>2
  <2>2. i > k
    BY <2>1 DEF Sent, Moves
  <2>3. i - k \in Sent' /\ bus'[i - k] = bus[i]
    BY <2>2 DEF Moves
  <2>4. \A j \in Sent' : j > i - k => j + k > i
    BY DEF Sent, Moves
  <2>5. \A j \in Sent' : j > i - k => ~ Raises(bus'[j])
    BY <2>1, <2>4 DEF Moves
  <2>6. QED
    BY <2>1, <2>3, <2>5
<1>3. QED
  BY <1>1, <1>2 DEF IInv, Quiet

-----------------------------------------------------------------------------
(* The connection's thread. *)

\* A thread ends, and says so.
LEMMA ThreadEnds ==
  ASSUME IInv, NEW g \in Conns, Alive(g), phase' = [phase EXCEPT ![g] = "done"],
         bus' = Append(bus, Down(g)), UNCHANGED <<edge, sess, saves, server, past>>
  PROVE  IInv'
<1> USE DEF edge, sess, server, past
<1>1. bus' \in Seq(Messages) /\ Moves(0, Down(g)) /\ Adds(Down(g)) /\ Down(g).kind = "Down"
  BY Appended, Kinds DEF IInv, TypeOK
<1>2. phase'[g] = "done" /\ \A h \in Conns \ {g} : phase'[h] = phase[h]
  BY DEF IInv, TypeOK
<1>3. Onward
  BY <1>2 DEF Onward, Alive, Unborn
<1>4. TypeOK'
  BY <1>1 DEF IInv, TypeOK, Phases
<1>5. Counted'
  BY <1>1, <1>2, CountedKept DEF IsChange, Alive
<1>6. Halves' /\ Fits'
  BY <1>1, <1>3, HalvesKept, FitsKept
<1>7. Fresh'
  BY <1>2, <1>3, FreshKept
<1>8. Alone'
  BY <1>2, AloneKept DEF IInv, TypeOK, Alive
<1>9. ~ (LinkStands' /\ latest' \notin late')
  <2>1. CASE g = latest
    BY <1>2, <2>1 DEF LinkStands
  <2>2. CASE g # latest
    <3>1. g < latest
      BY <2>2 DEF IInv, TypeOK, Counted, Alive, Conns
    <3>2. QED
      BY <1>2, <2>2, <3>1 DEF IInv, TypeOK, Alone, LinkStands
  <2>3. QED
    BY <2>1, <2>2
<1>10. Told'
  BY <1>9 DEF Told
<1>11. Quiet'
  BY <1>1 DEF Quiet, Adds, Sent
<1>12. QED
  BY <1>4, <1>5, <1>6, <1>7, <1>8, <1>10, <1>11 DEF IInv

LEMMA HandWriteHalfKeeps ==
  ASSUME IInv, NEW g \in Conns, HandWriteHalf(g)
  PROVE  IInv'
<1> USE DEF sess, server, past
<1>1. phase[g] = "connecting" /\ phase' = [phase EXCEPT ![g] = "handed"] /\ bus' = bus
  BY DEF HandWriteHalf, Goes
<1>2. phase'[g] = "handed" /\ \A h \in Conns \ {g} : phase'[h] = phase[h]
  BY <1>1 DEF IInv, TypeOK
<1>3. bus' \in Seq(Messages) /\ Moves(0, Frames) /\ Frames.kind = "Frames"
  BY <1>1, Stays, Kinds DEF IInv, TypeOK
<1>4. TypeOK'
  BY <1>1, <1>3 DEF IInv, TypeOK, Phases, HandWriteHalf
<1>5. Counted'
  BY <1>1, <1>2, <1>3, CountedKept DEF IsChange, HandWriteHalf
<1>6. \A h \in Conns : Waits(h)' => Waits(h) \/ h = g
  BY DEF IInv, TypeOK, Waits, HandWriteHalf
<1>7. Halves'
  BY <1>1, <1>2, <1>6 DEF IInv, TypeOK, Halves, Unborn, HandWriteHalf
<1>8. Fits'
  <2>1. ASSUME NEW h \in Conns, Suited(h)
        PROVE  Suited(h)'
    BY <1>1, <2>1 DEF Suited, Sent, HandWriteHalf
  <2>2. QED
    BY <1>1, <1>2, <1>6, <2>1 DEF IInv, Fits, HandWriteHalf
<1>9. Fresh'
  <2>1. LoginIsFresh'
    BY DEF IInv, Fresh, LoginIsFresh, HandWriteHalf
  <2>2. \A l \in logins : l[1] \in Conns /\ l[1] # g
    BY <1>1 DEF IInv, TypeOK, Fresh, Unborn
  <2>3. \A l \in logins' : l[1] <= latest' /\ ~ Unborn(l[1])' /\ ~ Waits(l[1])'
    BY <1>2, <1>6, <2>2 DEF IInv, Fresh, Unborn, HandWriteHalf
  <2>4. \A h \in answered' : phase'[h] \in {"reading", "done"} /\ \E l \in logins' : l[1] = h
    BY <1>1, <1>2 DEF IInv, TypeOK, Fresh, HandWriteHalf
  <2>5. QED
    BY <2>1, <2>3, <2>4 DEF Fresh
<1>10. Alone'
  BY <1>1, <1>2, AloneKept DEF IInv, TypeOK, Alive, HandWriteHalf
<1>11. Told'
  <2>1. LinkStands' => LinkStands
    BY <1>1, <1>2 DEF IInv, TypeOK, LinkStands, HandWriteHalf
  <2>2. QED
    BY <1>3, <2>1, ToldKept DEF Turns, HandWriteHalf
<1>12. Quiet'
  BY <1>2 DEF Quiet, Ended, Alive
<1>13. QED
  BY <1>4, <1>5, <1>7, <1>8, <1>9, <1>10, <1>11, <1>12 DEF IInv

LEMMA AnnounceKeeps ==
  ASSUME IInv, NEW g \in Conns, Announce(g)
  PROVE  IInv'
<1> USE DEF edge, sess, server
<1>1. /\ phase[g] = "handed" /\ phase' = [phase EXCEPT ![g] = "reading"]
      /\ UNCHANGED <<edge, sess, saves, server, missed, drained, rushed>>
  BY DEF Announce, Goes
<1>2. phase'[g] = "reading" /\ \A h \in Conns \ {g} : phase'[h] = phase[h]
  BY <1>1 DEF IInv, TypeOK
<1>3. /\ bus' \in Seq(Messages) /\ Moves(0, Connected(g))
      /\ Connected(g).kind = "Connected"
  BY Appended, Kinds DEF IInv, TypeOK, Announce
<1>4. Onward
  BY <1>1, <1>2 DEF Onward, Alive, Unborn
<1>5. late' \subseteq Conns /\ late \subseteq late'
  BY DEF IInv, TypeOK, Announce
<1>6. TypeOK'
  BY <1>1, <1>3, <1>5 DEF IInv, TypeOK, Phases
<1>7. Counted'
  BY <1>1, <1>2, <1>3, CountedKept DEF IsChange
<1>8. Halves' /\ Fits'
  BY <1>1, <1>3, <1>4, HalvesKept, FitsKept
<1>9. Fresh'
  BY <1>1, <1>2, <1>4, FreshKept
<1>10. g = latest \/ g < latest
  BY <1>1 DEF IInv, TypeOK, Counted, Conns
<1>11. Alone'
  <2>1. CASE g = latest
    <3>1. latest \notin late' => \A h \in Conns : h < latest => ~ Alive(h)
      BY <2>1 DEF Announce
    <3>2. QED
      BY <1>1, <1>2, <2>1, <3>1 DEF IInv, TypeOK, Alone, Alive, Conns
  <2>2. CASE g # latest
    BY <1>1, <1>2, <1>5, <2>2 DEF IInv, TypeOK, Alone, Alive
  <2>3. QED
    BY <2>1, <2>2
<1>12. ~ (LinkStands' /\ latest' \notin late')
  <2>1. CASE g = latest
    BY <1>1, <2>1 DEF IInv, Fresh, LinkStands
  <2>2. CASE g < latest
    <3>1. Alive(g)
      BY <1>1 DEF Alive
    <3>2. g # latest /\ phase'[latest] = phase[latest]
      BY <1>2, <2>2 DEF IInv, TypeOK, Conns
    <3>3. QED
      BY <1>1, <1>5, <2>2, <3>1, <3>2 DEF IInv, Alone, LinkStands
  <2>3. QED
    BY <1>10, <2>1, <2>2
<1>13. Told'
  BY <1>12 DEF Told
<1>14. Quiet'
  BY <1>2 DEF Quiet, Ended, Alive
<1>15. QED
  BY <1>6, <1>7, <1>8, <1>9, <1>11, <1>13, <1>14 DEF IInv

-----------------------------------------------------------------------------
(* The server. *)

LEMMA HangUpKeeps ==
  ASSUME IInv, NEW g \in Conns, HangUp(g)
  PROVE  IInv'
<1> USE DEF edge, sess, past
<1>1. bus' \in Seq(Messages) /\ Moves(0, Frames) /\ Frames.kind = "Frames"
  BY Stays, Kinds DEF IInv, TypeOK, HangUp
<1>2. Onward /\ phase' = phase
  BY DEF Onward, HangUp
<1>3. TypeOK'
  BY DEF IInv, TypeOK, HangUp
<1>4. Counted' /\ Halves' /\ Fits'
  BY <1>1, <1>2, CountedKept, HalvesKept, FitsKept DEF IsChange, HangUp
<1>5. Fresh'
  BY <1>2, FreshKept DEF HangUp
<1>6. Alone'
  BY <1>2, AloneKept DEF Alive, HangUp
<1>7. LinkStands' => LinkStands
  BY DEF LinkStands, HangUp
<1>8. Told'
  BY <1>1, <1>7, ToldKept DEF Turns, HangUp
<1>9. Quiet'
  BY <1>1, <1>2, QuietKept DEF Raises, Ended, Alive, HangUp
<1>10. QED
  BY <1>3, <1>4, <1>5, <1>6, <1>8, <1>9 DEF IInv

LEMMA AnswerLoginKeeps ==
  ASSUME IInv, NEW g \in Conns, NEW ok \in BOOLEAN, AnswerLogin(g, ok)
  PROVE  IInv'
<1> USE DEF edge, sess, past
<1>1. /\ bus' \in Seq(Messages) /\ Moves(0, LoginAnswer(ok)) /\ Adds(LoginAnswer(ok))
      /\ LoginAnswer(ok).kind = "LoginAnswer"
  BY Appended, Kinds DEF IInv, TypeOK, AnswerLogin
<1>2. Onward /\ phase' = phase /\ phase[g] = "reading"
  BY DEF Onward, AnswerLogin
<1>3. TypeOK'
  BY <1>1 DEF IInv, TypeOK, AnswerLogin
<1>4. Counted' /\ Halves' /\ Fits'
  BY <1>1, <1>2, CountedKept, HalvesKept, FitsKept DEF IsChange, AnswerLogin
<1>5. Fresh'
  BY <1>2, FreshKept DEF AnswerLogin
<1>6. Alone'
  BY <1>2, AloneKept DEF Alive, AnswerLogin
<1>7. Told'
  <2> SUFFICES ASSUME LinkStands', latest' \notin late'
               PROVE  \E i \in Sent' : /\ bus'[i] = LoginAnswer(TRUE)
                                     /\ \A j \in Sent' : j > i => ~ Turns(bus'[j])
    BY DEF Told
  <2>1. g = latest
    <3>1. g = latest \/ g < latest
      BY <1>2 DEF IInv, TypeOK, Counted, Conns
    <3>2. phase[latest] = "reading" /\ latest \notin late
      BY <1>2 DEF LinkStands, AnswerLogin
    <3>3. QED
      BY <1>2, <3>1, <3>2 DEF IInv, Alone, Alive
  <2>2. ok
    BY <2>1 DEF LinkStands, AnswerLogin
  <2>3. LoginAnswer(ok) = LoginAnswer(TRUE)
    BY <2>2
  <2>4. \A j \in Sent' : ~ (j > Len(bus'))
    BY DEF Sent
  <2>5. QED
    BY <1>1, <2>3, <2>4 DEF Adds
<1>8. Quiet'
  BY <1>2 DEF Quiet, Ended, Alive
<1>9. QED
  BY <1>3, <1>4, <1>5, <1>6, <1>7, <1>8 DEF IInv

-----------------------------------------------------------------------------
(* The bus worker. *)

\* The message taken was the session's to know: what the server answered is
\* further on.
LEMMA ToldShifts ==
  ASSUME IInv, NEW m, Moves(1, m), ~ Turns(m), bus[1].kind \in {"Connected", "Down"},
         LinkStands' /\ latest' \notin late' => LinkStands /\ latest \notin late
  PROVE  Told'
<1> SUFFICES ASSUME LinkStands, latest \notin late
             PROVE  \E i \in Sent' : /\ bus'[i] = LoginAnswer(TRUE)
                                   /\ \A j \in Sent' : j > i => ~ Turns(bus'[j])
  BY DEF Told
<1>1. Turns(bus[1]) /\ 1 \in Sent /\ bus[1] # LoginAnswer(TRUE)
  BY Kinds DEF Turns, Moves
<1>2. PICK i \in Sent : bus[i] = LoginAnswer(TRUE) /\ \A j \in Sent : j > i => ~ Turns(bus[j])
  BY <1>1 DEF IInv, Told
<1>3. i > 1
  <2>1. i # 1
    BY <1>1, <1>2
  <2>2. QED
    BY <2>1 DEF Sent
<1>4. i - 1 \in Sent' /\ bus'[i - 1] = bus[i]
  BY <1>3 DEF Moves
<1>5. \A j \in Sent' : j > i - 1 => j + 1 > i
  BY DEF Sent, Moves
<1>6. \A j \in Sent' : j > i - 1 => ~ Turns(bus'[j])
  BY <1>2, <1>5 DEF Moves
<1>7. QED
  BY <1>2, <1>4, <1>6

LEMMA BusConnectedKeeps ==
  ASSUME IInv, BusConnected
  PROVE  IInv'
<1> USE DEF edge, server, past
<1>1. /\ Login(config) \in Messages /\ Login(config).kind = "Login"
      /\ Login(config).version = config
  BY Kinds DEF IInv, TypeOK
<1>2. bus' \in Seq(Messages) /\ Moves(1, Login(config)) /\ bus[1].kind = "Connected"
  BY <1>1, Relayed DEF IInv, TypeOK, BusConnected, Handled, Moves
<1>3. Onward /\ phase' = phase
  BY DEF Onward, BusConnected
<1>4. TypeOK'
  BY <1>2 DEF IInv, TypeOK, BusConnected
<1>5. Counted' /\ Halves' /\ Fits'
  BY <1>1, <1>2, <1>3, CountedKept, HalvesKept, FitsKept DEF IsChange, BusConnected
<1>6. Fresh'
  BY <1>3, FreshKept DEF BusConnected
<1>7. Alone'
  BY <1>3, AloneKept DEF Alive, BusConnected
<1>8. Told'
  BY <1>1, <1>2, ToldShifts DEF Turns, LinkStands, BusConnected
<1>9. Quiet'
  BY <1>1, <1>2, <1>3, QuietKept DEF Raises, Ended, Alive
<1>10. QED
  BY <1>4, <1>5, <1>6, <1>7, <1>8, <1>9 DEF IInv

LEMMA BusDownKeeps ==
  ASSUME IInv, BusDown
  PROVE  IInv'
<1> USE DEF edge, server, past
<1>1. /\ bus' \in Seq(Messages) /\ Moves(1, Frames) /\ bus[1].kind = "Down"
      /\ Frames.kind = "Frames"
  BY Taken, Kinds DEF IInv, TypeOK, BusDown, Handled, Moves
<1>2. Onward /\ phase' = phase
  BY DEF Onward, BusDown
<1>3. TypeOK'
  BY <1>1 DEF IInv, TypeOK, BusDown
<1>4. Counted' /\ Halves' /\ Fits'
  BY <1>1, <1>2, CountedKept, HalvesKept, FitsKept DEF IsChange, BusDown
<1>5. Fresh'
  BY <1>2, FreshKept DEF BusDown
<1>6. Alone'
  BY <1>2, AloneKept DEF Alive, BusDown
<1>7. Told'
  BY <1>1, ToldShifts DEF Turns, LinkStands, BusDown
<1>8. Quiet'
  <2> SUFFICES ASSUME Ended
               PROVE  Quiet'
    BY <1>2 DEF Quiet, Ended, Alive
  <2>1. CASE \A i \in Sent : i > 1 => ~ Raises(bus[i])
    <3>1. \A i \in Sent' : i + 1 > 1
      BY DEF Sent
    <3>2. \A i \in Sent' : ~ Raises(bus'[i])
      BY <1>1, <2>1, <3>1 DEF Moves, Raises
    <3>3. QED
      BY <3>2 DEF Quiet, BusDown
  <2>2. CASE ~ \A i \in Sent : i > 1 => ~ Raises(bus[i])
    <3>1. PICK i \in Sent : bus[i].kind = "Down" /\ \A j \in Sent : j > i => ~ Raises(bus[j])
      BY <2>2 DEF IInv, Quiet
    <3>2. i > 1
      BY <2>2, <3>1 DEF Sent
    <3>3. i - 1 \in Sent' /\ bus'[i - 1] = bus[i]
      BY <1>1, <3>2 DEF Moves
    <3>4. \A j \in Sent' : j > i - 1 => j + 1 > i
      BY DEF Sent
    <3>5. \A j \in Sent' : j > i - 1 => ~ Raises(bus'[j])
      BY <1>1, <3>1, <3>4 DEF Moves, Raises
    <3>6. QED
      BY <3>1, <3>3, <3>5 DEF Quiet
  <2>3. QED
    BY <2>1, <2>2
<1>9. QED
  BY <1>3, <1>4, <1>5, <1>6, <1>7, <1>8 DEF IInv

LEMMA BusLoginAnswerKeeps ==
  ASSUME IInv, BusLoginAnswer
  PROVE  IInv'
<1> USE DEF edge, server, past
<1>1. /\ bus' \in Seq(Messages) /\ Moves(1, Frames) /\ bus[1].kind = "LoginAnswer"
      /\ Frames.kind = "Frames"
  <2>1. CASE bus' = Tail(bus)
    BY <2>1, Taken, Kinds DEF IInv, TypeOK, BusLoginAnswer, Handled, Moves
  <2>2. CASE bus' = Append(Tail(bus), Frames)
    BY <2>2, Relayed, Kinds DEF IInv, TypeOK, BusLoginAnswer, Handled, Moves
  <2>3. QED
    BY <2>1, <2>2 DEF BusLoginAnswer
<1>2. Onward /\ phase' = phase
  BY DEF Onward, BusLoginAnswer
<1>3. TypeOK'
  BY <1>1 DEF IInv, TypeOK, BusLoginAnswer
<1>4. Counted' /\ Halves' /\ Fits'
  BY <1>1, <1>2, CountedKept, HalvesKept, FitsKept DEF IsChange, BusLoginAnswer
<1>5. Fresh'
  BY <1>2, FreshKept DEF BusLoginAnswer
<1>6. Alone'
  BY <1>2, AloneKept DEF Alive, BusLoginAnswer
<1>7. Told'
  <2> SUFFICES ASSUME LinkStands, latest \notin late
               PROVE  Told'
    BY DEF Told, LinkStands, BusLoginAnswer
  <2>1. PICK i \in Sent : bus[i] = LoginAnswer(TRUE) /\ \A j \in Sent : j > i => ~ Turns(bus[j])
    BY <1>1 DEF IInv, Told, Turns, Moves
  <2>2. CASE i = 1
    <3>1. state' = "LoggedIn"
      BY <1>1, <2>1, <2>2, Kinds, ZenonT(30) DEF BusLoginAnswer, Moves
    <3>2. \A j \in Sent' : j + 1 > i
      BY <2>2 DEF Sent
    <3>3. \A j \in Sent' : ~ Turns(bus'[j])
      BY <1>1, <2>1, <3>2 DEF Moves, Turns
    <3>4. QED
      BY <3>1, <3>3 DEF Told
  <2>3. CASE i > 1
    <3>1. i - 1 \in Sent' /\ bus'[i - 1] = bus[i]
      BY <1>1, <2>3 DEF Moves
    <3>2. \A j \in Sent' : j > i - 1 => j + 1 > i
      BY DEF Sent
    <3>3. \A j \in Sent' : j > i - 1 => ~ Turns(bus'[j])
      BY <1>1, <2>1, <3>2 DEF Moves, Turns
    <3>4. QED
      BY <2>1, <3>1, <3>3 DEF Told
  <2>4. QED
    BY <2>2, <2>3 DEF Sent
<1>8. Quiet'
  BY <1>1, <1>2, QuietKept DEF Raises, Ended, Alive
<1>9. QED
  BY <1>3, <1>4, <1>5, <1>6, <1>7, <1>8 DEF IInv

\* Whatever is written goes to the newest half handed over.
LEMMA BusNetTxKeeps ==
  ASSUME IInv, BusNetTx
  PROVE  IInv'
<1> USE DEF sess, past
<1>1. /\ bus' \in Seq(Messages) /\ Moves(1, Frames) /\ bus[1] \in Messages
      /\ bus[1].kind \in {"Login", "Frames"} /\ Head(bus) = bus[1]
      /\ Frames.kind = "Frames"
  BY Taken, Kinds DEF IInv, TypeOK, BusNetTx, Moves
<1>2. Onward /\ phase' = phase
  BY DEF Onward, BusNetTx
<1>3. /\ sock' \in {0} \cup Conns /\ (sock' = sock \/ Waits(sock'))
      /\ write_rx' = <<>> /\ Len(write_rx') = 0
  BY DEF IInv, TypeOK, Waits, BusNetTx
<1>4. \/ logins' = logins
      \/ /\ bus[1].kind = "Login" /\ sock' \in Conns
         /\ logins' = logins \cup {<<sock', bus[1].version>>}
  BY <1>1, <1>3 DEF BusNetTx
<1>5. bus[1].kind = "Login" => bus[1].version \in 0 .. MaxSaves
  BY <1>1, Versions
<1>6. TypeOK'
  <2>1. logins' \subseteq Conns \X (0 .. MaxSaves)
    BY <1>4, <1>5 DEF IInv, TypeOK
  <2>2. write_rx' \in Seq(Conns)
    BY <1>3
  <2>3. QED
    BY <1>1, <1>3, <2>1, <2>2 DEF IInv, TypeOK, BusNetTx
<1>7. Counted'
  BY <1>1, <1>2, CountedKept DEF IsChange, BusNetTx
<1>8. \A g \in Conns : ~ Waits(g)'
  BY <1>3 DEF Waits
<1>9. Halves'
  BY <1>2, <1>3, <1>8 DEF IInv, Halves, Unborn, BusNetTx
<1>10. ASSUME NEW g \in Conns, Suited(g)
       PROVE  Suited(g)'
  BY <1>1, <1>10, ZenonT(30) DEF Suited, Moves, BusNetTx
<1>11. Fits'
  BY <1>2, <1>3, <1>8, <1>10 DEF IInv, Fits, BusNetTx
<1>12. logins' # logins => sock' \in missed \cup rushed \/ bus[1].version = opened[sock']
  BY <1>1, <1>3, <1>4 DEF IInv, Fits, Suited, Moves
<1>13. sock' \in Conns => ~ Unborn(sock') /\ sock' <= latest
  BY <1>3 DEF IInv, TypeOK, Halves, Counted, Unborn, Conns
<1>14. Fresh'
  <2>1. LoginIsFresh'
    BY <1>4, <1>12 DEF IInv, Fresh, LoginIsFresh, BusNetTx
  <2>2. \A l \in logins' : l[1] \in Conns
    BY <1>6 DEF TypeOK
  <2>3. \A l \in logins' : l[1] <= latest' /\ ~ Unborn(l[1])' /\ ~ Waits(l[1])'
    BY <1>2, <1>4, <1>8, <1>13, <2>2 DEF IInv, Fresh, Unborn, BusNetTx
  <2>4. \A g \in answered' : phase'[g] \in {"reading", "done"} /\ \E l \in logins' : l[1] = g
    BY <1>4 DEF IInv, Fresh, BusNetTx
  <2>5. QED
    BY <2>1, <2>3, <2>4 DEF Fresh
<1>15. Alone'
  BY <1>2, AloneKept DEF Alive, BusNetTx
<1>16. Told'
  <2>1. LinkStands' => LinkStands
    BY <1>2, <1>3 DEF IInv, Fresh, LinkStands, BusNetTx
  <2>2. QED
    BY <1>1, <2>1, ToldKept DEF Turns, BusNetTx
<1>17. Quiet'
  BY <1>1, <1>2, QuietKept DEF Raises, Ended, Alive, BusNetTx
<1>18. QED
  BY <1>6, <1>7, <1>9, <1>11, <1>14, <1>15, <1>16, <1>17 DEF IInv

\* A saved change leaves nothing in use; the connections still connecting are
\* missed, and the new one is started with the credentials of its login.
LEMMA BusConfigChangedKeeps ==
  ASSUME IInv, BusConfigChanged
  PROVE  IInv'
<1> USE DEF server, Disconnect, SessionConfigChanged
<1> DEFINE v == bus[1].version
           no == Down(0)
<1>1. /\ bus \in Seq(Messages) /\ bus # <<>> /\ Head(bus) = bus[1] /\ bus[1] \in Messages
      /\ bus[1].kind = "ConfigChanged" /\ 1 \in Sent /\ Len(bus) \in Nat
  BY DEF IInv, TypeOK, BusConfigChanged, Handled, Sent
<1>2. v \in 0 .. MaxSaves /\ latest <= v /\ v <= saves /\ IsChange(bus[1])
  BY <1>1, Versions DEF IInv, Counted, IsChange
<1>3. latest \in Conns /\ saves \in 0 .. MaxSaves /\ saves < MaxConns /\ MaxConns \in Nat
  BY ServerLinkAssumption DEF IInv, TypeOK, Counted
<1>4. config' = v /\ UNCHANGED <<state, saves, logins, answered, hung_up, late>>
  BY <1>1 DEF BusConfigChanged
<1>5. /\ sock' = 0 /\ write_rx' = <<>> /\ Len(write_rx') = 0
      /\ missed' = missed \cup {g \in Conns : phase[g] = "connecting"}
  BY DEF BusConfigChanged
<1>6. \A g \in Conns : g # sock' /\ ~ Waits(g)'
  BY <1>5 DEF Waits, Conns
<1>7. /\ shut' \subseteq Conns /\ drained' \subseteq Conns
      /\ \A g \in shut' \cup drained' : ~ Unborn(g)
  <2>1. shut' \subseteq Conns /\ \A g \in shut' : ~ Unborn(g)
    BY DEF IInv, TypeOK, Halves, BusConfigChanged
  <2>2. \A g \in Range(write_rx) : g \in Conns /\ Waits(g)
    <3>1. write_rx \in Seq(Conns)
      BY DEF IInv, TypeOK
    <3>2. DOMAIN write_rx = 1 .. Len(write_rx) /\ \A i \in 1 .. Len(write_rx) : write_rx[i] \in Conns
      BY <3>1
    <3>3. QED
      BY <3>2 DEF Range, Waits
  <2>3. drained' \subseteq Conns /\ \A g \in drained' : ~ Unborn(g)
    BY <2>2 DEF IInv, TypeOK, Halves, BusConfigChanged
  <2>4. QED
    BY <2>1, <2>3
<1>8. \A l \in logins : l[1] \in Conns /\ l[1] <= latest /\ ~ Unborn(l[1])
  BY DEF IInv, TypeOK, Fresh
<1>9. CASE bus[1].configured
  <2>1. /\ latest' = latest + 1 /\ bus' = Tail(bus)
        /\ opened' = [opened EXCEPT ![latest + 1] = v]
        /\ phase' = [phase EXCEPT ![latest + 1] = "connecting"]
        /\ rushed' = rushed \cup {g \in {latest + 1} : \E m \in Range(bus) : m.kind = "Login"}
    BY <1>1, <1>9 DEF BusConfigChanged
  <2>2. bus' \in Seq(Messages) /\ Moves(1, Frames) /\ Frames.kind = "Frames"
    BY <1>1, <2>1, Taken, Kinds
  <2>3. latest + 1 \in Conns /\ phase[latest + 1] = "none"
    BY <1>2, <1>3 DEF IInv, Counted, Conns
  <2>4. /\ opened'[latest + 1] = v /\ phase'[latest + 1] = "connecting"
        /\ \A g \in Conns \ {latest + 1} : opened'[g] = opened[g] /\ phase'[g] = phase[g]
    BY <2>1, <2>3 DEF IInv, TypeOK
  <2>5. TypeOK'
    BY <1>2, <1>4, <1>5, <1>7, <2>1, <2>2, <2>3 DEF IInv, TypeOK, Phases
  <2>6. Counted'
    <3>1. \A i \in Sent' : IsChange(bus'[i]) => i + 1 \in Sent /\ bus'[i] = bus[i + 1]
      BY <2>2 DEF Moves, IsChange
    <3>2. \A i \in Sent' : IsChange(bus'[i]) =>
            latest + 1 <= bus'[i].version /\ bus'[i].version <= saves
      <4> SUFFICES ASSUME NEW i \in Sent', IsChange(bus'[i])
                   PROVE  latest + 1 <= bus'[i].version /\ bus'[i].version <= saves
        OBVIOUS
      <4>1. 1 < i + 1
        BY DEF Sent
      <4>2. v < bus[i + 1].version /\ bus[i + 1].version <= saves
        BY <1>1, <1>2, <3>1, <4>1 DEF IInv, Counted
      <4>3. bus[i + 1].version \in 0 .. MaxSaves
        BY <1>1, <3>1, Versions DEF IsChange, Sent
      <4>4. QED
        BY <1>2, <1>3, <3>1, <4>2, <4>3 DEF Conns
    <3>3. \A i, j \in Sent' : i < j /\ IsChange(bus'[i]) /\ IsChange(bus'[j]) =>
            bus'[i].version < bus'[j].version
      <4> SUFFICES ASSUME NEW i \in Sent', NEW j \in Sent', i < j,
                          IsChange(bus'[i]), IsChange(bus'[j])
                   PROVE  bus'[i].version < bus'[j].version
        OBVIOUS
      <4>1. i + 1 < j + 1
        BY DEF Sent
      <4>2. QED
        BY <3>1, <4>1 DEF IInv, Counted
    <3>4. saves' < MaxConns /\ latest' <= saves' + 1
      BY <1>2, <1>3, <1>4, <2>1 DEF Conns
    <3>5. \A g \in Conns : g > latest' => phase'[g] = "none"
      BY <1>3, <2>1, <2>4 DEF IInv, Counted, Conns
    <3>6. QED
      BY <1>4, <2>1, <3>2, <3>3, <3>4, <3>5 DEF Counted
  <2>7. Halves'
    BY <1>6, <1>7, <2>3, <2>4 DEF Halves, Unborn
  <2>8. Fits'
    <3> SUFFICES ASSUME NEW g \in Conns, phase'[g] = "connecting"
                 PROVE  g \in missed' \/ Suited(g)'
      BY <1>6 DEF Fits
    <3>1. CASE g # latest + 1
      BY <1>5, <2>4, <3>1
    <3>2. CASE g = latest + 1
      <4>1. \A i \in Sent' : bus'[i].kind = "Login" => \E m \in Range(bus) : m.kind = "Login"
        <5>1. \A i \in Sent : bus[i] \in Range(bus)
          BY <1>1 DEF Range, Sent
        <5>2. QED
          BY <2>2, <5>1 DEF Moves
      <4>2. g \in rushed' \/ \A i \in Sent' : bus'[i].kind # "Login"
        BY <2>1, <3>2, <4>1
      <4>3. QED
        BY <1>4, <2>1, <2>4, <3>2, <4>2 DEF Suited
    <3>3. QED
      BY <3>1, <3>2
  <2>9. Fresh'
    <3>1. \A l \in logins : l[1] # latest + 1
      BY <2>3, <1>8 DEF Unborn
    <3>2. LoginIsFresh'
      BY <1>4, <1>5, <1>8, <2>1, <2>4, <3>1 DEF IInv, Fresh, LoginIsFresh
    <3>3. \A l \in logins' : l[1] <= latest' /\ ~ Unborn(l[1])' /\ ~ Waits(l[1])'
      <4>1. \A l \in logins : l[1] <= latest + 1
        BY <1>3, <1>8 DEF Conns
      <4>2. QED
        BY <1>4, <1>6, <1>8, <2>1, <2>4, <3>1, <4>1 DEF Unborn
    <3>4. \A g \in answered' : phase'[g] \in {"reading", "done"} /\ \E l \in logins' : l[1] = g
      BY <1>4, <2>3, <2>4 DEF IInv, TypeOK, Fresh
    <3>5. QED
      BY <3>2, <3>3, <3>4 DEF Fresh
  <2>10. Alone' /\ Told'
    BY <2>1, <2>4 DEF Alone, Told, LinkStands
  <2>11. Quiet'
    BY <2>3, <2>4 DEF Quiet, Ended, Alive
  <2>12. QED
    BY <2>5, <2>6, <2>7, <2>8, <2>9, <2>10, <2>11 DEF IInv
<1>10. CASE ~ bus[1].configured
  <2>1. bus' = Append(Tail(bus), no) /\ UNCHANGED <<latest, opened, phase, rushed>>
    BY <1>1, <1>10 DEF BusConfigChanged
  <2>2. bus' \in Seq(Messages) /\ Moves(1, no) /\ Adds(no) /\ no.kind = "Down"
    BY <1>1, <2>1, Relayed, Kinds
  <2>3. TypeOK'
    BY <1>2, <1>4, <1>5, <1>7, <2>1, <2>2 DEF IInv, TypeOK
  <2>4. Counted'
    BY <1>4, <2>1, <2>2, CountedKept DEF IsChange
  <2>5. Halves'
    BY <1>6, <1>7, <2>1 DEF Halves, Unborn
  <2>6. Fits'
    BY <1>5, <1>6, <2>1 DEF Fits
  <2>7. Fresh'
    <3>1. LoginIsFresh'
      BY <1>4, <1>5, <2>1 DEF IInv, Fresh, LoginIsFresh
    <3>2. QED
      BY <1>4, <1>6, <1>8, <2>1, <3>1 DEF IInv, Fresh, Unborn
  <2>8. Alone'
    BY <1>4, <2>1 DEF IInv, Alone, Alive
  <2>9. Told'
    BY <1>3, <1>5, <2>1 DEF Told, LinkStands, Conns
  <2>10. Quiet'
    <3>1. \A j \in Sent' : ~ (j > Len(bus'))
      BY DEF Sent
    <3>2. QED
      BY <2>2, <3>1 DEF Quiet, Adds
  <2>11. QED
    BY <2>3, <2>4, <2>5, <2>6, <2>7, <2>8, <2>9, <2>10 DEF IInv
<1>11. QED
  BY <1>9, <1>10

-----------------------------------------------------------------------------
(* The user. *)

LEMMA SaveKeeps ==
  ASSUME IInv, NEW on \in BOOLEAN, Save(on)
  PROVE  IInv'
<1> USE DEF edge, sess, server, past
<1> DEFINE m == ConfigChanged(on, saves + 1)
<1>1. /\ saves + 1 \in 1 .. MaxSaves /\ saves + 1 < MaxConns /\ saves' = saves + 1
      /\ saves \in Nat /\ latest \in Nat
  BY ServerLinkAssumption DEF IInv, TypeOK, Conns, Save
<1>2. m \in Messages /\ m.kind = "ConfigChanged" /\ m.version = saves + 1
  BY <1>1 DEF Messages, ConfigChanged
<1>3. bus' \in Seq(Messages) /\ Moves(0, m)
  BY <1>2, Appended DEF IInv, TypeOK, Save
<1> HIDE DEF m
<1>4. Onward /\ phase' = phase
  BY DEF Onward, Save
<1>5. TypeOK'
  BY <1>1, <1>3, ServerLinkAssumption, SMTT(30) DEF IInv, TypeOK, Save
<1>6. Counted'
  <2>1. \A i \in Sent' : bus'[i] = m \/ (i \in Sent /\ bus'[i] = bus[i])
    BY <1>3 DEF Moves, Sent
  <2>2. \A i \in Sent, j \in Sent' : j \notin Sent => i < j
    BY <1>3 DEF Sent, Moves
  <2>3. \A i \in Sent : IsChange(bus[i]) => bus[i].version \in 0 .. MaxSaves
    BY Versions DEF IInv, TypeOK, IsChange, Sent
  <2>4. \A i \in Sent : IsChange(bus[i]) => latest <= bus[i].version /\ bus[i].version <= saves
    BY DEF IInv, Counted
  <2>5. \A i \in Sent' : IsChange(bus'[i]) =>
          latest <= bus'[i].version /\ bus'[i].version <= saves + 1
    <3> SUFFICES ASSUME NEW i \in Sent', IsChange(bus'[i])
                 PROVE  latest <= bus'[i].version /\ bus'[i].version <= saves + 1
      OBVIOUS
    <3>1. CASE bus'[i] = m
      BY <1>1, <1>2, <3>1 DEF IInv, Counted
    <3>2. CASE i \in Sent /\ bus'[i] = bus[i]
      BY <1>1, <2>3, <2>4, <3>2
    <3>3. QED
      BY <2>1, <3>1, <3>2
  <2>6. \A i, j \in Sent' : i < j /\ IsChange(bus'[i]) /\ IsChange(bus'[j]) =>
          bus'[i].version < bus'[j].version
    <3> SUFFICES ASSUME NEW i \in Sent', NEW j \in Sent', i < j,
                        IsChange(bus'[i]), IsChange(bus'[j])
                 PROVE  bus'[i].version < bus'[j].version
      OBVIOUS
    <3>1. i \in Sent /\ bus'[i] = bus[i]
      <4>1. Len(bus') = Len(bus) + 1 /\ Len(bus) \in Nat
        BY DEF IInv, TypeOK, Save
      <4>2. i \in Sent
        BY <4>1 DEF Sent
      <4>3. QED
        BY <1>3, <4>2 DEF Moves, Sent
    <3>2. CASE j \in Sent
      <4>1. bus'[j] = bus[j]
        BY <1>3, <3>2 DEF Moves, Sent
      <4>2. QED
        BY <3>1, <3>2, <4>1 DEF IInv, Counted
    <3>3. CASE j \notin Sent
      <4>1. bus'[j] = m
        BY <2>1, <3>3
      <4>2. QED
        BY <1>1, <1>2, <2>3, <2>4, <3>1, <4>1
    <3>4. QED
      BY <3>2, <3>3
  <2>7. (saves < MaxConns /\ latest <= saves + 1)'
    BY <1>1 DEF IInv, Counted, Save
  <2>8. (\A g \in Conns : g > latest => phase[g] = "none")'
    BY DEF IInv, Counted, Save
  <2>9. QED
    BY <1>1, <2>5, <2>6, <2>7, <2>8 DEF Counted, Save
<1>7. Halves' /\ Fits'
  BY <1>2, <1>3, <1>4, HalvesKept, FitsKept DEF Save
<1>8. Fresh'
  BY <1>4, FreshKept DEF Save
<1>9. Alone'
  BY <1>4, AloneKept DEF Alive, Save
<1>10. Told'
  BY <1>2, <1>3, <1>4, ToldKept DEF Turns, LinkStands, Save
<1>11. Quiet'
  BY <1>2, <1>3, <1>4, QuietKept DEF Raises, Ended, Alive, Save
<1>12. QED
  BY <1>5, <1>6, <1>7, <1>8, <1>9, <1>10, <1>11 DEF IInv

-----------------------------------------------------------------------------
LEMMA StepIInv == IInv /\ [Next]_vars => IInv'
<1> SUFFICES ASSUME IInv, [Next]_vars
             PROVE  IInv'
  OBVIOUS
<1>1. ASSUME NEW g \in Conns, Thread(g)
      PROVE  IInv'
  <2>1. CASE ConnectFails(g) \/ ReadEnd(g)
    BY <2>1, ThreadEnds DEF ConnectFails, ReadEnd, Goes, Alive
  <2>2. CASE HandWriteHalf(g)
    BY <2>2, HandWriteHalfKeeps
  <2>3. CASE Announce(g)
    BY <2>3, AnnounceKeeps
  <2>4. QED
    BY <1>1, <2>1, <2>2, <2>3 DEF Thread
<1>2. ASSUME NEW g \in Conns, HangUp(g)
      PROVE  IInv'
  BY <1>2, HangUpKeeps
<1>3. ASSUME NEW g \in Conns, NEW ok \in BOOLEAN, AnswerLogin(g, ok)
      PROVE  IInv'
  BY <1>3, AnswerLoginKeeps
<1>4. CASE BusWorker
  BY <1>4, BusConnectedKeeps, BusDownKeeps, BusLoginAnswerKeeps, BusNetTxKeeps,
     BusConfigChangedKeeps DEF BusWorker
<1>5. ASSUME NEW on \in BOOLEAN, Save(on)
      PROVE  IInv'
  BY <1>5, SaveKeeps
<1>6. CASE UNCHANGED vars
  <2> USE <1>6 DEF vars, edge, sess, server, past
  <2>1. TypeOK' /\ Counted'
    BY DEF IInv, TypeOK, Counted, IsChange, Sent
  <2>2. Halves' /\ Fits'
    BY DEF IInv, Halves, Fits, Suited, Waits, Unborn, Sent
  <2>3. Fresh' /\ Alone'
    BY DEF IInv, Fresh, LoginIsFresh, Alone, Alive, Waits, Unborn
  <2>4. Told' /\ Quiet'
    BY DEF IInv, Told, Turns, LinkStands, Quiet, Raises, Ended, Alive, Sent
  <2>5. QED
    BY <2>1, <2>2, <2>3, <2>4 DEF IInv
<1>7. QED
  BY <1>1, <1>2, <1>3, <1>4, <1>5, <1>6 DEF Next

LEMMA Invariant == Spec => []IInv
<1>1. IInv /\ [Next]_vars => IInv'
  BY StepIInv
<1>2. QED
  BY InitIInv, <1>1, PTL DEF Spec

-----------------------------------------------------------------------------
(* The theorems. *)

\* net_edge writes to the connection opened last, or to one a saved change found
\* still connecting, and never to one it shut down nor to a write half it drained,
\* whenever settings are saved.
THEOREM WritesReachTheLatest == Spec => []SockIsLatest
<1>1. IInv => SockIsLatest
  <2> SUFFICES ASSUME IInv, sock # 0
               PROVE  SockIsLatest
    BY DEF SockIsLatest
  <2>1. sock \in Conns
    BY DEF IInv, TypeOK
  <2>2. QED
    BY <2>1 DEF IInv, Halves, Fits, Suited, SockIsLatest
<1>2. QED
  BY <1>1, Invariant, PTL

\* A login carries the credentials of the connection it goes out on, unless a saved
\* change missed that connection or started it with an older login on its way.
THEOREM LoginsAreFresh == Spec => []LoginIsFresh
<1>1. IInv => LoginIsFresh
  BY DEF IInv, Fresh
<1>2. QED
  BY <1>1, Invariant, PTL

\* A session whose login the server answered over the standing link is logged in
\* once the bus is handled, after every saved change, when no older connection was
\* alive as the link was announced.
THEOREM SessionsMatchTheirLink == Spec => []SessionMatchesLink
<1>1. IInv => SessionMatchesLink
  BY DEF IInv, Told, SessionMatchesLink, Sent
<1>2. QED
  BY <1>1, Invariant, PTL

\* Every variable keeps its type, and once the bus is handled nobody is logged in
\* over a link that has ended, whenever settings are saved.
THEOREM NobodyIsLoggedInAlone == Spec => []WellFormed
<1>1. IInv => WellFormed
  BY DEF IInv, Quiet, WellFormed, NoGhostSession, Sent
<1>2. QED
  BY <1>1, Invariant, PTL
=============================================================================
