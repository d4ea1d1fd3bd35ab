------------------------ MODULE SearchAnswersProofs ------------------------
(***************************************************************************)
(* Three results about SearchAnswers for any searches, configurations and  *)
(* bounds: the index never falls behind, every searcher that was told a    *)
(* token has its one answer, and the answers are right.                    *)
(***************************************************************************)
EXTENDS SearchAnswers, TLAPS, SequenceTheorems, FiniteSetTheorems

-----------------------------------------------------------------------------
(* Sequences of whatever they hold, by index and by what they hold.          *)

IsSeq(s) == s \in Seq(ToSet(s))

LEMMA SeqFacts ==
  ASSUME NEW s, IsSeq(s)
  PROVE  Len(s) \in Nat /\ DOMAIN s = 1 .. Len(s) /\ \A i \in 1 .. Len(s) : s[i] \in ToSet(s)
BY DEF IsSeq, ToSet

LEMMA AppendFacts ==
  ASSUME NEW s, IsSeq(s), NEW x
  PROVE  /\ IsSeq(Append(s, x)) /\ Len(Append(s, x)) = Len(s) + 1
         /\ ToSet(Append(s, x)) = ToSet(s) \cup {x}
         /\ Append(s, x)[Len(s) + 1] = x
         /\ \A i \in 1 .. Len(s) : Append(s, x)[i] = s[i]
<1> DEFINE S == ToSet(s) \cup {x}
           t == Append(s, x)
<1>1. s \in Seq(S) /\ x \in S /\ Len(s) \in Nat
  BY DEF IsSeq
<1>2. t \in Seq(S) /\ Len(t) = Len(s) + 1 /\ t[Len(s) + 1] = x
      /\ \A i \in 1 .. Len(s) : t[i] = s[i]
  <2> HIDE DEF S
  <2>1. QED
    BY <1>1
<1> HIDE DEF t
<1>3. DOMAIN s = 1 .. Len(s) /\ DOMAIN t = 1 .. Len(s) + 1
  BY <1>1, <1>2
<1>4. ToSet(t) = S
  <2>1. ToSet(t) \subseteq S
    BY <1>2, <1>3 DEF ToSet
  <2>2. \A i \in 1 .. Len(s) : i \in DOMAIN t /\ t[i] = s[i]
    BY <1>1, <1>2, <1>3
  <2>3. ToSet(s) \subseteq ToSet(t)
    BY <1>3, <2>2 DEF ToSet
  <2>4. Len(s) + 1 \in DOMAIN t
    BY <1>1, <1>3
  <2>5. x \in ToSet(t)
    BY <1>2, <2>4 DEF ToSet
  <2>6. QED
    BY <2>1, <2>3, <2>5
<1>5. t \in Seq(ToSet(t))
  BY <1>2, <1>4
<1>6. QED
  BY <1>2, <1>4, <1>5 DEF t, IsSeq

LEMMA TailFacts ==
  ASSUME NEW s, IsSeq(s), s # << >>
  PROVE  /\ Len(s) \in Nat \ {0} /\ Head(s) = s[1]
         /\ IsSeq(Tail(s)) /\ Len(Tail(s)) = Len(s) - 1
         /\ \A i \in 1 .. Len(s) - 1 : i + 1 \in 2 .. Len(s) /\ Tail(s)[i] = s[i + 1]
<1> DEFINE S == ToSet(s)
           t == Tail(s)
<1>1. /\ Len(s) \in Nat \ {0} /\ Head(s) = s[1] /\ t \in Seq(S) /\ Len(t) = Len(s) - 1
      /\ \A i \in 1 .. Len(s) - 1 : i + 1 \in 2 .. Len(s) /\ t[i] = s[i + 1]
  <2>1. s \in Seq(S)
    BY DEF IsSeq
  <2> HIDE DEF S
  <2>2. QED
    BY <2>1
<1> HIDE DEF t
<1>2. t \in Seq(ToSet(t))
  <2>1. DOMAIN t = 1 .. Len(t) /\ Len(t) \in Nat
    BY <1>1
  <2>2. \A i \in 1 .. Len(t) : t[i] \in ToSet(t)
    BY <2>1 DEF ToSet
  <2>3. t = [i \in 1 .. Len(t) |-> t[i]]
    <3> HIDE DEF S
    <3>1. QED
      BY <1>1, <2>1
  <2>4. QED
    BY <2>1, <2>2, <2>3
<1>3. QED
  BY <1>1, <1>2 DEF t, IsSeq

-----------------------------------------------------------------------------
(* The index.                                                                *)

\* Configurations wait to be taken up in the order they were saved.
Configs ==
  /\ IsSeq(cmds)
  /\ saved \in Nat /\ applied \in Nat /\ index \in Nat /\ quiet \in Nat
  /\ applied <= saved
  /\ \A i \in 1 .. Len(cmds) : cmds[i].type = "ApplyConfig" =>
       cmds[i].config \in applied .. saved
  /\ \A i, j \in 1 .. Len(cmds) :
       cmds[i].type = "ApplyConfig" /\ cmds[j].type = "ApplyConfig" /\ i < j =>
         cmds[i].config <= cmds[j].config

\* No scan is for a configuration older than the index of the last quiet moment.
ScansAreNew == quiet <= index /\ index <= applied /\ scans \subseteq quiet .. applied

IndexInv == Configs /\ ScansAreNew

LEMMA CommandAdded ==
  ASSUME Configs, NEW x, cmds' = Append(cmds, x), NEW v \in Nat, v >= saved, saved' = v,
         x.type = "ApplyConfig" => x.config = v,
         applied' = applied, index' = index, quiet' = quiet
  PROVE  Configs'
<1> DEFINE n == Len(cmds)
<1>1. /\ IsSeq(cmds') /\ Len(cmds') = n + 1 /\ n \in Nat /\ cmds'[n + 1] = x
      /\ \A i \in 1 .. n : cmds'[i] = cmds[i]
  BY AppendFacts, SeqFacts DEF Configs
<1>2. ASSUME NEW i \in 1 .. n + 1, cmds'[i].type = "ApplyConfig"
      PROVE  cmds'[i].config \in applied .. v
  <2>1. CASE i = n + 1
    BY <1>1, <1>2, <2>1 DEF Configs
  <2>2. CASE i \in 1 .. n
    <3>1. cmds[i].config \in applied .. saved
      BY <1>1, <1>2, <2>2 DEF Configs
    <3>2. QED
      BY <1>1, <2>2, <3>1 DEF Configs
  <2>3. QED
    BY <1>1, <2>1, <2>2
<1>3. ASSUME NEW i \in 1 .. n + 1, NEW j \in 1 .. n + 1, i < j,
             cmds'[i].type = "ApplyConfig", cmds'[j].type = "ApplyConfig"
      PROVE  cmds'[i].config <= cmds'[j].config
  <2>1. i \in 1 .. n /\ cmds'[i] = cmds[i]
    BY <1>1, <1>3
  <2>2. cmds[i].config \in applied .. saved
    BY <1>3, <2>1 DEF Configs
  <2>3. CASE j = n + 1
    BY <1>1, <1>3, <2>1, <2>2, <2>3 DEF Configs
  <2>4. CASE j \in 1 .. n
    BY <1>1, <1>3, <2>1, <2>4 DEF Configs
  <2>5. QED
    BY <1>1, <2>3, <2>4
<1>4. applied <= v
  BY DEF Configs
<1>5. QED
  BY <1>1, <1>2, <1>3, <1>4 DEF Configs

LEMMA CommandTaken ==
  ASSUME Configs, cmds # << >>, cmds' = Tail(cmds), NEW v \in Nat, applied' = v,
         v = applied \/ (cmds[1].type = "ApplyConfig" /\ v = cmds[1].config),
         saved' = saved, index' = index, quiet' = quiet
  PROVE  Configs' /\ v >= applied
<1> DEFINE n == Len(cmds)
<1>1. /\ n \in Nat \ {0} /\ IsSeq(cmds') /\ Len(cmds') = n - 1
      /\ \A i \in 1 .. n - 1 : i + 1 \in 2 .. n /\ cmds'[i] = cmds[i + 1]
  BY TailFacts DEF Configs
<1>2. v \in applied .. saved
  BY <1>1 DEF Configs
<1>3. ASSUME NEW i \in 1 .. n - 1, cmds'[i].type = "ApplyConfig"
      PROVE  cmds'[i].config \in v .. saved
  <2>1. i + 1 \in 1 .. n /\ 1 \in 1 .. n /\ 1 < i + 1 /\ cmds[i + 1].type = "ApplyConfig"
    BY <1>1, <1>3
  <2>2. cmds[i + 1].config \in applied .. saved
    BY <2>1 DEF Configs
  <2>3. v <= cmds[i + 1].config
    BY <2>1, <2>2 DEF Configs
  <2>4. QED
    BY <1>1, <1>2, <2>2, <2>3 DEF Configs
<1>4. ASSUME NEW i \in 1 .. n - 1, NEW j \in 1 .. n - 1, i < j,
             cmds'[i].type = "ApplyConfig", cmds'[j].type = "ApplyConfig"
      PROVE  cmds'[i].config <= cmds'[j].config
  <2>1. i + 1 \in 1 .. n /\ j + 1 \in 1 .. n /\ i + 1 < j + 1
    BY <1>1, <1>4
  <2>2. QED
    BY <1>1, <1>4, <2>1 DEF Configs
<1>5. v <= saved /\ v >= applied
  BY <1>2 DEF Configs
<1>6. QED
  BY <1>1, <1>3, <1>4, <1>5 DEF Configs

LEMMA InitIndexInv == Init => IndexInv
<1> SUFFICES ASSUME Init
             PROVE  IndexInv
  OBVIOUS
<1>1. cmds = << >> /\ IsSeq(cmds)
  BY DEF Init, IsSeq
<1>2. QED
  BY <1>1 DEF Init, IndexInv, Configs, ScansAreNew

LEMMA NextIndexInv ==
  ASSUME IndexInv, [Next]_vars
  PROVE  IndexInv' /\ index' >= quiet
<1> USE DEF IndexInv
<1>0. index >= quiet
  BY DEF Configs, ScansAreNew
<1>1. CASE UNCHANGED vars
  BY <1>0, <1>1 DEF vars, configVars, Configs, ScansAreNew
<1>2. ASSUME NEW s \in Searches, SearchArrives(s)
      PROVE  IndexInv' /\ index' >= quiet
  <2>1. Configs'
    <3> DEFINE x == [type |-> "IncomingSearch", search |-> s]
    <3>1. x.type # "ApplyConfig" /\ cmds' = Append(cmds, x)
      BY <1>2 DEF SearchArrives
    <3> HIDE DEF x
    <3>2. saved \in Nat /\ saved >= saved
      BY DEF Configs
    <3>3. QED
      BY <1>2, <3>1, <3>2, CommandAdded DEF SearchArrives, configVars
  <2>2. QED
    BY <1>0, <1>2, <2>1 DEF SearchArrives, configVars, ScansAreNew
<1>3. CASE ConfigChanged
  <2>1. Configs'
    <3> DEFINE x == [type |-> "ApplyConfig", config |-> saved + 1]
    <3>1. x.config = saved + 1 /\ cmds' = Append(cmds, x)
      BY <1>3 DEF ConfigChanged
    <3> HIDE DEF x
    <3>2. saved + 1 \in Nat /\ saved + 1 >= saved
      BY DEF Configs
    <3>3. QED
      BY <1>3, <3>1, <3>2, CommandAdded DEF ConfigChanged
  <2>2. QED
    BY <1>0, <1>3, <2>1 DEF ConfigChanged, ScansAreNew
<1>4. CASE PhrasesArrive
  <2>1. Configs'
    <3> DEFINE x == [type |-> "SetExcludedPhrases"]
    <3>1. x.type # "ApplyConfig" /\ cmds' = Append(cmds, x)
      BY <1>4 DEF PhrasesArrive
    <3> HIDE DEF x
    <3>2. saved \in Nat /\ saved >= saved
      BY DEF Configs
    <3>3. QED
      BY <1>4, <3>1, <3>2, CommandAdded DEF PhrasesArrive, configVars
  <2>2. QED
    BY <1>0, <1>4, <2>1 DEF PhrasesArrive, configVars, ScansAreNew
<1>5. CASE IncomingSearch \/ SetExcludedPhrases
  <2>1. /\ cmds # << >> /\ cmds' = Tail(cmds)
        /\ UNCHANGED <<saved, applied, index, scans, quiet>>
    BY <1>5 DEF IncomingSearch, SetExcludedPhrases, Commanded, configVars
  <2>2. applied \in Nat
    BY DEF Configs
  <2>3. Configs'
    BY <2>1, <2>2, CommandTaken
  <2>4. QED
    BY <1>0, <2>1, <2>3 DEF ScansAreNew
<1>6. CASE ApplyConfig
  <2>1. /\ cmds # << >> /\ cmds' = Tail(cmds) /\ cmds[1].type = "ApplyConfig"
        /\ applied' = cmds[1].config /\ scans' = scans \cup {applied'}
        /\ UNCHANGED <<saved, index, quiet>>
    BY <1>6, TailFacts DEF ApplyConfig, Commanded, Configs
  <2>2. applied' \in Nat
    <3>1. Len(cmds) \in Nat \ {0} /\ 1 \in 1 .. Len(cmds)
      BY <2>1, TailFacts DEF Configs
    <3>2. cmds[1].config \in applied .. saved
      BY <2>1, <3>1 DEF Configs
    <3>3. QED
      BY <2>1, <3>2 DEF Configs
  <2>3. Configs' /\ applied' >= applied
    BY <2>1, <2>2, CommandTaken
  <2>4. ScansAreNew'
    <3>1. \A config \in scans : config \in quiet .. applied'
      BY <2>2, <2>3 DEF ScansAreNew, Configs
    <3>2. quiet <= index /\ index <= applied' /\ applied' \in quiet .. applied'
      BY <2>2, <2>3 DEF ScansAreNew, Configs
    <3>3. QED
      BY <2>1, <3>1, <3>2 DEF ScansAreNew
  <2>5. QED
    BY <1>0, <2>1, <2>3, <2>4
<1>7. ASSUME NEW config \in scans, ScanEnds(config)
      PROVE  IndexInv' /\ index' >= quiet
  <2>1. /\ scans' \subseteq scans /\ index' \in {config, index} /\ quiet' \in {index', quiet}
        /\ quiet' = index' \/ quiet' = quiet
        /\ UNCHANGED <<cmds, saved, applied>>
    BY <1>7 DEF ScanEnds
  <2>2. scans' # {} => quiet' = quiet
    BY <1>7 DEF ScanEnds
  <2>3. config \in quiet .. applied /\ index \in quiet .. applied
    BY <1>0 DEF ScansAreNew, Configs
  <2>4. index' \in quiet .. applied /\ index' \in Nat /\ quiet' \in Nat /\ quiet' <= index'
    BY <2>1, <2>3 DEF Configs
  <2>5. Configs'
    BY <2>1, <2>4 DEF Configs
  <2>6. scans' \subseteq quiet' .. applied'
    BY <2>1, <2>2 DEF ScansAreNew
  <2>7. QED
    BY <2>1, <2>4, <2>5, <2>6 DEF ScansAreNew, Configs
<1>8. CASE \E m \in matching : Matched(m)
  BY <1>0, <1>8 DEF Matched, configVars, Configs, ScansAreNew
<1>9. CASE \E ask \in asks : Pierced(ask)
  BY <1>0, <1>9 DEF Pierced, configVars, Configs, ScansAreNew
<1>10. QED
  BY <1>1, <1>2, <1>3, <1>4, <1>5, <1>6, <1>7, <1>8, <1>9 DEF Next

\* No scan, and none that fails, puts in place an index older than the one in
\* use when last no scan was running (ApplyConfig), for any configurations and
\* any order in which their scans end.
THEOREM IndexIsNotOlder == Spec => IndexNotBehindQuiet
<1>1. Init => IndexInv
  BY InitIndexInv
<1>2. IndexInv /\ [Next]_vars => IndexInv' /\ [index' >= quiet]_vars
  BY NextIndexInv
<1>3. QED
  BY <1>1, <1>2, PTL DEF Spec, IndexNotBehindQuiet

-----------------------------------------------------------------------------
(* The answers.                                                              *)

SearchesIn(answers) == {a.search : a \in ToSet(answers)}

IsIncoming(cmd, s) == cmd.type = "IncomingSearch" /\ cmd.search = s

Incoming(s)  == \E i \in 1 .. Len(cmds) : IsIncoming(cmds[i], s)
InMatching(s) == \E m \in matching : m.search = s
InQueue(s)   == \E t \in DOMAIN deliveries : s \in SearchesIn(deliveries[t])
Done(s)      == s \in delivered \cup evicted

\* A search is in one place at most, and only once it has reached us.
OnePlace ==
  /\ \A s : Incoming(s) \/ InMatching(s) \/ InQueue(s) \/ Done(s) => s \in asked
  /\ \A s : Incoming(s) => ~ InMatching(s) /\ ~ InQueue(s) /\ ~ Done(s)
  /\ \A s : InMatching(s) => ~ InQueue(s) /\ ~ Done(s)
  /\ \A s : InQueue(s) => ~ Done(s)

\* And there only once.
IncomingOnce ==
  \A i, j \in 1 .. Len(cmds) :
    IsIncoming(cmds[i], cmds[j].search) /\ IsIncoming(cmds[j], cmds[j].search) => i = j

MatchingOnce == \A m, n \in matching : m.search = n.search => m = n

QueuedOnce ==
  \A t, u \in DOMAIN deliveries : \A s \in SearchesIn(deliveries[t]) :
    s \in SearchesIn(deliveries[u]) => t = u

\* Who is asked to connect has an answer under the token it was given, or had.
AskedFor ==
  \A ask \in asks :
    \/ ask.token \in DOMAIN deliveries /\ ask.search \in SearchesIn(deliveries[ask.token])
    \/ Done(ask.search)

AnswerInv ==
  /\ IsSeq(cmds)
  /\ \A t \in DOMAIN deliveries : IsSeq(deliveries[t])
  /\ OnePlace /\ IncomingOnce /\ MatchingOnce /\ QueuedOnce /\ AskedFor

LEMMA IncomingAdded ==
  ASSUME IsSeq(cmds), IncomingOnce, NEW x, cmds' = Append(cmds, x),
         x.type = "IncomingSearch" => ~ Incoming(x.search)
  PROVE  /\ IsSeq(cmds') /\ IncomingOnce'
         /\ \A s : Incoming(s)' <=> Incoming(s) \/ IsIncoming(x, s)
<1> DEFINE n == Len(cmds)
<1>1. /\ IsSeq(cmds') /\ Len(cmds') = n + 1 /\ n \in Nat /\ cmds'[n + 1] = x
      /\ \A i \in 1 .. n : cmds'[i] = cmds[i]
  BY AppendFacts, SeqFacts
<1>2. \A i \in 1 .. n + 1 : i = n + 1 \/ i \in 1 .. n
  BY <1>1
<1>3. \A s : Incoming(s)' <=> Incoming(s) \/ IsIncoming(x, s)
  <2> SUFFICES ASSUME NEW s
               PROVE  Incoming(s)' <=> Incoming(s) \/ IsIncoming(x, s)
    OBVIOUS
  <2>1. ASSUME NEW i \in 1 .. n + 1, IsIncoming(cmds'[i], s)
        PROVE  Incoming(s) \/ IsIncoming(x, s)
    BY <1>1, <1>2, <2>1 DEF Incoming
  <2>2. ASSUME Incoming(s) \/ IsIncoming(x, s)
        PROVE  \E i \in 1 .. n + 1 : IsIncoming(cmds'[i], s)
    <3>1. n + 1 \in 1 .. n + 1 /\ \A i \in 1 .. n : i \in 1 .. n + 1
      BY <1>1
    <3>2. QED
      BY <1>1, <2>2, <3>1 DEF Incoming
  <2>3. QED
    BY <1>1, <2>1, <2>2 DEF Incoming
<1>4. ASSUME NEW i \in 1 .. n + 1, NEW j \in 1 .. n + 1,
             IsIncoming(cmds'[i], cmds'[j].search), IsIncoming(cmds'[j], cmds'[j].search)
      PROVE  i = j
  <2>1. CASE i \in 1 .. n /\ j \in 1 .. n
    BY <1>1, <1>4, <2>1 DEF IncomingOnce
  <2>2. CASE i = n + 1 /\ j \in 1 .. n
    BY <1>1, <1>4, <2>2 DEF Incoming, IsIncoming
  <2>3. CASE i \in 1 .. n /\ j = n + 1
    BY <1>1, <1>4, <2>3 DEF Incoming, IsIncoming
  <2>4. QED
    BY <1>2, <2>1, <2>2, <2>3
<1>5. QED
  BY <1>1, <1>3, <1>4 DEF IncomingOnce

LEMMA IncomingTaken ==
  ASSUME IsSeq(cmds), IncomingOnce, cmds # << >>, cmds' = Tail(cmds)
  PROVE  /\ IsSeq(cmds') /\ IncomingOnce'
         /\ \A s : Incoming(s)' => Incoming(s) /\ ~ IsIncoming(cmds[1], s)
         /\ \A s : IsIncoming(cmds[1], s) => Incoming(s)
<1> DEFINE n == Len(cmds)
<1>1. /\ IsSeq(cmds') /\ Len(cmds') = n - 1 /\ n \in Nat \ {0}
      /\ \A i \in 1 .. n - 1 : i + 1 \in 2 .. n /\ cmds'[i] = cmds[i + 1]
  BY TailFacts
<1>2. 1 \in 1 .. n /\ \A i \in 1 .. n - 1 : i + 1 \in 1 .. n /\ i + 1 # 1
  BY <1>1
<1>3. \A s : Incoming(s)' => Incoming(s) /\ ~ IsIncoming(cmds[1], s)
  <2> SUFFICES ASSUME NEW s, NEW i \in 1 .. n - 1, IsIncoming(cmds'[i], s)
               PROVE  Incoming(s) /\ ~ IsIncoming(cmds[1], s)
    BY <1>1 DEF Incoming
  <2>1. IsIncoming(cmds[i + 1], s) /\ cmds[i + 1].search = s
    BY <1>1 DEF IsIncoming
  <2>2. Incoming(s)
    BY <1>2, <2>1 DEF Incoming
  <2>3. QED
    BY <1>2, <2>1, <2>2 DEF IncomingOnce
<1>4. ASSUME NEW i \in 1 .. n - 1, NEW j \in 1 .. n - 1,
             IsIncoming(cmds'[i], cmds'[j].search), IsIncoming(cmds'[j], cmds'[j].search)
      PROVE  i = j
  <2>1. i + 1 = j + 1
    BY <1>1, <1>2, <1>4 DEF IncomingOnce
  <2>2. QED
    BY <2>1
<1>5. QED
  BY <1>1, <1>2, <1>3, <1>4 DEF IncomingOnce, Incoming

LEMMA InitAnswerInv == Init => AnswerInv
<1> SUFFICES ASSUME Init
             PROVE  AnswerInv
  OBVIOUS
<1>1. cmds = << >> /\ IsSeq(cmds) /\ Len(cmds) = 0 /\ DOMAIN deliveries = {}
  BY DEF Init, IsSeq
<1>2. OnePlace
  BY <1>1 DEF Init, OnePlace, Incoming, InMatching, InQueue, Done
<1>3. QED
  BY <1>1, <1>2 DEF Init, AnswerInv, IncomingOnce, MatchingOnce, QueuedOnce, AskedFor

\* What the reactor and the rest of the program do to the commands alone.
LEMMA OtherCommandStep ==
  ASSUME AnswerInv,
         \/ \E x : cmds' = Append(cmds, x) /\ x.type # "IncomingSearch"
         \/ cmds # << >> /\ cmds' = Tail(cmds)
         \/ cmds' = cmds,
         UNCHANGED <<asked, matching, deliveries, asks, delivered, evicted>>
  PROVE  AnswerInv'
<1>1. IsSeq(cmds') /\ IncomingOnce' /\ \A s : Incoming(s)' => Incoming(s)
  <2>1. CASE \E x : cmds' = Append(cmds, x) /\ x.type # "IncomingSearch"
    BY <2>1, IncomingAdded DEF AnswerInv, IsIncoming
  <2>2. CASE cmds # << >> /\ cmds' = Tail(cmds)
    BY <2>2, IncomingTaken DEF AnswerInv
  <2>3. CASE cmds' = cmds
    BY <2>3 DEF AnswerInv, IncomingOnce, Incoming
  <2>4. QED
    BY <2>1, <2>2, <2>3
<1>2. /\ \A s : InMatching(s)' <=> InMatching(s)
      /\ \A s : InQueue(s)' <=> InQueue(s)
      /\ \A s : Done(s)' <=> Done(s)
  BY DEF InMatching, InQueue, Done
<1>3. OnePlace'
  BY <1>1, <1>2 DEF AnswerInv, OnePlace
<1>4. /\ MatchingOnce' /\ QueuedOnce' /\ AskedFor'
      /\ \A t \in DOMAIN deliveries' : IsSeq(deliveries'[t])
  BY DEF AnswerInv, MatchingOnce, QueuedOnce, AskedFor, Done
<1>5. QED
  BY <1>1, <1>3, <1>4 DEF AnswerInv

LEMMA SearchArrivesStep ==
  ASSUME AnswerInv, NEW s \in Searches, SearchArrives(s)
  PROVE  AnswerInv'
<1> DEFINE x == [type |-> "IncomingSearch", search |-> s]
<1>1. /\ s \notin asked /\ asked' = asked \cup {s} /\ cmds' = Append(cmds, x)
      /\ UNCHANGED <<matching, deliveries, asks, delivered, evicted>>
  BY DEF SearchArrives, deliveryVars
<1>2. x.type = "IncomingSearch" /\ x.search = s
  OBVIOUS
<1> HIDE DEF x
<1>3. ~ Incoming(s) /\ ~ InMatching(s) /\ ~ InQueue(s) /\ ~ Done(s)
  BY <1>1 DEF AnswerInv, OnePlace
<1>4. IsSeq(cmds') /\ IncomingOnce' /\ \A r : Incoming(r)' <=> Incoming(r) \/ r = s
  BY <1>1, <1>2, <1>3, IncomingAdded DEF AnswerInv, IsIncoming
<1>5. /\ \A r : InMatching(r)' <=> InMatching(r)
      /\ \A r : InQueue(r)' <=> InQueue(r)
      /\ \A r : Done(r)' <=> Done(r)
  BY <1>1 DEF InMatching, InQueue, Done
<1>6. OnePlace'
  BY <1>1, <1>3, <1>4, <1>5 DEF AnswerInv, OnePlace
<1>7. /\ MatchingOnce' /\ QueuedOnce' /\ AskedFor'
      /\ \A t \in DOMAIN deliveries' : IsSeq(deliveries'[t])
  BY <1>1 DEF AnswerInv, MatchingOnce, QueuedOnce, AskedFor, Done
<1>8. QED
  BY <1>4, <1>6, <1>7 DEF AnswerInv

LEMMA IncomingSearchStep ==
  ASSUME AnswerInv, IncomingSearch
  PROVE  AnswerInv'
<1>1. PICK m : /\ m.search = cmds[1].search /\ matching' = matching \cup {m}
               /\ cmds # << >> /\ cmds[1].type = "IncomingSearch" /\ cmds' = Tail(cmds)
               /\ UNCHANGED <<asked, deliveries, asks, delivered, evicted>>
  <2>1. cmds # << >> /\ Head(cmds) = cmds[1]
    BY TailFacts DEF IncomingSearch, Commanded, AnswerInv
  <2> DEFINE m == [search |-> Head(cmds).search, token |-> connect_token, config |-> index,
                   cap |-> ResultCap[applied + 1], phrases |-> excluded]
  <2>2. m.search = cmds[1].search
    BY <2>1
  <2>3. QED
    BY <2>1, <2>2 DEF IncomingSearch, Commanded, deliveryVars
<1> DEFINE s == cmds[1].search
<1>2. /\ IsSeq(cmds') /\ IncomingOnce' /\ Incoming(s)
      /\ \A r : Incoming(r)' => Incoming(r) /\ r # s
  BY <1>1, IncomingTaken DEF AnswerInv, IsIncoming
<1>3. /\ \A r : InMatching(r)' <=> InMatching(r) \/ r = s
      /\ \A r : InQueue(r)' <=> InQueue(r)
      /\ \A r : Done(r)' <=> Done(r)
  BY <1>1 DEF InMatching, InQueue, Done
<1>4. s \in asked /\ ~ InMatching(s) /\ ~ InQueue(s) /\ ~ Done(s)
  BY <1>2 DEF AnswerInv, OnePlace
<1>5. OnePlace'
  BY <1>1, <1>2, <1>3, <1>4 DEF AnswerInv, OnePlace
<1>6. MatchingOnce'
  BY <1>1, <1>4 DEF AnswerInv, MatchingOnce, InMatching
<1>7. QueuedOnce' /\ AskedFor' /\ \A t \in DOMAIN deliveries' : IsSeq(deliveries'[t])
  BY <1>1 DEF AnswerInv, QueuedOnce, AskedFor, Done
<1>8. QED
  BY <1>2, <1>5, <1>6, <1>7 DEF AnswerInv

LEMMA UnderFacts ==
  ASSUME AnswerInv, NEW t
  PROVE  /\ IsSeq(Under(t))
         /\ \A s : s \in SearchesIn(Under(t))
                     <=> t \in DOMAIN deliveries /\ s \in SearchesIn(deliveries[t])
<1>1. CASE t \in DOMAIN deliveries
  BY <1>1 DEF AnswerInv, Under
<1>2. CASE t \notin DOMAIN deliveries
  <2>1. Under(t) = << >> /\ IsSeq(<< >>) /\ ToSet(<< >>) = {}
    BY <1>2 DEF Under, IsSeq, ToSet
  <2>2. QED
    BY <1>2, <2>1 DEF SearchesIn
<1>3. QED
  BY <1>1, <1>2

\* An answer is queued: it joins the ones under its token, and the tokens that
\* have to go take their answers with them.
LEMMA QueueStep ==
  ASSUME AnswerInv, NEW m \in matching, matching' = matching \ {m},
         NEW answer, answer.search = m.search, Queue(m.token, answer),
         asks' = asks \cup {[token |-> m.token, search |-> m.search]},
         UNCHANGED <<cmds, asked, delivered>>
  PROVE  AnswerInv'
<1> DEFINE s == m.search
           tokens == DOMAIN deliveries \cup {m.token}
           grown == [t \in tokens |-> IF t = m.token THEN Append(Under(t), answer)
                                                     ELSE deliveries[t]]
<1>1. PICK kept \in SUBSET tokens :
        /\ deliveries' = [t \in kept |-> grown[t]]
        /\ evicted' = evicted \cup
             UNION {{a.search : a \in ToSet(grown[t])} : t \in tokens \ kept}
  BY DEF Queue
<1>2. \A t \in tokens : /\ IsSeq(grown[t])
                        /\ \A r : r \in SearchesIn(grown[t])
                             <=> \/ t \in DOMAIN deliveries /\ r \in SearchesIn(deliveries[t])
                                 \/ t = m.token /\ r = s
  <2> SUFFICES ASSUME NEW t \in tokens
               PROVE  /\ IsSeq(grown[t])
                      /\ \A r : r \in SearchesIn(grown[t])
                           <=> \/ t \in DOMAIN deliveries /\ r \in SearchesIn(deliveries[t])
                               \/ t = m.token /\ r = s
    OBVIOUS
  <2>1. CASE t = m.token
    <3>1. grown[t] = Append(Under(t), answer)
      BY <2>1
    <3>2. IsSeq(grown[t]) /\ ToSet(grown[t]) = ToSet(Under(t)) \cup {answer}
      <4>1. IsSeq(Under(t))
        BY UnderFacts
      <4> HIDE DEF grown
      <4>2. QED
        BY <3>1, <4>1, AppendFacts
    <3>3. \A r : r \in SearchesIn(grown[t]) <=> r \in SearchesIn(Under(t)) \/ r = s
      BY <3>2 DEF SearchesIn
    <3>4. QED
      BY <2>1, <3>2, <3>3, UnderFacts
  <2>2. CASE t # m.token
    <3>1. t \in DOMAIN deliveries /\ grown[t] = deliveries[t]
      BY <2>2
    <3>2. QED
      BY <2>2, <3>1 DEF AnswerInv
  <2>3. QED
    BY <2>1, <2>2
<1>3. /\ DOMAIN deliveries' = kept /\ \A t \in kept : deliveries'[t] = grown[t]
      /\ \A r : r \in evicted' <=>
                r \in evicted \/ \E t \in tokens \ kept : r \in SearchesIn(grown[t])
  BY <1>1 DEF SearchesIn
<1> HIDE DEF grown
<1>4. InMatching(s) /\ s \in asked /\ ~ Incoming(s) /\ ~ InQueue(s) /\ ~ Done(s)
  BY DEF AnswerInv, OnePlace, InMatching
\* An answer, the new one as well, is under one token.
<1>5. ASSUME NEW t \in tokens, NEW u \in tokens, NEW r,
             r \in SearchesIn(grown[t]), r \in SearchesIn(grown[u])
      PROVE  t = u
  BY <1>2, <1>4, <1>5 DEF AnswerInv, QueuedOnce, InQueue
<1>6. \A r : (\E t \in tokens : r \in SearchesIn(grown[t])) => r = s \/ InQueue(r)
  BY <1>2 DEF InQueue
<1>7. /\ \A r : Incoming(r)' <=> Incoming(r)
      /\ \A r : InMatching(r)' => InMatching(r) /\ r # s
      /\ \A r : InQueue(r)' => \E t \in kept : r \in SearchesIn(grown[t])
      /\ \A r : Done(r)' => Done(r) \/ \E t \in tokens \ kept : r \in SearchesIn(grown[t])
  <2>1. \A r : InMatching(r)' => InMatching(r) /\ r # s
    BY DEF InMatching, AnswerInv, MatchingOnce
  <2>2. QED
    BY <1>3, <2>1 DEF Incoming, InQueue, Done
<1>8. OnePlace'
  <2>1. \A r : InQueue(r)' => r = s \/ InQueue(r)
    BY <1>1, <1>6, <1>7
  <2>2. \A r : Done(r)' => Done(r) \/ r = s \/ InQueue(r)
    BY <1>6, <1>7
  <2>3. \A r : InQueue(r)' => ~ Done(r)'
    <3> SUFFICES ASSUME NEW r, InQueue(r)', Done(r)'
                 PROVE  FALSE
      OBVIOUS
    <3>1. PICK t \in kept : r \in SearchesIn(grown[t])
      BY <1>7
    <3>2. ~ Done(r)
      BY <1>4, <2>1 DEF AnswerInv, OnePlace
    <3>3. PICK u \in tokens \ kept : r \in SearchesIn(grown[u])
      BY <1>7, <3>2
    <3>4. QED
      BY <1>1, <1>5, <3>1, <3>3
  <2>4. asked' = asked
    OBVIOUS
  <2>5. QED
    BY <1>4, <1>7, <2>1, <2>2, <2>3, <2>4 DEF AnswerInv, OnePlace
<1>9. QueuedOnce' /\ \A t \in DOMAIN deliveries' : IsSeq(deliveries'[t])
  BY <1>1, <1>2, <1>3, <1>5 DEF QueuedOnce
<1>10. AskedFor'
  <2> SUFFICES ASSUME NEW ask \in asks'
               PROVE  \/ ask.token \in kept /\ ask.search \in SearchesIn(grown[ask.token])
                      \/ Done(ask.search)'
    BY <1>3 DEF AskedFor
  <2>1. \/ ask.token \in tokens /\ ask.search \in SearchesIn(grown[ask.token])
        \/ Done(ask.search)
    <3>1. CASE ask \in asks
      BY <1>2, <3>1 DEF AnswerInv, AskedFor
    <3>2. CASE ask \notin asks
      <4>1. ask.token = m.token /\ ask.search = s
        BY <3>2
      <4>2. QED
        BY <1>2, <4>1
    <3>3. QED
      BY <3>1, <3>2
  <2>2. \A r : Done(r) => Done(r)'
    BY <1>3 DEF Done
  <2>3. QED
    BY <1>3, <2>1, <2>2 DEF Done
<1>11. IsSeq(cmds') /\ IncomingOnce' /\ MatchingOnce'
  BY DEF AnswerInv, IncomingOnce, MatchingOnce
<1>12. QED
  BY <1>8, <1>9, <1>10, <1>11 DEF AnswerInv

LEMMA MatchedStep ==
  ASSUME AnswerInv, NEW m \in matching, Matched(m)
  PROVE  AnswerInv'
<1>1. CASE AnswerTo(m).files = << >>
  <2>1. /\ matching' = matching \ {m}
        /\ UNCHANGED <<cmds, asked, deliveries, asks, delivered, evicted>>
    BY <1>1 DEF Matched
  <2>2. /\ \A s : Incoming(s)' <=> Incoming(s)
        /\ \A s : InMatching(s)' => InMatching(s)
        /\ \A s : InQueue(s)' <=> InQueue(s)
        /\ \A s : Done(s)' <=> Done(s)
    BY <2>1 DEF Incoming, InMatching, InQueue, Done
  <2>3. OnePlace'
    BY <2>1, <2>2 DEF AnswerInv, OnePlace
  <2>4. QED
    BY <2>1, <2>3 DEF AnswerInv, IncomingOnce, MatchingOnce, QueuedOnce, AskedFor, Done
<1>2. CASE AnswerTo(m).files # << >>
  <2>1. AnswerTo(m).search = m.search
    BY DEF AnswerTo
  <2>2. /\ Queue(m.token, AnswerTo(m)) /\ matching' = matching \ {m}
        /\ asks' = asks \cup {[token |-> m.token, search |-> m.search]}
        /\ UNCHANGED <<cmds, asked, delivered>>
    BY <1>2 DEF Matched
  <2>3. QED
    BY <2>1, <2>2, QueueStep
<1>3. QED
  BY <1>1, <1>2

LEMMA PiercedStep ==
  ASSUME AnswerInv, NEW ask \in asks, Pierced(ask)
  PROVE  AnswerInv'
<1> DEFINE t == ask.token
<1>1. /\ t \in DOMAIN deliveries /\ delivered' = delivered \cup SearchesIn(deliveries[t])
      /\ DOMAIN deliveries' = DOMAIN deliveries \ {t}
      /\ \A u \in DOMAIN deliveries \ {t} : deliveries'[u] = deliveries[u]
      /\ UNCHANGED <<cmds, asked, matching, asks, evicted>>
  BY DEF Pierced, SearchesIn
<1>2. /\ \A s : Incoming(s)' <=> Incoming(s)
      /\ \A s : InMatching(s)' <=> InMatching(s)
      /\ \A s : InQueue(s)' => InQueue(s) /\ s \notin SearchesIn(deliveries[t])
      /\ \A s : Done(s)' <=> Done(s) \/ s \in SearchesIn(deliveries[t])
      /\ \A s \in SearchesIn(deliveries[t]) : InQueue(s)
  <2>1. \A s : InQueue(s)' => InQueue(s) /\ s \notin SearchesIn(deliveries[t])
    BY <1>1 DEF InQueue, AnswerInv, QueuedOnce
  <2>2. QED
    BY <1>1, <2>1 DEF Incoming, InMatching, InQueue, Done
<1>3. OnePlace'
  BY <1>1, <1>2 DEF AnswerInv, OnePlace
<1>4. QueuedOnce' /\ \A u \in DOMAIN deliveries' : IsSeq(deliveries'[u])
  BY <1>1 DEF AnswerInv, QueuedOnce
<1>5. AskedFor'
  BY <1>1, <1>2 DEF AnswerInv, AskedFor
<1>6. QED
  BY <1>1, <1>3, <1>4, <1>5 DEF AnswerInv, IncomingOnce, MatchingOnce

LEMMA NextAnswerInv ==
  ASSUME AnswerInv, [Next]_vars
  PROVE  AnswerInv'
<1>1. CASE UNCHANGED vars \/ \E config \in scans : ScanEnds(config)
  BY <1>1, OtherCommandStep DEF vars, deliveryVars, ScanEnds
<1>2. CASE \E s \in Searches : SearchArrives(s)
  BY <1>2, SearchArrivesStep
<1>3. CASE ConfigChanged
  <2> DEFINE x == [type |-> "ApplyConfig", config |-> saved + 1]
  <2>1. x.type # "IncomingSearch" /\ cmds' = Append(cmds, x)
    BY <1>3 DEF ConfigChanged
  <2> HIDE DEF x
  <2>2. QED
    BY <1>3, <2>1, OtherCommandStep DEF ConfigChanged, deliveryVars
<1>4. CASE PhrasesArrive
  <2> DEFINE x == [type |-> "SetExcludedPhrases"]
  <2>1. x.type # "IncomingSearch" /\ cmds' = Append(cmds, x)
    BY <1>4 DEF PhrasesArrive
  <2> HIDE DEF x
  <2>2. QED
    BY <1>4, <2>1, OtherCommandStep DEF PhrasesArrive, deliveryVars
<1>5. CASE IncomingSearch
  BY <1>5, IncomingSearchStep
<1>6. CASE ApplyConfig \/ SetExcludedPhrases
  BY <1>6, OtherCommandStep DEF ApplyConfig, SetExcludedPhrases, Commanded, deliveryVars
<1>7. CASE \E m \in matching : Matched(m)
  BY <1>7, MatchedStep
<1>8. CASE \E ask \in asks : Pierced(ask)
  BY <1>8, PiercedStep
<1>9. QED
  BY <1>1, <1>2, <1>3, <1>4, <1>5, <1>6, <1>7, <1>8 DEF Next

\* A searcher that is asked to connect has the answer waiting under its token
\* until that is collected, once, or has to make room (IncomingSearch,
\* PendingDeliveries, serve_connection): for any searches and indexes, any cap,
\* any order in which matchings end, and wherever the token counter wraps.
THEOREM AskedSearchersAreServed == Spec => []AskedHasOneAnswer
<1>1. AnswerInv => AskedHasOneAnswer
  <2> SUFFICES ASSUME AnswerInv, NEW ask \in asks
               PROVE  /\ \/ \E a \in ToSet(Under(ask.token)) : a.search = ask.search
                         \/ ask.search \in delivered \cup evicted
                      /\ ~ (Queued(ask.search) /\ ask.search \in delivered \cup evicted)
    BY DEF AskedHasOneAnswer
  <2>1. \A s : InQueue(s) <=> Queued(s)
    BY DEF InQueue, Queued, SearchesIn
  <2>2. ask.search \in SearchesIn(Under(ask.token)) \/ Done(ask.search)
    BY UnderFacts DEF AnswerInv, AskedFor
  <2>3. QED
    BY <2>1, <2>2 DEF AnswerInv, OnePlace, Done, SearchesIn
<1>2. QED
  BY <1>1, InitAnswerInv, NextAnswerInv, PTL DEF Spec

-----------------------------------------------------------------------------
(* What a search finds.                                                      *)

Upto(S, f) == {g \in S : g <= f}

\* A finite set of numbers in order: the n-th is one of them that n of them do
\* not exceed, and each of them has its place.
LEMMA OrderOfSet ==
  ASSUME NEW S \in SUBSET Nat, IsFiniteSet(S)
  PROVE  /\ Cardinality(S) \in Nat
         /\ \A f \in S : IsFiniteSet(Upto(S, f)) /\ Cardinality(Upto(S, f)) \in 1 .. Cardinality(S)
         /\ \A f, g \in S : f < g => Cardinality(Upto(S, f)) < Cardinality(Upto(S, g))
         /\ \A n \in 1 .. Cardinality(S) : \E f \in S : Cardinality(Upto(S, f)) = n
<1>1. Cardinality(S) \in Nat
  BY FS_CardinalityType
<1>2. ASSUME NEW f \in S
      PROVE  IsFiniteSet(Upto(S, f)) /\ Cardinality(Upto(S, f)) \in 1 .. Cardinality(S)
  <2>1. Upto(S, f) \subseteq S /\ f \in Upto(S, f)
    BY DEF Upto
  <2>2. /\ IsFiniteSet(Upto(S, f)) /\ Cardinality(Upto(S, f)) \in Nat
        /\ Cardinality(Upto(S, f)) <= Cardinality(S)
    BY <2>1, FS_Subset, FS_CardinalityType
  <2>3. Cardinality(Upto(S, f)) # 0
    BY <2>1, <2>2, FS_EmptySet
  <2>4. QED
    BY <1>1, <2>2, <2>3
<1>3. ASSUME NEW f \in S, NEW g \in S, f < g
      PROVE  Cardinality(Upto(S, f)) < Cardinality(Upto(S, g))
  <2>1. Upto(S, f) \subseteq Upto(S, g) /\ g \in Upto(S, g) /\ g \notin Upto(S, f)
    <3>1. \A h \in S : h \in Nat
      OBVIOUS
    <3>2. ~ g <= f /\ g <= g /\ \A h \in S : h <= f => h <= g
      BY <1>3, <3>1
    <3>3. QED
      BY <3>2, Zenon DEF Upto
  <2>2. Upto(S, f) # Upto(S, g)
    BY <2>1
  <2>3. IsFiniteSet(Upto(S, g)) /\ Cardinality(Upto(S, f)) \in Nat
        /\ Cardinality(Upto(S, g)) \in Nat
    BY <1>1, <1>2
  <2>4. QED
    BY <2>1, <2>2, <2>3, FS_Subset
<1>4. ASSUME NEW n \in 1 .. Cardinality(S)
      PROVE  \E f \in S : Cardinality(Upto(S, f)) = n
  <2> DEFINE place == [f \in S |-> Cardinality(Upto(S, f))]
  <2>1. place \in [S -> 1 .. Cardinality(S)]
    BY <1>2
  <2>2. \A f, g \in S : place[f] = place[g] => f = g
    BY <1>1, <1>2, <1>3
  <2>3. place \in Injection(S, 1 .. Cardinality(S))
    BY <2>1, <2>2 DEF Injection, IsInjective
  <2>4. /\ IsFiniteSet(1 .. Cardinality(S))
        /\ Cardinality(1 .. Cardinality(S)) = Cardinality(S)
    BY <1>1, FS_Interval
  <2>5. place \in Surjection(S, 1 .. Cardinality(S))
    BY <2>3, <2>4, FS_Injection
  <2>6. QED
    BY <2>5 DEF Surjection
<1>5. QED
  BY <1>1, <1>2, <1>3, <1>4

\* InOrder names each number of the set once, the smaller ones first.
LEMMA InOrderHolds ==
  ASSUME NEW S \in SUBSET Nat, IsFiniteSet(S)
  PROVE  /\ InOrder(S) \in Seq(S) /\ Len(InOrder(S)) = Cardinality(S)
         /\ DOMAIN InOrder(S) = 1 .. Cardinality(S) /\ Cardinality(S) \in Nat
         /\ \A n \in 1 .. Cardinality(S) :
              InOrder(S)[n] \in S /\ Cardinality(Upto(S, InOrder(S)[n])) = n
         /\ ToSet(InOrder(S)) = S
         /\ \A m, n \in 1 .. Cardinality(S) : m < n => InOrder(S)[m] < InOrder(S)[n]
<1> DEFINE nth(n) == CHOOSE f \in S : Cardinality(Upto(S, f)) = n
           list == InOrder(S)
<1>1. Cardinality(S) \in Nat /\ list = [n \in 1 .. Cardinality(S) |-> nth(n)]
  BY OrderOfSet DEF InOrder, Upto
<1>2. \A n \in 1 .. Cardinality(S) : nth(n) \in S /\ Cardinality(Upto(S, nth(n))) = n
  BY OrderOfSet
<1> HIDE DEF nth
<1>3. \A n \in 1 .. Cardinality(S) : list[n] \in S /\ Cardinality(Upto(S, list[n])) = n
  BY <1>1, <1>2
<1>4. DOMAIN list = 1 .. Cardinality(S)
  BY <1>1
<1>5. list \in Seq(S) /\ Len(list) = Cardinality(S)
  <2>1. \A n \in 1 .. Cardinality(S) : nth(n) \in S
    BY <1>2
  <2>2. list \in Seq(S)
    BY <1>1, <2>1, IsASeq
  <2>3. QED
    BY <1>1, <1>4, <2>2
<1> HIDE DEF list
<1>6. \A m, n \in 1 .. Cardinality(S) : m < n => list[m] < list[n]
  <2> SUFFICES ASSUME NEW m \in 1 .. Cardinality(S), NEW n \in 1 .. Cardinality(S), m < n
               PROVE  list[m] < list[n]
    OBVIOUS
  <2>1. list[m] \in Nat /\ list[n] \in Nat
    BY <1>3
  <2>2. CASE list[m] = list[n]
    BY <1>3, <2>2
  <2>3. CASE list[n] < list[m]
    <3>1. Cardinality(Upto(S, list[n])) < Cardinality(Upto(S, list[m]))
      BY <1>3, <2>3, OrderOfSet
    <3>2. QED
      BY <1>1, <1>3, <3>1
  <2>4. QED
    BY <2>1, <2>2, <2>3
<1>7. ToSet(list) = S
  <2>1. ToSet(list) \subseteq S
    BY <1>3, <1>4 DEF ToSet
  <2>2. ASSUME NEW f \in S
        PROVE  f \in ToSet(list)
    <3>1. PICK n : n = Cardinality(Upto(S, f))
      OBVIOUS
    <3>2. n \in 1 .. Cardinality(S) /\ list[n] \in S /\ Cardinality(Upto(S, list[n])) = n
      BY <1>3, <3>1, OrderOfSet
    <3>3. list[n] = f
      <4>1. \A g, h \in S : g < h => Cardinality(Upto(S, g)) < Cardinality(Upto(S, h))
        BY OrderOfSet
      <4>2. /\ list[n] < f => n < n
            /\ f < list[n] => n < n
        BY <3>1, <3>2, <4>1
      <4>3. list[n] \in Nat /\ f \in Nat /\ n \in Nat
        <5>1. \A g \in S : g \in Nat
          OBVIOUS
        <5>2. n \in Nat
          BY <1>1, <3>2
        <5>3. QED
          BY <3>2, <5>1, <5>2
      <4>4. QED
        BY <4>2, <4>3
    <3>4. QED
      BY <1>4, <3>2, <3>3 DEF ToSet
  <2>3. QED
    BY <2>1, <2>2
<1>8. QED
  BY <1>1, <1>3, <1>4, <1>5, <1>6, <1>7 DEF list

\* The first of them are those that at most max do not exceed.
LEMMA FirstOfOrder ==
  ASSUME NEW S \in SUBSET Nat, IsFiniteSet(S), NEW max \in Nat
  PROVE  /\ FirstOf(InOrder(S), max) = {f \in S : Cardinality(Upto(S, f)) <= max}
         /\ Cardinality(S) <= max => FirstOf(InOrder(S), max) = S
         /\ IsFiniteSet(FirstOf(InOrder(S), max))
         /\ Cardinality(FirstOf(InOrder(S), max)) <= max
<1> DEFINE c == Cardinality(S)
           list == InOrder(S)
           kept == {f \in S : Cardinality(Upto(S, f)) <= max}
<1>1. /\ c \in Nat /\ DOMAIN list = 1 .. c /\ ToSet(list) = S
      /\ \A n \in 1 .. c : list[n] \in S /\ Cardinality(Upto(S, list[n])) = n
  BY InOrderHolds
<1> HIDE DEF list
<1>2. ToSet(list) = {list[n] : n \in 1 .. c}
  BY <1>1 DEF ToSet
<1>3. FirstOf(list, max) = kept
  <2>1. FirstOf(list, max) = {list[n] : n \in {i \in 1 .. c : i <= max}}
    BY <1>1 DEF FirstOf
  <2>2. ASSUME NEW f \in kept
        PROVE  f \in {list[n] : n \in {i \in 1 .. c : i <= max}}
    <3>1. PICK n \in 1 .. c : list[n] = f
      BY <1>1, <1>2
    <3>2. n <= max
      BY <1>1, <3>1
    <3>3. QED
      BY <3>1, <3>2
  <2>3. ASSUME NEW n \in 1 .. c, n <= max
        PROVE  list[n] \in kept
    BY <1>1, <2>3
  <2>4. QED
    BY <2>1, <2>2, <2>3
<1>4. kept \subseteq S /\ IsFiniteSet(kept)
  BY FS_Subset
<1>5. c <= max => kept = S
  <2>1. ASSUME c <= max, NEW f \in S
        PROVE  Cardinality(Upto(S, f)) <= max
    <3>1. Cardinality(Upto(S, f)) \in 1 .. c
      BY OrderOfSet
    <3>2. QED
      BY <1>1, <2>1, <3>1
  <2>2. QED
    BY <2>1
<1>6. Cardinality(kept) <= max
  <2> DEFINE place == [f \in kept |-> Cardinality(Upto(S, f))]
  <2>1. place \in [kept -> 1 .. max]
    <3>1. \A f \in kept : f \in S /\ Cardinality(Upto(S, f)) \in 1 .. c
                           /\ Cardinality(Upto(S, f)) <= max
      BY OrderOfSet
    <3>2. \A f \in kept : Cardinality(Upto(S, f)) \in 1 .. max
      BY <1>1, <3>1
    <3>3. QED
      BY <3>2
  <2>2. \A f, g \in kept : place[f] = place[g] => f = g
    <3>1. \A f, g \in S : f < g => Cardinality(Upto(S, f)) < Cardinality(Upto(S, g))
      BY OrderOfSet
    <3>2. \A f \in S : Cardinality(Upto(S, f)) \in Nat
      BY <1>1, OrderOfSet
    <3>3. QED
      BY <3>1, <3>2
  <2>3. place \in Injection(kept, 1 .. max)
    BY <2>1, <2>2 DEF Injection, IsInjective
  <2>4. IsFiniteSet(1 .. max) /\ Cardinality(1 .. max) = max
    BY FS_Interval
  <2>5. QED
    BY <2>3, <2>4, FS_Injection
<1>7. QED
  BY <1>3, <1>4, <1>5, <1>6 DEF list

\* The ids under a word are those of the files that bear it.
LEMMA IdsOfHolds ==
  ASSUME NEW scan, IsScan(scan), NEW word
  PROVE  /\ Len(scan) \in Nat /\ DOMAIN scan = 1 .. Len(scan)
         /\ ToSet(IdsOf(scan, word)) = {id \in DOMAIN scan : word \in WordsOf[scan[id]]}
         /\ {id \in DOMAIN scan : word \in WordsOf[scan[id]]} \in SUBSET Nat
         /\ IsFiniteSet({id \in DOMAIN scan : word \in WordsOf[scan[id]]})
<1> DEFINE S == {id \in DOMAIN scan : word \in WordsOf[scan[id]]}
<1>1. Len(scan) \in Nat /\ DOMAIN scan = 1 .. Len(scan)
  BY DEF IsScan
<1>2. S \subseteq 1 .. Len(scan) /\ IsFiniteSet(1 .. Len(scan))
  BY <1>1, FS_Interval
<1>3. S \in SUBSET Nat /\ IsFiniteSet(S)
  BY <1>1, <1>2, FS_Subset
<1>4. ToSet(InOrder(S)) = S
  BY <1>3, InOrderHolds
<1>5. QED
  BY <1>1, <1>3, <1>4 DEF IdsOf

MatchingIn(terms, scan) == {f \in ToSet(scan) : Matches(terms, f)}

\* A list of the files of some ids: in path order, no more of them than are
\* allowed, and of the smallest paths those that no phrase occurs in.
LEMMA FileInfoHolds ==
  ASSUME NEW found \in SUBSET Nat, IsFiniteSet(found), NEW max \in Nat, NEW phrases,
         NEW scan, NEW ids, found = {scan[id] : id \in ids},
         NEW files, files = FileInfoList(ids, max, phrases, scan)
  PROVE  /\ \A i, j \in DOMAIN files : i < j => files[i] < files[j]
         /\ Len(files) <= max
         /\ ToSet(files) = {f \in found : /\ Cardinality({g \in found : g < f}) < max
                                          /\ Allowed(phrases, f)}
<1> DEFINE kept == FirstOf(InOrder(found), max)
           left == {f \in kept : Allowed(phrases, f)}
<1>1. /\ kept = {f \in found : Cardinality(Upto(found, f)) <= max}
      /\ IsFiniteSet(kept) /\ Cardinality(kept) <= max
  BY FirstOfOrder
<1>2. files = InOrder(left)
  BY DEF FileInfoList, Allowed
<1> HIDE DEF kept
<1>3. kept \subseteq found /\ left \subseteq kept
  BY <1>1
<1>4. /\ left \in SUBSET Nat /\ IsFiniteSet(left) /\ Cardinality(left) \in Nat
      /\ Cardinality(left) <= max
  <2>1. /\ IsFiniteSet(left) /\ Cardinality(left) <= Cardinality(kept)
        /\ Cardinality(left) \in Nat /\ Cardinality(kept) \in Nat
    BY <1>1, <1>3, FS_Subset, FS_CardinalityType
  <2>2. QED
    BY <1>1, <1>3, <2>1
<1> HIDE DEF left
<1>5. /\ Len(files) = Cardinality(left) /\ DOMAIN files = 1 .. Cardinality(left)
      /\ ToSet(files) = left
      /\ \A i, j \in 1 .. Cardinality(left) : i < j => files[i] < files[j]
  BY <1>2, <1>4, InOrderHolds
<1>6. \A f \in found : Cardinality(Upto(found, f)) <= max
                         <=> Cardinality({g \in found : g < f}) < max
  <2> SUFFICES ASSUME NEW f \in found
               PROVE  Cardinality(Upto(found, f)) <= max
                        <=> Cardinality({g \in found : g < f}) < max
    OBVIOUS
  <2> DEFINE below == {g \in found : g < f}
  <2>1. Upto(found, f) = below \cup {f} /\ f \notin below
    <3>1. \A g \in found : g \in Nat
      OBVIOUS
    <3>2. \A g \in found : g <= f <=> g < f \/ g = f
      BY <3>1
    <3>3. ~ f < f
      BY <3>1
    <3>4. QED
      BY <3>2, <3>3, Zenon DEF Upto
  <2>2. IsFiniteSet(below)
    <3>1. below \subseteq found
      OBVIOUS
    <3>2. QED
      BY <3>1, FS_Subset
  <2> HIDE DEF below
  <2>3. Cardinality(below) \in Nat /\ Cardinality(Upto(found, f)) = Cardinality(below) + 1
    BY <2>1, <2>2, FS_AddElement, FS_CardinalityType
  <2>4. QED
    BY <2>3 DEF below
<1>7. left = {f \in found : /\ Cardinality({g \in found : g < f}) < max
                            /\ Allowed(phrases, f)}
  BY <1>1, <1>6 DEF left
<1>8. QED
  BY <1>4, <1>5, <1>7

\* The ids that every word leaves are those of the files that match, unless a
\* query of a single word was cut short.
LEMMA ResultListHolds ==
  ASSUME NEW terms, IsQuery(terms), NEW max \in Nat, NEW scan, IsScan(scan),
         NEW ids, ids = ResultList(terms, max, scan)
  PROVE  /\ ids \subseteq DOMAIN scan
         /\ \A id \in ids : Matches(terms, scan[id])
         /\ \/ \A id \in DOMAIN scan : Matches(terms, scan[id]) => id \in ids
            \/ /\ Cardinality({id \in DOMAIN scan : Matches(terms, scan[id])}) > max
               /\ terms = [included |-> <<Head(terms.included)>>,
                           excluded |-> {}, partial |-> {}]
<1> DEFINE has(w) == {id \in DOMAIN scan : w \in WordsOf[scan[id]]}
<1>1. /\ \A w : ToSet(IdsOf(scan, w)) = has(w) /\ has(w) \in SUBSET Nat /\ IsFiniteSet(has(w))
      /\ \A w : has(w) \subseteq DOMAIN scan
  BY IdsOfHolds
<1>2. CASE terms.included = << >>
  <2>1. ids = {} /\ \A f : ~ Matches(terms, f)
    BY <1>2 DEF ResultList, Matches
  <2>2. QED
    BY <2>1
<1>3. CASE terms.included # << >>
  <2> DEFINE first == Head(terms.included)
             full == {id \in DOMAIN scan : Matches(terms, scan[id])}
  <2>1. /\ first \in ToSet(terms.included)
        /\ Len(terms.included) = 1 => /\ terms.included = <<first>>
                                      /\ ToSet(terms.included) = {first}
    <3> DEFINE S == ToSet(terms.included)
               list == terms.included
    <3>1. list \in Seq(S) /\ list # << >> /\ \A w \in S : \E i \in DOMAIN list : w = list[i]
      BY <1>3 DEF IsQuery, ToSet
    <3> HIDE DEF S, list
    <3>2. Len(list) \in Nat \ {0} /\ DOMAIN list = 1 .. Len(list) /\ Head(list) = list[1]
          /\ list[1] \in S
      BY <3>1
    <3>3. Len(list) = 1 => list = <<list[1]>> /\ S = {list[1]}
      <4>1. ASSUME Len(list) = 1
            PROVE  list = <<list[1]>>
        BY <3>1, <3>2, <4>1
      <4>2. ASSUME Len(list) = 1, NEW w \in S
            PROVE  w = list[1]
        <5>1. PICK i \in 1 .. Len(list) : w = list[i]
          BY <3>1, <3>2
        <5>2. i = 1
          BY <4>2, <5>1
        <5>3. QED
          BY <5>1, <5>2
      <4>3. QED
        BY <3>2, <4>1, <4>2
    <3>4. QED
      BY <3>2, <3>3 DEF S, list
  <2>2. \A id \in DOMAIN scan : Matches(terms, scan[id]) <=>
          /\ \A word \in ToSet(terms.included) : id \in has(word)
          /\ \A end \in terms.partial :
                \E word \in Vocabulary(scan) \cap EndsWith[end] : id \in has(word)
          /\ \A word \in terms.excluded : id \notin has(word)
    <3> SUFFICES ASSUME NEW id \in DOMAIN scan
                 PROVE  Matches(terms, scan[id]) <=>
          /\ \A word \in ToSet(terms.included) : id \in has(word)
          /\ \A end \in terms.partial :
                \E word \in Vocabulary(scan) \cap EndsWith[end] : id \in has(word)
          /\ \A word \in terms.excluded : id \notin has(word)
      OBVIOUS
    <3>1. WordsOf[scan[id]] \subseteq Vocabulary(scan)
      BY DEF Vocabulary
    <3>2. \A word : id \in has(word) <=> word \in WordsOf[scan[id]]
      OBVIOUS
    <3> HIDE DEF has
    <3>3. \A end \in terms.partial :
            WordsOf[scan[id]] \cap EndsWith[end] # {}
              <=> \E word \in Vocabulary(scan) \cap EndsWith[end] : id \in has(word)
      BY <3>1, <3>2
    <3>4. QED
      BY <1>3, <3>2, <3>3 DEF Matches
  <2>3. ids = {id \in StartIds(terms, max, scan) :
                 /\ \A word \in ToSet(terms.included) : id \in has(word)
                 /\ \A end \in terms.partial :
                       \E word \in Vocabulary(scan) \cap EndsWith[end] : id \in has(word)
                 /\ \A word \in terms.excluded : id \notin has(word)}
    <3> HIDE DEF has
    <3>1. QED
      BY <1>1, <1>3 DEF ResultList
  <2>4. StartIds(terms, max, scan) =
          IF SingleWord(terms) THEN FirstOf(IdsOf(scan, first), max) ELSE has(first)
    BY <1>1 DEF StartIds
  <2>5. FirstOf(IdsOf(scan, first), max) \subseteq has(first)
    <3>1. \A list : FirstOf(list, max) \subseteq ToSet(list)
      BY DEF FirstOf, ToSet
    <3>2. QED
      BY <1>1, <3>1
  <2>6. /\ ids \subseteq DOMAIN scan /\ \A id \in ids : Matches(terms, scan[id])
        /\ \A id \in full : id \in StartIds(terms, max, scan) => id \in ids
    <3>1. StartIds(terms, max, scan) \subseteq DOMAIN scan
      BY <1>1, <2>4, <2>5
    <3> HIDE DEF has
    <3>2. QED
      BY <2>2, <2>3, <3>1
  <2>7. full \subseteq has(first)
    BY <2>1, <2>2
  <2>8. CASE ~ SingleWord(terms) \/ Cardinality(has(first)) <= max
    <3>1. StartIds(terms, max, scan) = has(first)
      <4>1. CASE ~ SingleWord(terms)
        BY <2>4, <4>1
      <4>2. CASE Cardinality(has(first)) <= max
        <5>1. FirstOf(InOrder(has(first)), max) = has(first)
          BY <1>1, <4>2, FirstOfOrder
        <5>2. QED
          BY <2>4, <5>1 DEF IdsOf
      <4>3. QED
        BY <2>8, <4>1, <4>2
    <3>2. QED
      BY <2>6, <2>7, <3>1
  <2>9. CASE SingleWord(terms) /\ ~ Cardinality(has(first)) <= max
    <3>1. terms = [included |-> <<first>>, excluded |-> {}, partial |-> {}]
      BY <2>1, <2>9 DEF SingleWord, IsQuery
    <3>2. has(first) \subseteq full
      BY <1>3, <2>1, <2>2, <2>9 DEF SingleWord
    <3>3. full = has(first) /\ Cardinality(has(first)) \in Nat
      BY <1>1, <2>7, <3>2, FS_CardinalityType
    <3>4. Cardinality(full) > max
      <4> HIDE DEF has, full
      <4>1. QED
        BY <2>9, <3>3
    <3>5. QED
      BY <2>6, <3>1, <3>4
  <2>10. QED
    BY <2>8, <2>9
<1>4. QED
  BY <1>2, <1>3

\* An answer to a query is what it ought to be: for any query, any cap, any
\* phrases and any scan.
LEMMA RespondIsAnswer ==
  ASSUME NEW terms, IsQuery(terms), NEW max \in Nat, NEW phrases, NEW scan, IsScan(scan)
  PROVE  IsAnswer(Respond(terms, max, phrases, scan), terms, max, phrases, scan)
<1> DEFINE ids == ResultList(terms, max, scan)
           found == {scan[id] : id \in ids}
           files == Respond(terms, max, phrases, scan)
           full == {id \in DOMAIN scan : Matches(terms, scan[id])}
           fit == MatchingIn(terms, scan)
<1>1. /\ ids \subseteq DOMAIN scan
      /\ \A id \in ids : Matches(terms, scan[id])
      /\ \/ \A id \in DOMAIN scan : Matches(terms, scan[id]) => id \in ids
         \/ /\ Cardinality(full) > max
            /\ terms = [included |-> <<Head(terms.included)>>,
                        excluded |-> {}, partial |-> {}]
  BY ResultListHolds
<1>2. /\ Len(scan) \in Nat /\ DOMAIN scan = 1 .. Len(scan)
      /\ \A id \in DOMAIN scan : scan[id] \in Nat
      /\ \A i, j \in DOMAIN scan : scan[i] = scan[j] => i = j
  BY MatchAssumption DEF IsScan
<1>3. files = FileInfoList(ids, max, phrases, scan)
  BY DEF Respond
<1> HIDE DEF ids, files
<1>4. found \subseteq fit
  BY <1>1 DEF MatchingIn, ToSet
<1>5. fit = {scan[id] : id \in full}
  BY DEF MatchingIn, ToSet
<1>6. /\ IsFiniteSet(full) /\ IsFiniteSet(fit) /\ fit \in SUBSET Nat
      /\ Cardinality(fit) = Cardinality(full)
  <2>1. IsFiniteSet(full)
    <3>1. full \subseteq 1 .. Len(scan) /\ IsFiniteSet(1 .. Len(scan))
      BY <1>2, FS_Interval
    <3>2. QED
      BY <3>1, FS_Subset
  <2> DEFINE named == [id \in full |-> scan[id]]
  <2>2. named \in Injection(full, fit)
    <3>1. named \in [full -> fit]
      BY <1>5
    <3>2. \A i, j \in full : named[i] = named[j] => i = j
      BY <1>2
    <3>3. QED
      BY <3>1, <3>2 DEF Injection, IsInjective
  <2>3. named \in Surjection(full, fit)
    <3>1. named \in [full -> fit]
      BY <1>5
    <3>2. \A f \in fit : \E id \in full : named[id] = f
      BY <1>5
    <3>3. QED
      BY <3>1, <3>2 DEF Surjection
  <2>4. IsFiniteSet(fit) /\ Cardinality(fit) = Cardinality(full)
    <3>1. named \in Bijection(full, fit)
      BY <2>2, <2>3 DEF Bijection
    <3>2. ExistsBijection(full, fit)
      BY <3>1 DEF ExistsBijection
    <3>3. QED
      BY <2>1, <3>2, FS_Bijection
  <2>5. fit \in SUBSET Nat
    BY <1>2, <1>5
  <2>6. QED
    BY <2>1, <2>4, <2>5
<1>7. found \in SUBSET Nat /\ IsFiniteSet(found)
  BY <1>4, <1>6, FS_Subset
<1> HIDE DEF full, fit
<1>8. /\ \A i, j \in DOMAIN files : i < j => files[i] < files[j]
      /\ Len(files) <= max
      /\ ToSet(files) = {f \in found : /\ Cardinality({g \in found : g < f}) < max
                                       /\ Allowed(phrases, f)}
  BY <1>3, <1>7, FileInfoHolds
<1>9. ToSet(files) \subseteq {f \in fit : Allowed(phrases, f)}
  BY <1>4, <1>8
<1>10. CASE \A id \in DOMAIN scan : Matches(terms, scan[id]) => id \in ids
  <2>1. found = fit
    BY <1>4, <1>5, <1>10 DEF full
  <2>2. ToSet(files) = {f \in {f \in fit : Cardinality({g \in fit : g < f}) < max} :
                          Allowed(phrases, f)}
    BY <1>8, <2>1
  <2>3. QED
    BY <1>8, <1>9, <2>2 DEF IsAnswer, fit, MatchingIn, files
<1>11. CASE /\ Cardinality(full) > max
            /\ terms = [included |-> <<Head(terms.included)>>,
                        excluded |-> {}, partial |-> {}]
  <2>1. Cardinality(fit) > max
    BY <1>6, <1>11
  <2>2. QED
    BY <1>8, <1>9, <1>11, <2>1 DEF IsAnswer, fit, MatchingIn, files
<1>12. QED
  BY <1>1, <1>10, <1>11

-----------------------------------------------------------------------------
(* And it is what waits for the searcher.                                    *)

\* What was read for a search: an index and a cap of some configuration.
IsRead(m) ==
  /\ m.search \in Searches
  /\ m.cap \in Nat /\ m.config + 1 \in 1 .. Len(SharesOf)

ReadInv ==
  /\ saved <= LastConfig
  /\ \A i \in 1 .. Len(cmds) : cmds[i].type = "IncomingSearch" => cmds[i].search \in Searches
  /\ \A m \in matching : IsRead(m)
  /\ \A t \in DOMAIN deliveries :
       /\ IsSeq(deliveries[t])
       /\ \A a \in ToSet(deliveries[t]) : IsRead(a.from) /\ a = AnswerTo(a.from)

LEMMA ReadAnswersAreRight == ReadInv => AnswersAreRight
<1> SUFFICES ASSUME ReadInv, NEW t \in DOMAIN deliveries, NEW a \in ToSet(deliveries[t])
             PROVE  IsAnswer(a.files, QueryOf[a.search], a.from.cap, a.from.phrases,
                             SharesOf[a.from.config + 1])
  BY DEF AnswersAreRight
<1>1. PICK m : m = a.from
  OBVIOUS
<1>2. IsRead(m) /\ a = AnswerTo(m)
  BY <1>1 DEF ReadInv
<1>3. a.search = m.search
      /\ a.files = Respond(QueryOf[m.search], m.cap, m.phrases, SharesOf[m.config + 1])
  BY <1>2 DEF AnswerTo
<1>4. /\ IsQuery(QueryOf[m.search]) /\ m.cap \in Nat /\ IsScan(SharesOf[m.config + 1])
  BY <1>2, AnswersAssumption DEF IsRead
<1>5. QED
  BY <1>1, <1>3, <1>4, RespondIsAnswer

LEMMA InitReadInv == Init => ReadInv
<1> SUFFICES ASSUME Init
             PROVE  ReadInv
  OBVIOUS
<1>1. Len(cmds) = 0 /\ matching = {} /\ DOMAIN deliveries = {} /\ saved = 0
  BY DEF Init
<1>2. saved <= LastConfig
  BY <1>1, AnswersAssumption DEF LastConfig
<1>3. QED
  BY <1>1, <1>2 DEF ReadInv

\* A command that comes in, and one that is taken up.
LEMMA SearchesAdded ==
  ASSUME ReadInv, IsSeq(cmds), NEW x, cmds' = Append(cmds, x),
         x.type = "IncomingSearch" => x.search \in Searches
  PROVE  \A i \in 1 .. Len(cmds') :
           cmds'[i].type = "IncomingSearch" => cmds'[i].search \in Searches
<1>1. /\ Len(cmds') = Len(cmds) + 1 /\ Len(cmds) \in Nat /\ cmds'[Len(cmds) + 1] = x
      /\ \A i \in 1 .. Len(cmds) : cmds'[i] = cmds[i]
  BY AppendFacts, SeqFacts
<1>2. \A i \in 1 .. Len(cmds) + 1 : i = Len(cmds) + 1 \/ i \in 1 .. Len(cmds)
  BY <1>1
<1>3. QED
  BY <1>1, <1>2 DEF ReadInv

LEMMA SearchesTaken ==
  ASSUME ReadInv, IsSeq(cmds), cmds # << >>, cmds' = Tail(cmds)
  PROVE  /\ \A i \in 1 .. Len(cmds') :
              cmds'[i].type = "IncomingSearch" => cmds'[i].search \in Searches
         /\ 1 \in 1 .. Len(cmds) /\ Head(cmds) = cmds[1]
<1>1. /\ Len(cmds) \in Nat \ {0} /\ Head(cmds) = cmds[1] /\ Len(cmds') = Len(cmds) - 1
      /\ \A i \in 1 .. Len(cmds) - 1 : i + 1 \in 2 .. Len(cmds) /\ cmds'[i] = cmds[i + 1]
  BY TailFacts
<1>2. \A i \in 1 .. Len(cmds) - 1 : i + 1 \in 1 .. Len(cmds)
  BY <1>1
<1>3. QED
  BY <1>1, <1>2 DEF ReadInv

\* An answer that is queued was computed from what was read.
LEMMA MatchedRead ==
  ASSUME ReadInv, AnswerInv, NEW m \in matching, Matched(m)
  PROVE  ReadInv'
<1>1. /\ matching' \subseteq matching /\ UNCHANGED <<cmds, saved>>
      /\ IsRead(m)
  BY DEF Matched, configVars, ReadInv
<1>2. CASE AnswerTo(m).files = << >>
  BY <1>1, <1>2 DEF Matched, ReadInv, IsRead, AnswerTo
<1>3. CASE AnswerTo(m).files # << >>
  <2> DEFINE answer == AnswerTo(m)
             tokens == DOMAIN deliveries \cup {m.token}
             grown == [t \in tokens |-> IF t = m.token THEN Append(Under(t), answer)
                                                       ELSE deliveries[t]]
             right(a) == IsRead(a.from) /\ a = AnswerTo(a.from)
  <2>1. PICK kept \in SUBSET tokens : deliveries' = [t \in kept |-> grown[t]]
    BY <1>3 DEF Matched, Queue
  <2>2. right(answer)
    <3>1. answer.from = m
      BY DEF AnswerTo
    <3> HIDE DEF answer
    <3>2. QED
      BY <1>1, <3>1 DEF answer
  <2>3. ASSUME NEW t \in tokens
        PROVE  IsSeq(grown[t]) /\ \A a \in ToSet(grown[t]) : right(a)
    <3>1. CASE t = m.token
      <4>1. IsSeq(Under(t)) /\ \A a \in ToSet(Under(t)) : right(a)
        <5>1. CASE t \in DOMAIN deliveries
          BY <5>1 DEF ReadInv, Under
        <5>2. CASE t \notin DOMAIN deliveries
          <6>1. Under(t) = << >> /\ IsSeq(<< >>) /\ ToSet(<< >>) = {}
            BY <5>2 DEF Under, IsSeq, ToSet
          <6>2. QED
            BY <6>1
        <5>3. QED
          BY <5>1, <5>2
      <4>2. grown[t] = Append(Under(t), answer)
        BY <3>1
      <4> HIDE DEF grown, answer, right
      <4>3. IsSeq(grown[t]) /\ ToSet(grown[t]) = ToSet(Under(t)) \cup {answer}
        BY <4>1, <4>2, AppendFacts
      <4>4. QED
        BY <2>2, <4>1, <4>3
    <3>2. CASE t # m.token
      BY <3>2 DEF ReadInv
    <3>3. QED
      BY <3>1, <3>2
  <2>4. DOMAIN deliveries' = kept /\ \A t \in kept : deliveries'[t] = grown[t]
    BY <2>1
  <2> HIDE DEF grown, right
  <2>5. \A t \in DOMAIN deliveries' :
          IsSeq(deliveries'[t]) /\ \A a \in ToSet(deliveries'[t]) : right(a)
    BY <2>1, <2>3, <2>4
  <2>6. \A t \in DOMAIN deliveries' :
          /\ IsSeq(deliveries'[t])
          /\ \A a \in ToSet(deliveries'[t]) : IsRead(a.from) /\ a = AnswerTo(a.from)
    BY <2>5 DEF right
  <2>7. QED
    BY <1>1, <2>6 DEF ReadInv, IsRead, AnswerTo
<1>4. QED
  BY <1>2, <1>3

LEMMA NextReadInv ==
  ASSUME IndexInv, AnswerInv, ReadInv, [Next]_vars
  PROVE  ReadInv'
<1>0. IsSeq(cmds) /\ LastConfig + 1 = Len(SharesOf) /\ saved \in Nat
  BY AnswersAssumption DEF LastConfig, AnswerInv, IndexInv, Configs
<1>1. CASE UNCHANGED vars \/ \E config \in scans : ScanEnds(config)
  <2>1. UNCHANGED <<cmds, saved, matching, deliveries>>
    BY <1>1 DEF vars, configVars, deliveryVars, ScanEnds
  <2>2. QED
    BY <2>1 DEF ReadInv, IsRead, AnswerTo
<1>2. ASSUME NEW s \in Searches, SearchArrives(s)
      PROVE  ReadInv'
  <2> DEFINE x == [type |-> "IncomingSearch", search |-> s]
  <2>1. /\ x.search \in Searches /\ cmds' = Append(cmds, x)
        /\ UNCHANGED <<saved, matching, deliveries>>
    BY <1>2 DEF SearchArrives, configVars, deliveryVars
  <2> HIDE DEF x
  <2>2. QED
    BY <1>0, <2>1, SearchesAdded DEF ReadInv, IsRead, AnswerTo
<1>3. CASE ConfigChanged
  <2> DEFINE x == [type |-> "ApplyConfig", config |-> saved + 1]
  <2>1. /\ x.type # "IncomingSearch" /\ cmds' = Append(cmds, x)
        /\ UNCHANGED <<matching, deliveries>>
    BY <1>3 DEF ConfigChanged, deliveryVars
  <2>2. saved' <= LastConfig
    BY <1>0, <1>3, AnswersAssumption DEF ConfigChanged, LastConfig
  <2> HIDE DEF x
  <2>3. QED
    BY <1>0, <2>1, <2>2, SearchesAdded DEF ReadInv, IsRead, AnswerTo
<1>4. CASE PhrasesArrive
  <2> DEFINE x == [type |-> "SetExcludedPhrases"]
  <2>1. /\ x.type # "IncomingSearch" /\ cmds' = Append(cmds, x)
        /\ UNCHANGED <<saved, matching, deliveries>>
    BY <1>4 DEF PhrasesArrive, configVars, deliveryVars
  <2> HIDE DEF x
  <2>2. QED
    BY <1>0, <2>1, SearchesAdded DEF ReadInv, IsRead, AnswerTo
<1>5. CASE IncomingSearch
  <2> DEFINE m == [search |-> Head(cmds).search, token |-> connect_token, config |-> index,
                   cap |-> ResultCap[applied + 1], phrases |-> excluded]
  <2>1. /\ cmds # << >> /\ Head(cmds).type = "IncomingSearch" /\ cmds' = Tail(cmds)
        /\ matching' = matching \cup {m} /\ UNCHANGED <<saved, deliveries>>
    BY <1>5 DEF IncomingSearch, Commanded, configVars, deliveryVars
  <2>2. /\ \A i \in 1 .. Len(cmds') :
             cmds'[i].type = "IncomingSearch" => cmds'[i].search \in Searches
        /\ Head(cmds).search \in Searches
    BY <1>0, <2>1, SearchesTaken DEF ReadInv
  <2>3. index + 1 \in 1 .. Len(SharesOf) /\ applied + 1 \in 1 .. Len(SharesOf)
    <3>1. /\ index \in Nat /\ applied \in Nat /\ index <= applied /\ applied <= saved
          /\ saved <= LastConfig
      BY DEF IndexInv, Configs, ScansAreNew, ReadInv
    <3>2. Len(SharesOf) \in Nat
      BY AnswersAssumption
    <3>3. QED
      BY <1>0, <3>1, <3>2, AnswersAssumption DEF LastConfig
  <2>4. IsRead(m)
    BY <2>2, <2>3, AnswersAssumption DEF IsRead
  <2> HIDE DEF m
  <2>5. QED
    BY <2>1, <2>2, <2>4 DEF ReadInv, IsRead, AnswerTo
<1>6. CASE ApplyConfig \/ SetExcludedPhrases
  <2>1. /\ cmds # << >> /\ cmds' = Tail(cmds) /\ UNCHANGED <<saved, matching, deliveries>>
    BY <1>6 DEF ApplyConfig, SetExcludedPhrases, Commanded, configVars, deliveryVars
  <2>2. QED
    BY <1>0, <2>1, SearchesTaken DEF ReadInv, IsRead, AnswerTo
<1>7. CASE \E m \in matching : Matched(m)
  BY <1>7, MatchedRead
<1>8. ASSUME NEW ask \in asks, Pierced(ask)
      PROVE  ReadInv'
  <2>1. /\ DOMAIN deliveries' \subseteq DOMAIN deliveries
        /\ \A t \in DOMAIN deliveries' : deliveries'[t] = deliveries[t]
        /\ UNCHANGED <<cmds, saved, matching>>
    BY <1>8 DEF Pierced, configVars
  <2>2. QED
    BY <2>1 DEF ReadInv, IsRead, AnswerTo
<1>9. QED
  BY <1>1, <1>2, <1>3, <1>4, <1>5, <1>6, <1>7, <1>8 DEF Next

\* A waiting answer names the files that match its query in the index it was
\* matched against: each once, in path order, no more than the cap, the smallest
\* paths of a query of several words, and none that is to be left out
\* (search_response::respond), for any files, words, queries, scans and caps and
\* whatever configuration, phrases and index are put in place meanwhile.
THEOREM AnswersAreAlwaysRight == Spec => []AnswersAreRight
<1>1. Init => IndexInv /\ AnswerInv /\ ReadInv
  BY InitIndexInv, InitAnswerInv, InitReadInv
<1>2. IndexInv /\ AnswerInv /\ ReadInv /\ [Next]_vars => (IndexInv /\ AnswerInv /\ ReadInv)'
  BY NextIndexInv, NextAnswerInv, NextReadInv
<1>3. QED
  BY <1>1, <1>2, ReadAnswersAreRight, PTL DEF Spec
=============================================================================
