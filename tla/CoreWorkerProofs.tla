-------------------------- MODULE CoreWorkerProofs --------------------------
(***************************************************************************)
(* What the core worker keeps: the configuration and the update.           *)
(*                                                                         *)
(* The properties of ConfigStore for any number of calls, settings and     *)
(* deaths: what an answer tells, that the copies agree, and that the file  *)
(* is never torn.  The invariant ties the save in progress to its request, *)
(* each state of a call to what is under way for it, and the last news on  *)
(* the bus to what is stored.                                              *)
(*                                                                         *)
(* Those of Updater for any number of releases: the update is in one       *)
(* place, being checked for, on its way to the handlers, held for the user *)
(* or installed, and what the user is told is the last status on the bus,  *)
(* and is about that place.                                                *)
(***************************************************************************)
EXTENDS ConfigStore, Updater, TLAPS, SequenceTheorems

-----------------------------------------------------------------------------
(* The types.  A message that answers or asks is named for its call, news of *)
(* a change for none.                                                        *)

Request == [type : {"SetConfigReq"}, call : Calls, cfg : Config]
News    == [type : {"ConfigChanged"}, call : {Empty}, cfg : Config]
Answer  == [type : {"SetConfigResult"}, call : Calls, ok : BOOLEAN]
Message == Request \cup News \cup Answer

Command == [call : Calls, cfg : Config]

Contents == Config \cup {Torn, Missing}

Call == [kind : {"none", "save", "callback"},
         pc : {"new", "exchanging", "merged", "waiting", "timed out", "refused",
               "saved", "failed", "gone"},
         cfg : Config]

TypeOK ==
  /\ disk \in [main : Config \cup {Missing}, backup : Contents, tmp : Contents]
  /\ store \in Config /\ shared \in Config
  /\ saving \in {"idle", "copying", "writing", "renaming"}
  /\ calls \in [Calls -> Call]
  /\ cmds \in Seq(Command)
  /\ bus \in Seq(Message)
  /\ landed \subseteq Calls

-----------------------------------------------------------------------------
(* The inductive invariant.                                                  *)

\* While a save is under way its request is the head of the bus, and what is
\* about to be renamed into place is the whole configuration of that request.
SaveHasItsRequest ==
  saving # "idle" =>
    /\ bus # <<>> /\ bus[1].type = "SetConfigReq"
    /\ saving = "renaming" => disk.tmp = bus[1].cfg

\* The last news on the bus, or without news the api server's copy, is the
\* configuration of the component.
NewsIsLatest ==
  /\ (\A i \in 1 .. Len(bus) : bus[i].type # "ConfigChanged") => shared = store
  /\ \A i \in 1 .. Len(bus) :
       /\ bus[i].type = "ConfigChanged"
       /\ \A j \in 1 .. Len(bus) : j > i => bus[j].type # "ConfigChanged"
       => bus[i].cfg = store

\* A call has at most one command, request or answer under way.
OnePerCall ==
  /\ \A i, j \in 1 .. Len(cmds) : cmds[i].call = cmds[j].call => i = j
  /\ \A i, j \in 1 .. Len(bus) :
       bus[i].call = bus[j].call /\ bus[i].type # "ConfigChanged" => i = j
  /\ \A i \in 1 .. Len(cmds), j \in 1 .. Len(bus) : cmds[i].call # bus[j].call

Asking == {"waiting", "timed out"}

\* What is asked has not become the file, and an answer tells whether it has.
Truthful(msg, states, files) ==
  /\ msg.type # "ConfigChanged" => states[msg.call].pc \in Asking
  /\ msg.type = "SetConfigReq" => msg.call \notin files
  /\ msg.type = "SetConfigResult" => (msg.ok <=> msg.call \in files)

UnderWayIsTrue ==
  /\ \A i \in 1 .. Len(cmds) : calls[cmds[i].call].pc \in Asking /\ cmds[i].call \notin landed
  /\ \A i \in 1 .. Len(bus) : Truthful(bus[i], calls, landed)

\* A call that has not asked, or was refused, has not become the file.
StatesAreTrue ==
  \A c \in Calls :
    /\ calls[c].pc \in {"new", "exchanging", "merged", "failed"} => c \notin landed
    /\ calls[c].pc = "saved" => c \in landed

IInv ==
  /\ TypeOK
  /\ SaveHasItsRequest
  /\ disk.main \in {store, Missing}
  /\ NewsIsLatest
  /\ OnePerCall
  /\ UnderWayIsTrue
  /\ StatesAreTrue

-----------------------------------------------------------------------------
(* Queues, by their indices.                                                 *)

LEMMA TailFacts ==
  ASSUME NEW S, NEW s \in Seq(S), s # << >>
  PROVE  /\ Len(s) \in Nat \ {0} /\ s[1] \in S /\ Head(s) = s[1]
         /\ Tail(s) \in Seq(S) /\ Len(Tail(s)) = Len(s) - 1
         /\ \A i \in 1 .. Len(s) - 1 : Tail(s)[i] = s[i + 1]
OBVIOUS

LEMMA AppendFacts ==
  ASSUME NEW S, NEW s \in Seq(S), NEW x \in S
  PROVE  /\ Append(s, x) \in Seq(S) /\ Len(Append(s, x)) = Len(s) + 1
         /\ \A i \in 1 .. Len(s) : Append(s, x)[i] = s[i]
         /\ Append(s, x)[Len(s) + 1] = x
OBVIOUS

\* What a message that is answered leaves behind.
LEMMA AnsweredQueue ==
  ASSUME NEW S, NEW s \in Seq(S), s # << >>, NEW x \in S
  PROVE  /\ Append(Tail(s), x) \in Seq(S) /\ Len(Append(Tail(s), x)) = Len(s)
         /\ \A i \in 1 .. Len(s) - 1 : Append(Tail(s), x)[i] = s[i + 1]
         /\ Append(Tail(s), x)[Len(s)] = x
<1>1. Tail(s) \in Seq(S) /\ Len(Tail(s)) = Len(s) - 1 /\ Len(s) \in Nat \ {0}
  BY TailFacts
<1>2. QED
  BY <1>1, TailFacts, AppendFacts

\* The same for one that is answered with news before the answer.
LEMMA AcceptedQueue ==
  ASSUME NEW S, NEW s \in Seq(S), s # << >>, NEW x \in S, NEW y \in S,
         NEW t, t = Tail(s) \o <<x, y>>
  PROVE  /\ t \in Seq(S) /\ Len(t) = Len(s) + 1
         /\ \A i \in 1 .. Len(s) - 1 : t[i] = s[i + 1]
         /\ t[Len(s)] = x /\ t[Len(s) + 1] = y
<1> DEFINE r == Append(Tail(s), x)
<1>1. /\ Tail(s) \o <<x, y>> = Append(r, y)
      /\ r \in Seq(S) /\ Len(s) \in Nat \ {0}
  <2>1. Tail(s) \in Seq(S) /\ Len(s) \in Nat \ {0}
    BY TailFacts
  <2>2. Tail(s) \o <<x, y>> = Append(Append(Tail(s), x), y)
    BY <2>1
  <2>3. QED
    BY <2>1, <2>2, AnsweredQueue
<1> HIDE DEF r
<1>2. Len(r) = Len(s) /\ r[Len(s)] = x /\ \A i \in 1 .. Len(s) - 1 : r[i] = s[i + 1]
  BY AnsweredQueue DEF r
<1>3. /\ Append(r, y) \in Seq(S) /\ Len(Append(r, y)) = Len(s) + 1
      /\ \A i \in 1 .. Len(s) : Append(r, y)[i] = r[i]
      /\ Append(r, y)[Len(s) + 1] = y
  BY <1>1, <1>2, AppendFacts
<1>4. QED
  BY <1>1, <1>2, <1>3

-----------------------------------------------------------------------------
(* Initial states.                                                           *)

LEMMA LoadsConfig ==
  ASSUME ConfigAssumption, NEW file \in Config \cup {Missing}
  PROVE  Load(file) \in Config /\ file \in {Load(file), Missing}
BY DEF Load, ConfigAssumption, DefaultConfig, Config

LEMMA InitIInv == ConfigAssumption /\ Init => IInv
<1> SUFFICES ASSUME ConfigAssumption, Init
             PROVE  IInv
  OBVIOUS
<1>1. PICK first \in Config \cup {Missing} :
         /\ disk = [main |-> first, backup |-> Missing, tmp |-> Missing]
         /\ store = Load(first) /\ shared = Load(first)
  BY DEF Init, ConfigAssumption, Config
<1>2. TypeOK
  <2>1. store \in Config /\ shared \in Config
    BY <1>1, LoadsConfig
  <2>2. NoCall \in Call
    BY DEF NoCall, DefaultConfig, Config, ConfigAssumption, Call
  <2>3. disk \in [main : Config \cup {Missing}, backup : Contents, tmp : Contents]
    BY <1>1 DEF Contents
  <2>4. cmds \in Seq(Command) /\ bus \in Seq(Message)
    BY DEF Init
  <2>5. QED
    BY <2>1, <2>2, <2>3, <2>4 DEF Init, TypeOK
<1>3. disk.main \in {store, Missing}
  BY <1>1, LoadsConfig
<1>4. NewsIsLatest
  BY <1>1 DEF Init, NewsIsLatest
<1>5. OnePerCall /\ UnderWayIsTrue /\ SaveHasItsRequest
  BY DEF Init, OnePerCall, UnderWayIsTrue, SaveHasItsRequest
<1>6. StatesAreTrue
  BY DEF Init, StatesAreTrue, NoCall
<1>7. QED
  BY <1>2, <1>3, <1>4, <1>5, <1>6 DEF IInv

-----------------------------------------------------------------------------
(* Steps of a call that leave the bus alone.                                 *)

LEMMA CommandsAreNamed ==
  ASSUME TypeOK, NEW i \in 1 .. Len(cmds)
  PROVE  cmds[i].call \in Calls /\ cmds[i].cfg \in Config
<1>1. cmds[i] \in Command
  BY DEF TypeOK
<1>2. QED
  BY <1>1 DEF Command

LEMMA NamedForCalls ==
  ASSUME TypeOK, NEW i \in 1 .. Len(bus), bus[i].type # "ConfigChanged"
  PROVE  bus[i].call \in Calls
<1>1. bus[i] \in Message
  BY DEF TypeOK
<1>2. QED
  BY <1>1 DEF Message, Request, News, Answer

LEMMA NewsIsUnnamed ==
  ASSUME ConfigAssumption, TypeOK, NEW i \in 1 .. Len(bus), bus[i].type = "ConfigChanged"
  PROVE  bus[i].call \notin Calls
<1>1. bus[i] \in Message
  BY DEF TypeOK
<1>2. QED
  BY <1>1 DEF Message, Request, News, Answer, ConfigAssumption

LEMMA CallMoves ==
  ASSUME IInv, NEW c \in Calls, NEW new \in Call,
         calls' = [calls EXCEPT ![c] = new],
         \/ new.pc \in {"exchanging", "merged", "refused"}
            /\ calls[c].pc \in {"new", "exchanging"}
         \/ new.pc = "timed out" /\ calls[c].pc = "waiting",
         UNCHANGED <<disk, store, saving, shared, cmds, bus, landed>>
  PROVE  IInv'
<1>1. /\ calls'[c] = new /\ \A d \in Calls \ {c} : calls'[d] = calls[d]
      /\ TypeOK'
  BY DEF IInv, TypeOK
<1>2. \A d \in Calls : calls[d].pc \in Asking => calls'[d].pc \in Asking
  BY <1>1 DEF Asking
<1>3. \A i \in 1 .. Len(cmds) : cmds[i].call \in Calls
  BY CommandsAreNamed DEF IInv
<1>4. \A i \in 1 .. Len(bus) : bus[i].type # "ConfigChanged" => bus[i].call \in Calls
  BY NamedForCalls DEF IInv
<1>5. UnderWayIsTrue'
  <2>1. \A i \in 1 .. Len(cmds) : calls'[cmds[i].call].pc \in Asking /\ cmds[i].call \notin landed
    BY <1>2, <1>3 DEF IInv, UnderWayIsTrue
  <2>2. \A i \in 1 .. Len(bus) : Truthful(bus[i], calls', landed)
    BY <1>2, <1>4 DEF IInv, UnderWayIsTrue, Truthful
  <2>3. QED
    BY <2>1, <2>2 DEF UnderWayIsTrue
<1>6. StatesAreTrue'
  BY <1>1 DEF IInv, StatesAreTrue
<1>7. SaveHasItsRequest' /\ NewsIsLatest' /\ OnePerCall' /\ disk'.main \in {store', Missing}
  BY DEF IInv, SaveHasItsRequest, NewsIsLatest, OnePerCall
<1>8. QED
  BY <1>1, <1>5, <1>6, <1>7 DEF IInv

\* A client's form, merged with a configuration, is one.
LEMMA MergeIsConfig ==
  ASSUME NEW typed \in [secret : Secrets \cup {Empty}, token : {Empty}, rest : Settings],
         NEW current \in Config
  PROVE  Merge(typed, current) \in Config
BY DEF Merge, Config

LEMMA SetConfigStep ==
  ASSUME IInv, NEW c \in Calls, SetConfig(c)
  PROVE  IInv'
<1>1. PICK typed \in [secret : Secrets \cup {Empty}, token : {Empty}, rest : Settings] :
         calls' = [calls EXCEPT ![c] = [kind |-> "save", pc |-> "merged",
                                        cfg |-> Merge(typed, shared)]]
  BY DEF SetConfig
<1>2. Merge(typed, shared) \in Config
  BY MergeIsConfig DEF IInv, TypeOK
<1> DEFINE new == [kind |-> "save", pc |-> "merged", cfg |-> Merge(typed, shared)]
<1>3. new \in Call /\ new.pc = "merged"
  BY <1>2 DEF Call
<1> HIDE DEF new
<1>4. calls' = [calls EXCEPT ![c] = new]
  BY <1>1 DEF new
<1>5. QED
  BY <1>3, <1>4, CallMoves DEF SetConfig

LEMMA SpotifyCallbackStep ==
  ASSUME IInv, NEW c \in Calls, NEW login, SpotifyCallback(c, login)
  PROVE  IInv'
<1>1. PICK pc \in {"exchanging", "refused"} :
         calls' = [calls EXCEPT ![c] = [kind |-> "callback", cfg |-> shared, pc |-> pc]]
  BY DEF SpotifyCallback
<1> DEFINE new == [kind |-> "callback", cfg |-> shared, pc |-> pc]
<1>2. new \in Call /\ new.pc \in {"exchanging", "refused"}
  BY DEF IInv, TypeOK, Call
<1> HIDE DEF new
<1>3. calls' = [calls EXCEPT ![c] = new]
  BY <1>1 DEF new
<1>4. QED
  BY <1>2, <1>3, CallMoves DEF SpotifyCallback

LEMMA ExchangeStep ==
  ASSUME IInv, NEW c \in Calls, Exchange(c)
  PROVE  IInv'
<1>1. calls \in [Calls -> Call] /\ calls[c] \in Call
  BY DEF IInv, TypeOK
<1>2. CASE calls' = [calls EXCEPT ![c].pc = "merged", ![c].cfg.token = c]
  <2> DEFINE new == [calls[c] EXCEPT !.pc = "merged", !.cfg = [@ EXCEPT !.token = c]]
  <2>1. calls[c].cfg \in Config
    BY <1>1 DEF Call
  <2>2. [calls[c].cfg EXCEPT !.token = c] \in Config
    BY <2>1 DEF Config
  <2>3. new \in Call /\ new.pc = "merged"
    BY <1>1, <2>2 DEF Call
  <2>4. calls' = [calls EXCEPT ![c] = new]
    BY <1>1, <1>2, <2>1 DEF Call, Config
  <2> HIDE DEF new
  <2>5. QED
    BY <2>3, <2>4, CallMoves DEF Exchange
<1>3. CASE calls' = [calls EXCEPT ![c].pc = "refused"]
  <2> DEFINE new == [calls[c] EXCEPT !.pc = "refused"]
  <2>1. new \in Call /\ new.pc = "refused"
    BY <1>1 DEF Call
  <2>2. calls' = [calls EXCEPT ![c] = new]
    BY <1>1, <1>3
  <2> HIDE DEF new
  <2>3. QED
    BY <2>1, <2>2, CallMoves DEF Exchange
<1>4. QED
  BY <1>2, <1>3 DEF Exchange

LEMMA TimeOutStep ==
  ASSUME IInv, NEW c \in Calls, TimeOut(c)
  PROVE  IInv'
<1> DEFINE new == [calls[c] EXCEPT !.pc = "timed out"]
<1>1. new \in Call /\ new.pc = "timed out"
  BY DEF IInv, TypeOK, Call
<1>2. calls' = [calls EXCEPT ![c] = new]
  BY DEF TimeOut
<1> HIDE DEF new
<1>3. QED
  BY <1>1, <1>2, CallMoves DEF TimeOut

-----------------------------------------------------------------------------
(* The command of a call, and its way to the bus.                            *)

LEMMA SendConfigStep ==
  ASSUME ConfigAssumption, IInv, NEW c \in Calls, SendConfig(c)
  PROVE  IInv'
<1> DEFINE x == [call |-> c, cfg |-> calls[c].cfg]
           n == Len(cmds)
<1>1. /\ calls[c] \in Call /\ calls[c].pc = "merged" /\ c \notin landed
      /\ x \in Command /\ n \in Nat
  <2>1. calls[c] \in Call /\ n \in Nat
    BY DEF IInv, TypeOK
  <2>2. calls[c].pc = "merged" /\ c \notin landed
    BY DEF IInv, SendConfig, StatesAreTrue
  <2>3. QED
    BY <2>1, <2>2 DEF Call, Command
<1>2. /\ cmds' \in Seq(Command) /\ Len(cmds') = n + 1 /\ cmds'[n + 1].call = c
      /\ \A i \in 1 .. n : cmds'[i] = cmds[i]
  BY <1>1, AppendFacts DEF IInv, TypeOK, SendConfig
<1> HIDE DEF x
<1>3. /\ calls' \in [Calls -> Call] /\ calls'[c].pc = "waiting"
      /\ \A d \in Calls \ {c} : calls'[d] = calls[d]
  BY <1>1 DEF IInv, TypeOK, SendConfig, Call
<1>4. /\ \A i \in 1 .. n : cmds[i].call \in Calls \ {c}
      /\ \A i \in 1 .. Len(bus) : bus[i].type # "ConfigChanged" => bus[i].call \in Calls \ {c}
  <2>1. calls[c].pc \notin Asking
    BY <1>1 DEF Asking
  <2>2. \A i \in 1 .. n : cmds[i].call \in Calls /\ calls[cmds[i].call].pc \in Asking
    BY CommandsAreNamed DEF IInv, UnderWayIsTrue
  <2>3. \A i \in 1 .. Len(bus) : bus[i].type # "ConfigChanged" =>
           bus[i].call \in Calls /\ calls[bus[i].call].pc \in Asking
    BY NamedForCalls DEF IInv, UnderWayIsTrue, Truthful
  <2>4. QED
    BY <2>1, <2>2, <2>3
<1>5. \A i \in 1 .. Len(bus) : bus[i].call # c
  BY <1>4, NewsIsUnnamed DEF IInv
<1>6. TypeOK'
  BY <1>2, <1>3 DEF IInv, TypeOK, SendConfig
<1>7. OnePerCall'
  BY <1>1, <1>2, <1>4, <1>5 DEF IInv, OnePerCall, SendConfig
<1>8. UnderWayIsTrue'
  <2>1. \A d \in Calls : calls[d].pc \in Asking => calls'[d].pc \in Asking
    BY <1>1, <1>3 DEF Asking
  <2>2. \A i \in 1 .. n : calls'[cmds[i].call].pc \in Asking /\ cmds[i].call \notin landed
    BY <1>4, <2>1 DEF IInv, UnderWayIsTrue
  <2>3. calls'[c].pc \in Asking
    BY <1>3 DEF Asking
  <2>4. \A i \in 1 .. n + 1 : calls'[cmds'[i].call].pc \in Asking /\ cmds'[i].call \notin landed
    BY <1>1, <1>2, <2>2, <2>3
  <2>5. \A i \in 1 .. Len(bus) : Truthful(bus[i], calls', landed)
    BY <1>4, <2>1 DEF IInv, UnderWayIsTrue, Truthful
  <2>6. bus' = bus /\ landed' = landed
    BY DEF SendConfig
  <2>7. QED
    BY <1>2, <2>4, <2>5, <2>6 DEF UnderWayIsTrue
<1>9. StatesAreTrue'
  BY <1>3 DEF IInv, StatesAreTrue, SendConfig
<1>10. SaveHasItsRequest' /\ NewsIsLatest' /\ disk'.main \in {store', Missing}
  BY DEF IInv, SaveHasItsRequest, NewsIsLatest, SendConfig
<1>11. QED
  BY <1>6, <1>7, <1>8, <1>9, <1>10 DEF IInv

LEMMA ForwardStep ==
  ASSUME IInv, Forward
  PROVE  IInv'
<1> DEFINE x == [type |-> "SetConfigReq", call |-> Head(cmds).call, cfg |-> Head(cmds).cfg]
           n == Len(bus)
           m == Len(cmds)
<1>1. /\ m \in Nat \ {0} /\ Head(cmds) = cmds[1]
      /\ cmds' \in Seq(Command) /\ Len(cmds') = m - 1
      /\ \A i \in 1 .. m - 1 : cmds'[i] = cmds[i + 1]
  BY TailFacts DEF IInv, TypeOK, Forward
<1>2. cmds[1].call \in Calls /\ cmds[1].cfg \in Config
  BY <1>1, CommandsAreNamed DEF IInv
<1>3. x \in Message
  BY <1>1, <1>2 DEF Message, Request
<1>4. /\ bus' \in Seq(Message) /\ Len(bus') = n + 1 /\ n \in Nat
      /\ bus'[n + 1] = x /\ \A i \in 1 .. n : bus'[i] = bus[i]
  BY <1>3, AppendFacts DEF IInv, TypeOK, Forward
<1>5. x.type = "SetConfigReq" /\ x.call = cmds[1].call
  BY <1>1
<1> HIDE DEF x
<1>6. TypeOK'
  BY <1>1, <1>4 DEF IInv, TypeOK, Forward
<1>7. SaveHasItsRequest' /\ disk'.main \in {store', Missing}
  BY <1>4 DEF IInv, SaveHasItsRequest, Forward, TypeOK
<1>8. NewsIsLatest'
  BY <1>4, <1>5 DEF IInv, NewsIsLatest, Forward
<1>9. \A i \in 1 .. m - 1 : i + 1 \in 2 .. m /\ cmds'[i] = cmds[i + 1]
  BY <1>1
<1>10. OnePerCall'
  <2> USE DEF IInv, OnePerCall
  <2>1. \A i, j \in 1 .. m - 1 : cmds'[i].call = cmds'[j].call => i = j
    BY <1>1, <1>9
  <2>2. \A i \in 1 .. m - 1 : cmds'[i].call # x.call
    BY <1>1, <1>5, <1>9
  <2>3. \A i \in 1 .. n : bus[i].call # x.call
    BY <1>1, <1>5
  <2>4. \A i, j \in 1 .. n + 1 :
           bus'[i].call = bus'[j].call /\ bus'[i].type # "ConfigChanged" => i = j
    BY <1>4, <2>3
  <2>5. \A i \in 1 .. m - 1, j \in 1 .. n + 1 : cmds'[i].call # bus'[j].call
    BY <1>1, <1>4, <1>9, <2>2, SMTT(30)
  <2>6. QED
    BY <1>1, <1>4, <2>1, <2>4, <2>5
<1>11. UnderWayIsTrue'
  <2>1. calls' = calls /\ landed' = landed
    BY DEF Forward
  <2>2. \A i \in 1 .. m : calls[cmds[i].call].pc \in Asking /\ cmds[i].call \notin landed
    BY DEF IInv, UnderWayIsTrue
  <2>3. \A i \in 1 .. m - 1 :
          calls'[cmds'[i].call].pc \in Asking /\ cmds'[i].call \notin landed'
    BY <1>1, <1>9, <2>1, <2>2
  <2>4. bus'[n + 1].type = "SetConfigReq" /\ bus'[n + 1].call = cmds[1].call /\ 1 \in 1 .. m
    BY <1>1, <1>4, <1>5
  <2>5. Truthful(bus'[n + 1], calls', landed')
    BY <2>1, <2>2, <2>4 DEF Truthful
  <2>6. \A i \in 1 .. n : Truthful(bus'[i], calls', landed')
    BY <1>4, <2>1 DEF IInv, UnderWayIsTrue
  <2>7. \A i \in 1 .. n + 1 : Truthful(bus'[i], calls', landed')
    <3> SUFFICES ASSUME NEW i \in 1 .. n + 1
                 PROVE  Truthful(bus'[i], calls', landed')
      OBVIOUS
    <3>1. i = n + 1 \/ i \in 1 .. n
      BY <1>4
    <3>2. QED
      BY <2>5, <2>6, <3>1
  <2>8. Len(cmds') = m - 1 /\ Len(bus') = n + 1
    BY <1>1, <1>4
  <2>9. QED
    BY <2>3, <2>7, <2>8 DEF UnderWayIsTrue
<1>12. StatesAreTrue'
  BY DEF IInv, StatesAreTrue, Forward
<1>13. QED
  BY <1>6, <1>7, <1>8, <1>10, <1>11, <1>12 DEF IInv

-----------------------------------------------------------------------------
(* The core worker answers the request at the head of the bus.               *)

LEMMA HeadOfBus ==
  ASSUME TypeOK, bus # << >>
  PROVE  Head(bus) = bus[1] /\ bus[1] \in Message
BY TailFacts DEF TypeOK

LEMMA HeadIsRequest ==
  ASSUME TypeOK, bus # << >>, bus[1].type = "SetConfigReq"
  PROVE  bus[1].call \in Calls /\ bus[1].cfg \in Config /\ Head(bus) = bus[1]
<1>1. bus[1] \in Message /\ Head(bus) = bus[1]
  BY TailFacts DEF TypeOK
<1>2. QED
  BY <1>1 DEF Message, Request, News, Answer

\* The news stays the latest when a message that is none goes, even if another
\* that is none takes its place.
LEMMA NewsSurvives ==
  ASSUME NewsIsLatest, NEW n \in Nat \ {0}, n = Len(bus), bus[1].type # "ConfigChanged",
         NEW k \in {n - 1, n}, k = Len(bus'),
         \A i \in 1 .. n - 1 : bus'[i] = bus[i + 1],
         k = n => bus'[n].type # "ConfigChanged",
         store' = store, shared' = shared
  PROVE  NewsIsLatest'
<1>1. (\A i \in 1 .. k : bus'[i].type # "ConfigChanged") =>
         \A i \in 1 .. n : bus[i].type # "ConfigChanged"
  <2> SUFFICES ASSUME \A i \in 1 .. k : bus'[i].type # "ConfigChanged", NEW i \in 1 .. n
               PROVE  bus[i].type # "ConfigChanged"
    OBVIOUS
  <2>1. i = 1 \/ (i - 1 \in 1 .. n - 1 /\ (i - 1) + 1 = i /\ i - 1 \in 1 .. k)
    OBVIOUS
  <2>2. QED
    BY <2>1
<1>2. ASSUME NEW i \in 1 .. k, bus'[i].type = "ConfigChanged",
             \A j \in 1 .. k : j > i => bus'[j].type # "ConfigChanged"
      PROVE  bus'[i].cfg = store
  <2>1. i \in 1 .. n - 1 /\ i + 1 \in 1 .. n /\ bus'[i] = bus[i + 1]
    BY <1>2
  <2>2. ASSUME NEW j \in 1 .. n, j > i + 1
        PROVE  bus[j].type # "ConfigChanged"
    <3>1. j - 1 \in 1 .. n - 1 /\ j - 1 > i /\ (j - 1) + 1 = j /\ j - 1 \in 1 .. k
      BY <2>1, <2>2
    <3>2. QED
      BY <1>2, <3>1
  <2>3. QED
    BY <1>2, <2>1, <2>2 DEF NewsIsLatest
<1>3. QED
  BY <1>1, <1>2 DEF NewsIsLatest

LEMMA RefuseStep ==
  ASSUME IInv, bus # << >>, bus[1].type = "SetConfigReq",
         Refuse, UNCHANGED <<disk, shared, calls, cmds>>
  PROVE  IInv'
<1> DEFINE x == Result(bus[1].call, FALSE)
           n == Len(bus)
<1>1. bus[1].call \in Calls /\ Head(bus) = bus[1] /\ 1 \in 1 .. n /\ n \in Nat \ {0}
  BY HeadIsRequest, TailFacts DEF IInv, TypeOK
<1>2. x \in Message
  BY <1>1 DEF Message, Answer, Result
<1>3. /\ bus' \in Seq(Message) /\ Len(bus') = n /\ bus'[n] = x
      /\ \A i \in 1 .. n - 1 : bus'[i] = bus[i + 1]
  <2>1. bus \in Seq(Message) /\ bus' = Append(Tail(bus), x)
    BY <1>1 DEF IInv, TypeOK, Refuse
  <2>2. QED
    BY <1>2, <2>1, AnsweredQueue, ZenonT(30)
<1>4. x.type = "SetConfigResult" /\ x.call = bus[1].call /\ x.ok = FALSE
  BY DEF Result
<1> HIDE DEF x
<1>5. \A i \in 1 .. n - 1 : i + 1 \in 2 .. n /\ bus'[i] = bus[i + 1]
  BY <1>1, <1>3
<1>6. TypeOK'
  BY <1>3 DEF IInv, TypeOK, Refuse
<1>7. SaveHasItsRequest' /\ disk'.main \in {store', Missing}
  BY DEF IInv, SaveHasItsRequest, Refuse
<1>8. NewsIsLatest'
  <2>1. store' = store /\ shared' = shared
    BY DEF Refuse
  <2>2. bus[1].type # "ConfigChanged" /\ bus'[n].type # "ConfigChanged"
    BY <1>3, <1>4
  <2>3. QED
    BY <1>1, <1>3, <2>1, <2>2, NewsSurvives DEF IInv
<1>9. OnePerCall'
  <2>1. \A i \in 2 .. n : bus[i].call # bus[1].call
    BY <1>1 DEF IInv, OnePerCall
  <2>2. \A i \in 1 .. n - 1 : bus'[i].call # bus'[n].call
    BY <1>3, <1>4, <1>5, <2>1
  <2>3. ASSUME NEW i \in 1 .. n, NEW j \in 1 .. n, bus'[i].call = bus'[j].call,
               bus'[i].type # "ConfigChanged"
        PROVE  i = j
    <3>1. (i = n \/ i \in 1 .. n - 1) /\ (j = n \/ j \in 1 .. n - 1)
      BY <1>1
    <3>2. CASE i \in 1 .. n - 1 /\ j \in 1 .. n - 1
      <4>1. i + 1 \in 1 .. n /\ j + 1 \in 1 .. n
        BY <3>2
      <4>2. i + 1 = j + 1
        BY <1>5, <2>3, <3>2, <4>1 DEF IInv, OnePerCall
      <4>3. QED
        BY <4>2
    <3>3. QED
      BY <2>2, <2>3, <3>1, <3>2
  <2>4. \A i \in 1 .. Len(cmds), j \in 1 .. n : cmds[i].call # bus'[j].call
    <3> SUFFICES ASSUME NEW i \in 1 .. Len(cmds), NEW j \in 1 .. n
                 PROVE  cmds[i].call # bus'[j].call
      OBVIOUS
    <3>1. \A k \in 1 .. n : cmds[i].call # bus[k].call
      BY DEF IInv, OnePerCall
    <3>2. j = n \/ (j \in 1 .. n - 1 /\ j + 1 \in 1 .. n)
      BY <1>1
    <3>3. QED
      BY <1>1, <1>3, <1>4, <3>1, <3>2
  <2>5. QED
    BY <1>3, <2>3, <2>4 DEF IInv, OnePerCall
<1>10. UnderWayIsTrue'
  <2>1. calls' = calls /\ landed' = landed /\ cmds' = cmds
    BY DEF Refuse
  <2>2. Truthful(bus[1], calls, landed)
    BY <1>1 DEF IInv, UnderWayIsTrue
  <2>3. Truthful(bus'[n], calls', landed')
    BY <1>3, <1>4, <2>1, <2>2 DEF Truthful
  <2>4. \A i \in 1 .. n - 1 : Truthful(bus'[i], calls', landed')
    BY <1>5, <2>1 DEF IInv, UnderWayIsTrue
  <2>5. QED
    BY <1>1, <1>3, <2>1, <2>3, <2>4 DEF IInv, UnderWayIsTrue
<1>11. StatesAreTrue'
  BY DEF IInv, StatesAreTrue, Refuse
<1>12. QED
  BY <1>6, <1>7, <1>8, <1>9, <1>10, <1>11 DEF IInv

LEMMA AcceptStep ==
  ASSUME ConfigAssumption, IInv, saving = "renaming", Accept,
         disk' = [disk EXCEPT !.main = disk.tmp, !.tmp = Missing],
         UNCHANGED <<shared, calls, cmds>>
  PROVE  IInv'
<1> DEFINE x == Changed(bus[1].cfg)
           y == Result(bus[1].call, TRUE)
           n == Len(bus)
<1>0. bus # << >> /\ bus[1].type = "SetConfigReq" /\ disk.tmp = bus[1].cfg
  BY DEF IInv, SaveHasItsRequest
<1>1. /\ bus[1].call \in Calls /\ bus[1].cfg \in Config /\ Head(bus) = bus[1]
      /\ 1 \in 1 .. n /\ n \in Nat \ {0}
  BY <1>0, HeadIsRequest, TailFacts DEF IInv, TypeOK
<1>2. x \in Message /\ y \in Message
  BY <1>1 DEF Message, Answer, News, Result, Changed
<1>3. /\ bus' \in Seq(Message) /\ Len(bus') = n + 1 /\ bus'[n] = x /\ bus'[n + 1] = y
      /\ \A i \in 1 .. n - 1 : bus'[i] = bus[i + 1]
  <2>1. bus \in Seq(Message) /\ bus' = Tail(bus) \o <<x, y>>
    BY <1>1 DEF IInv, TypeOK, Accept
  <2> HIDE DEF x, y
  <2>2. QED
    BY <1>0, <1>2, <2>1, AcceptedQueue
<1>4. /\ x.type = "ConfigChanged" /\ x.cfg = bus[1].cfg /\ x.call \notin Calls
      /\ y.type = "SetConfigResult" /\ y.call = bus[1].call /\ y.ok = TRUE
  BY DEF Result, Changed, ConfigAssumption
<1> HIDE DEF x, y
<1>5. \A i \in 1 .. n - 1 : i + 1 \in 2 .. n /\ bus'[i] = bus[i + 1]
  BY <1>1, <1>3
<1>6. store' = bus[1].cfg /\ landed' = landed \cup {bus[1].call} /\ saving' = "idle"
  BY <1>1 DEF Accept
<1>7. TypeOK'
  BY <1>0, <1>1, <1>3, <1>6 DEF IInv, TypeOK, Contents
<1>8. SaveHasItsRequest' /\ disk'.main \in {store', Missing}
  BY <1>0, <1>6 DEF IInv, SaveHasItsRequest, TypeOK
<1>9. NewsIsLatest'
  BY <1>1, <1>3, <1>4, <1>6 DEF NewsIsLatest
<1>10. \A i \in 2 .. n : bus[i].call # bus[1].call
  BY <1>0, <1>1 DEF IInv, OnePerCall
<1>11. OnePerCall'
  <2>1. \A i \in 1 .. n : bus'[i].call # bus[1].call
    <3> SUFFICES ASSUME NEW i \in 1 .. n
                 PROVE  bus'[i].call # bus[1].call
      OBVIOUS
    <3>1. i = n \/ i \in 1 .. n - 1
      BY <1>1
    <3>2. QED
      BY <1>1, <1>3, <1>4, <1>5, <1>10, <3>1
  <2>2. ASSUME NEW i \in 1 .. n + 1, NEW j \in 1 .. n + 1, bus'[i].call = bus'[j].call,
               bus'[i].type # "ConfigChanged"
        PROVE  i = j
    <3>1. /\ i = n \/ i = n + 1 \/ (i \in 1 .. n - 1 /\ i + 1 \in 1 .. n)
          /\ j = n \/ j = n + 1 \/ (j \in 1 .. n - 1 /\ j + 1 \in 1 .. n)
      BY <1>1
    <3>2. i # n
      BY <1>3, <1>4, <2>2
    <3>3. CASE i = n + 1
      BY <1>3, <1>4, <2>1, <2>2, <3>1, <3>3
    <3>4. CASE i \in 1 .. n - 1
      <4>1. j # n + 1
        BY <1>3, <1>4, <2>1, <2>2, <3>4
      <4>2. bus'[i] = bus[i + 1] /\ bus[i + 1].call \in Calls
        BY <1>5, <2>2, <3>1, <3>2, <3>4, NamedForCalls DEF IInv
      <4>3. j # n
        BY <1>3, <1>4, <2>2, <4>2
      <4>4. i + 1 = j + 1
        BY <1>5, <2>2, <3>1, <3>4, <4>1, <4>2, <4>3, SMTT(30) DEF IInv, OnePerCall
      <4>5. QED
        BY <3>1, <4>1, <4>3, <4>4
    <3>5. QED
      BY <3>1, <3>2, <3>3, <3>4
  <2>3. \A i \in 1 .. Len(cmds), j \in 1 .. n + 1 : cmds[i].call # bus'[j].call
    <3> SUFFICES ASSUME NEW i \in 1 .. Len(cmds), NEW j \in 1 .. n + 1
                 PROVE  cmds[i].call # bus'[j].call
      OBVIOUS
    <3>1. cmds[i].call \in Calls /\ \A k \in 1 .. n : cmds[i].call # bus[k].call
      BY CommandsAreNamed DEF IInv, OnePerCall
    <3>2. j = n \/ j = n + 1 \/ (j \in 1 .. n - 1 /\ j + 1 \in 1 .. n)
      BY <1>1
    <3>3. QED
      BY <1>1, <1>3, <1>4, <3>1, <3>2
  <2>4. QED
    BY <1>3, <2>2, <2>3 DEF IInv, OnePerCall
<1>12. UnderWayIsTrue'
  <2>1. calls' = calls /\ cmds' = cmds
    OBVIOUS
  <2>2. Truthful(bus[1], calls, landed)
    BY <1>1 DEF IInv, UnderWayIsTrue
  <2>3. Truthful(bus'[n], calls', landed') /\ Truthful(bus'[n + 1], calls', landed')
    BY <1>0, <1>3, <1>4, <1>6, <2>1, <2>2 DEF Truthful
  <2>4. \A i \in 1 .. n - 1 : Truthful(bus'[i], calls', landed')
    <3> SUFFICES ASSUME NEW i \in 1 .. n - 1
                 PROVE  Truthful(bus[i + 1], calls, landed')
      BY <1>5, <2>1
    <3>1. i + 1 \in 2 .. n /\ i + 1 \in 1 .. n
      BY <1>1
    <3>2. Truthful(bus[i + 1], calls, landed) /\ bus[i + 1].call # bus[1].call
      BY <1>10, <3>1 DEF IInv, UnderWayIsTrue
    <3>3. QED
      BY <1>6, <3>2 DEF Truthful
  <2>5. \A i \in 1 .. Len(cmds) : cmds[i].call # bus[1].call
    BY <1>1 DEF IInv, OnePerCall
  <2>6. \A i \in 1 .. n + 1 : Truthful(bus'[i], calls', landed')
    <3> SUFFICES ASSUME NEW i \in 1 .. n + 1
                 PROVE  Truthful(bus'[i], calls', landed')
      OBVIOUS
    <3>1. i = n \/ i = n + 1 \/ i \in 1 .. n - 1
      BY <1>1
    <3>2. QED
      BY <2>3, <2>4, <3>1
  <2>7. \A i \in 1 .. Len(cmds) :
          calls'[cmds'[i].call].pc \in Asking /\ cmds'[i].call \notin landed'
    BY <1>6, <2>1, <2>5 DEF IInv, UnderWayIsTrue
  <2>8. QED
    BY <1>3, <2>1, <2>6, <2>7 DEF UnderWayIsTrue
<1>13. StatesAreTrue'
  <2>1. calls[bus[1].call].pc \in Asking
    BY <1>0, <1>1 DEF IInv, UnderWayIsTrue, Truthful
  <2>2. QED
    BY <1>6, <2>1 DEF IInv, StatesAreTrue, Asking
<1>14. QED
  BY <1>7, <1>8, <1>9, <1>11, <1>12, <1>13 DEF IInv

-----------------------------------------------------------------------------
(* The other steps of the core worker.                                       *)

\* A step of a save that only writes beside the file.
LEMMA SaveGoesOn ==
  ASSUME IInv, NEW next \in {"copying", "writing", "renaming"}, saving' = next,
         bus # << >>, bus[1].type = "SetConfigReq",
         disk' \in [main : {disk.main}, backup : Contents, tmp : Contents],
         next = "renaming" => disk'.tmp = bus[1].cfg,
         UNCHANGED <<store, shared, calls, cmds, bus, landed>>
  PROVE  IInv'
<1>1. disk'.main = disk.main
  OBVIOUS
<1>2. TypeOK'
  BY <1>1 DEF IInv, TypeOK
<1>3. SaveHasItsRequest'
  BY DEF SaveHasItsRequest
<1>4. NewsIsLatest' /\ OnePerCall' /\ StatesAreTrue'
  BY DEF IInv, NewsIsLatest, OnePerCall, StatesAreTrue
<1>5. UnderWayIsTrue'
  BY DEF IInv, UnderWayIsTrue
<1>6. QED
  BY <1>1, <1>2, <1>3, <1>4, <1>5 DEF IInv

LEMMA BeginSaveStep ==
  ASSUME IInv, BeginSave
  PROVE  IInv'
<1>1. bus # << >> /\ bus[1].type = "SetConfigReq" /\ Head(bus) = bus[1]
  BY HeadOfBus DEF BeginSave, Arrived, IInv
<1>2. CASE Head(bus).cfg.rest \in Refused
  BY <1>1, <1>2, RefuseStep DEF BeginSave
<1>3. CASE Head(bus).cfg.rest \notin Refused
  <2>1. \/ saving' = "copying" /\ disk' = [disk EXCEPT !.backup = Torn]
        \/ saving' = "writing" /\ disk' = [disk EXCEPT !.tmp = Torn]
    BY <1>3 DEF BeginSave
  <2>2. disk' \in [main : {disk.main}, backup : Contents, tmp : Contents]
    BY <2>1 DEF IInv, TypeOK, Contents
  <2>3. UNCHANGED <<store, shared, calls, cmds, bus, landed>>
    BY <1>3 DEF BeginSave
  <2>4. QED
    BY <1>1, <2>1, <2>2, <2>3, SaveGoesOn
<1>4. QED
  BY <1>2, <1>3

LEMMA BackUpStep ==
  ASSUME IInv, BackUp
  PROVE  IInv'
<1>1. bus # << >> /\ bus[1].type = "SetConfigReq"
  BY DEF BackUp, IInv, SaveHasItsRequest
<1>2. disk' \in [main : {disk.main}, backup : Contents, tmp : Contents]
  BY DEF BackUp, IInv, TypeOK, Contents
<1>3. QED
  BY <1>1, <1>2, SaveGoesOn DEF BackUp

LEMMA WriteTmpStep ==
  ASSUME IInv, WriteTmp
  PROVE  IInv'
<1>1. bus # << >> /\ bus[1].type = "SetConfigReq"
  BY DEF WriteTmp, IInv, SaveHasItsRequest
<1>2. bus[1].cfg \in Config /\ Head(bus) = bus[1]
  BY <1>1, HeadIsRequest DEF IInv
<1>3. CASE /\ disk' = [disk EXCEPT !.tmp = Head(bus).cfg]
           /\ saving' = "renaming"
           /\ UNCHANGED <<store, bus, landed>>
  <2>1. /\ disk' \in [main : {disk.main}, backup : Contents, tmp : Contents]
        /\ disk'.tmp = bus[1].cfg
    BY <1>2, <1>3 DEF IInv, TypeOK, Contents
  <2>2. QED
    BY <1>1, <1>3, <2>1, SaveGoesOn DEF WriteTmp
<1>4. CASE Refuse /\ UNCHANGED disk
  BY <1>1, <1>4, RefuseStep DEF WriteTmp
<1>5. QED
  BY <1>3, <1>4 DEF WriteTmp

LEMMA RenameStep ==
  ASSUME ConfigAssumption, IInv, Rename
  PROVE  IInv'
<1>1. bus # << >> /\ bus[1].type = "SetConfigReq"
  BY DEF Rename, IInv, SaveHasItsRequest
<1>2. CASE Accept /\ disk' = [disk EXCEPT !.main = disk.tmp, !.tmp = Missing]
  BY <1>2, AcceptStep DEF Rename
<1>3. CASE Refuse /\ UNCHANGED disk
  BY <1>1, <1>3, RefuseStep DEF Rename
<1>4. QED
  BY <1>2, <1>3 DEF Rename

\* What one taken message leaves: the news and calls of the others stand.
LEMMA HeadTaken ==
  ASSUME IInv, saving = "idle", bus # << >>, bus' = Tail(bus),
         UNCHANGED <<disk, store, saving, cmds, landed>>
  PROVE  /\ Len(bus) \in Nat \ {0} /\ bus' \in Seq(Message) /\ Len(bus') = Len(bus) - 1
         /\ \A i \in 1 .. Len(bus) - 1 : i + 1 \in 2 .. Len(bus) /\ bus'[i] = bus[i + 1]
         /\ SaveHasItsRequest' /\ OnePerCall'
<1> DEFINE n == Len(bus)
<1>1. /\ n \in Nat \ {0} /\ bus' \in Seq(Message) /\ Len(bus') = n - 1
      /\ \A i \in 1 .. n - 1 : bus'[i] = bus[i + 1]
  BY TailFacts DEF IInv, TypeOK
<1>2. \A i \in 1 .. n - 1 : i + 1 \in 2 .. n /\ i + 1 \in 1 .. n /\ bus'[i] = bus[i + 1]
  BY <1>1
<1>3. SaveHasItsRequest'
  BY DEF SaveHasItsRequest
<1>4. OnePerCall'
  <2>1. ASSUME NEW i \in 1 .. n - 1, NEW j \in 1 .. n - 1, bus'[i].call = bus'[j].call,
               bus'[i].type # "ConfigChanged"
        PROVE  i = j
    <3>1. i + 1 = j + 1
      BY <1>2, <2>1 DEF IInv, OnePerCall
    <3>2. QED
      BY <3>1
  <2>2. \A i \in 1 .. Len(cmds), j \in 1 .. n - 1 : cmds[i].call # bus'[j].call
    BY <1>2 DEF IInv, OnePerCall
  <2>3. QED
    BY <1>1, <2>1, <2>2 DEF IInv, OnePerCall
<1>5. QED
  BY <1>1, <1>2, <1>3, <1>4

LEMMA TakeChangeStep ==
  ASSUME IInv, TakeChange
  PROVE  IInv'
<1> DEFINE n == Len(bus)
<1>1. /\ saving = "idle" /\ bus # << >> /\ bus' = Tail(bus) /\ shared' = Head(bus).cfg
      /\ UNCHANGED <<disk, store, saving, calls, cmds, landed>>
  BY DEF TakeChange, Arrived
<1>2. Head(bus) = bus[1] /\ bus[1].type = "ConfigChanged" /\ bus[1].cfg \in Config
  <2>1. Head(bus) = bus[1] /\ bus[1] \in Message
    BY <1>1, TailFacts DEF IInv, TypeOK
  <2>2. QED
    BY <2>1 DEF TakeChange, Arrived, Message, Request, News, Answer
<1>3. /\ n \in Nat \ {0} /\ bus' \in Seq(Message) /\ Len(bus') = n - 1
      /\ \A i \in 1 .. n - 1 : i + 1 \in 2 .. n /\ bus'[i] = bus[i + 1]
      /\ SaveHasItsRequest' /\ OnePerCall'
  BY <1>1, HeadTaken
<1>4. TypeOK'
  BY <1>1, <1>2, <1>3 DEF IInv, TypeOK
<1>5. NewsIsLatest'
  <2>1. ASSUME NEW k \in 1 .. n,
               \A j \in 1 .. n - 1 : j > k - 1 => bus'[j].type # "ConfigChanged",
               bus[k].type = "ConfigChanged"
        PROVE  bus[k].cfg = store
    <3>1. ASSUME NEW j \in 1 .. n, j > k
          PROVE  bus[j].type # "ConfigChanged"
      <4>1. j - 1 \in 1 .. n - 1 /\ j - 1 > k - 1 /\ (j - 1) + 1 = j
        BY <1>3, <3>1
      <4>2. QED
        BY <1>3, <2>1, <4>1
    <3>2. QED
      BY <2>1, <3>1 DEF IInv, NewsIsLatest
  <2>2. (\A i \in 1 .. n - 1 : bus'[i].type # "ConfigChanged") => bus[1].cfg = store
    BY <1>2, <1>3, <2>1
  <2>3. ASSUME NEW i \in 1 .. n - 1, bus'[i].type = "ConfigChanged",
               \A j \in 1 .. n - 1 : j > i => bus'[j].type # "ConfigChanged"
        PROVE  bus'[i].cfg = store
    <3>1. i + 1 \in 1 .. n /\ bus'[i] = bus[i + 1] /\ (i + 1) - 1 = i
      BY <1>3
    <3>2. QED
      BY <2>1, <2>3, <3>1
  <2>4. QED
    BY <1>1, <1>2, <1>3, <2>2, <2>3 DEF NewsIsLatest
<1>6. UnderWayIsTrue' /\ StatesAreTrue'
  BY <1>1, <1>3 DEF IInv, UnderWayIsTrue, StatesAreTrue
<1>7. QED
  BY <1>1, <1>3, <1>4, <1>5, <1>6 DEF IInv

LEMMA TakeResultStep ==
  ASSUME IInv, TakeResult
  PROVE  IInv'
<1> DEFINE n == Len(bus)
           c == bus[1].call
<1>1. /\ saving = "idle" /\ bus # << >> /\ bus' = Tail(bus)
      /\ UNCHANGED <<disk, store, saving, shared, cmds, landed>>
  BY DEF TakeResult, Arrived
<1>2. Head(bus) = bus[1] /\ bus[1].type = "SetConfigResult" /\ c \in Calls
  <2>1. Head(bus) = bus[1] /\ bus[1] \in Message
    BY <1>1, TailFacts DEF IInv, TypeOK
  <2>2. QED
    BY <2>1 DEF TakeResult, Arrived, Message, Request, News, Answer
<1>3. /\ n \in Nat \ {0} /\ bus' \in Seq(Message) /\ Len(bus') = n - 1
      /\ \A i \in 1 .. n - 1 : i + 1 \in 2 .. n /\ bus'[i] = bus[i + 1]
      /\ SaveHasItsRequest' /\ OnePerCall'
  BY <1>1, HeadTaken
<1>4. PICK pc \in {"saved", "failed", calls[c].pc} :
        /\ calls' = [calls EXCEPT ![c].pc = pc]
        /\ pc = "saved" => bus[1].ok
        /\ pc = "failed" => ~ bus[1].ok \/ calls[c].pc = "failed"
        /\ pc \in {"saved", "failed"} \cup Asking
  <2>1. 1 \in 1 .. n /\ calls[c].pc \in Asking
    BY <1>2, <1>3 DEF IInv, UnderWayIsTrue, Truthful
  <2>2. calls \in [Calls -> Call] /\ calls[c] \in Call
    BY <1>2 DEF IInv, TypeOK
  <2>3. CASE calls[c].pc = "waiting"
    BY <1>2, <2>2, <2>3 DEF TakeResult
  <2>4. CASE calls[c].pc # "waiting"
    <3>1. calls' = calls /\ calls = [calls EXCEPT ![c].pc = calls[c].pc]
      BY <1>2, <2>2, <2>4 DEF TakeResult, Call
    <3>2. QED
      BY <2>1, <3>1, <2>4 DEF Asking
  <2>5. QED
    BY <2>3, <2>4
<1>5. /\ calls' \in [Calls -> Call] /\ calls'[c].pc = pc
      /\ \A d \in Calls \ {c} : calls'[d] = calls[d]
  BY <1>2, <1>4, ZenonT(30) DEF IInv, TypeOK, Call
<1>6. TypeOK'
  BY <1>1, <1>3, <1>5 DEF IInv, TypeOK
<1>7. NewsIsLatest'
  <2>1. n - 1 # n /\ bus[1].type # "ConfigChanged"
    BY <1>2, <1>3
  <2>2. QED
    BY <1>1, <1>3, <2>1, NewsSurvives DEF IInv
<1>8. UnderWayIsTrue'
  <2>1. /\ \A i \in 1 .. Len(cmds) : cmds[i].call \in Calls \ {c}
        /\ \A i \in 2 .. n : bus[i].type # "ConfigChanged" => bus[i].call \in Calls \ {c}
    BY <1>2, <1>3, CommandsAreNamed, NamedForCalls DEF IInv, OnePerCall
  <2>2. \A i \in 1 .. Len(cmds) : calls'[cmds[i].call].pc \in Asking /\ cmds[i].call \notin landed
    BY <1>5, <2>1 DEF IInv, UnderWayIsTrue
  <2>3. \A i \in 2 .. n : Truthful(bus[i], calls', landed)
    BY <1>3, <1>5, <2>1 DEF IInv, UnderWayIsTrue, Truthful
  <2>4. QED
    BY <1>1, <1>3, <2>2, <2>3 DEF UnderWayIsTrue
<1>9. StatesAreTrue'
  BY <1>1, <1>2, <1>3, <1>4, <1>5 DEF IInv, StatesAreTrue, UnderWayIsTrue, Truthful
<1>10. QED
  BY <1>1, <1>3, <1>6, <1>7, <1>8, <1>9 DEF IInv

-----------------------------------------------------------------------------
(* The process dies, and the steps together.                                 *)

LEMMA CrashStep ==
  ASSUME ConfigAssumption, IInv, Crash
  PROVE  IInv'
<1>1. Load(disk.main) \in Config /\ disk.main \in {Load(disk.main), Missing}
  BY LoadsConfig DEF IInv, TypeOK
<1>2. calls' \in [Calls -> Call] /\ \A c \in Calls : calls'[c].pc \in {calls[c].pc, "gone"}
  <2>1. calls \in [Calls -> Call]
    BY DEF IInv, TypeOK
  <2>2. \A c \in Calls : [calls[c] EXCEPT !.pc = "gone"] \in Call
    BY <2>1 DEF Call
  <2>3. QED
    BY <2>1, <2>2 DEF Crash, Call
<1>3. cmds' = << >> /\ bus' = << >> /\ saving' = "idle"
  BY DEF Crash
<1>4. TypeOK'
  BY <1>1, <1>2, <1>3 DEF IInv, TypeOK, Crash
<1>5. SaveHasItsRequest' /\ NewsIsLatest' /\ OnePerCall' /\ UnderWayIsTrue'
  BY <1>3 DEF SaveHasItsRequest, NewsIsLatest, OnePerCall, UnderWayIsTrue, Crash
<1>6. StatesAreTrue'
  BY <1>2 DEF IInv, StatesAreTrue, Crash
<1>7. disk'.main \in {store', Missing}
  BY <1>1 DEF Crash
<1>8. QED
  BY <1>4, <1>5, <1>6, <1>7 DEF IInv

LEMMA NextIInv ==
  ASSUME ConfigAssumption, IInv, [Next]_vars
  PROVE  IInv'
<1>1. CASE UNCHANGED vars
  BY <1>1 DEF vars, IInv, TypeOK, SaveHasItsRequest, NewsIsLatest, OnePerCall, UnderWayIsTrue,
              StatesAreTrue
<1>2. CASE \E c \in Calls : SetConfig(c)
  BY <1>2, SetConfigStep
<1>3. CASE \E c \in Calls : \E login \in 1 .. logins : SpotifyCallback(c, login)
  BY <1>3, SpotifyCallbackStep
<1>4. CASE \E c \in Calls : Exchange(c)
  BY <1>4, ExchangeStep
<1>5. CASE \E c \in Calls : SendConfig(c)
  BY <1>5, SendConfigStep
<1>6. CASE \E c \in Calls : TimeOut(c)
  BY <1>6, TimeOutStep
<1>7. CASE SpotifyLogin
  BY <1>7 DEF SpotifyLogin, IInv, TypeOK, SaveHasItsRequest, NewsIsLatest, OnePerCall,
              UnderWayIsTrue, StatesAreTrue
<1>8. CASE Forward
  BY <1>8, ForwardStep
<1>9. CASE BeginSave \/ BackUp \/ WriteTmp \/ Rename
  BY <1>9, BeginSaveStep, BackUpStep, WriteTmpStep, RenameStep
<1>10. CASE TakeChange \/ TakeResult
  BY <1>10, TakeChangeStep, TakeResultStep
<1>11. CASE Crash
  BY <1>11, CrashStep
<1>12. QED
  BY <1>1, <1>2, <1>3, <1>4, <1>5, <1>6, <1>7, <1>8, <1>9, <1>10, <1>11 DEF Next

LEMMA SpecIInv == Spec => []IInv
<1>1. Init => IInv
  BY InitIInv, ConfigAssumption
<1>2. IInv /\ [Next]_vars => IInv'
  BY NextIInv, ConfigAssumption
<1>3. QED
  BY <1>1, <1>2, PTL DEF Spec

-----------------------------------------------------------------------------
(* The theorems.                                                             *)

\* A caller that is told its configuration was saved finds it was the file,
\* and one that is told it was not knows the file never was it (set_config,
\* Handle<SetConfigReq>), for any number of calls, deaths and failures.
THEOREM AnswersTellTheDisk == Spec => []AnswerTellsTheDisk
<1>1. IInv => AnswerTellsTheDisk
  BY DEF IInv, StatesAreTrue, AnswerTellsTheDisk
<1>2. QED
  BY <1>1, SpecIInv, PTL

\* The file, the component's configuration and, once the news is delivered,
\* the copy the api server merges from are the same.
THEOREM CopiesStayTogether == Spec => []CopiesAgree
<1>1. IInv => CopiesAgree
  <2> SUFFICES ASSUME IInv, \A i \in DOMAIN bus : bus[i].type # "ConfigChanged"
               PROVE  shared = store
    BY DEF IInv, CopiesAgree
  <2>1. DOMAIN bus = 1 .. Len(bus)
    BY DEF IInv, TypeOK
  <2>2. QED
    BY <2>1 DEF IInv, NewsIsLatest
<1>2. QED
  BY <1>1, SpecIInv, PTL

\* A configuration file that is whole stays whole, wherever in a save the
\* process dies (save_config): only a whole temporary is renamed over it.
THEOREM FileIsNeverTorn == Spec => FileStaysWhole
<1>1. IInv /\ [Next]_vars => [disk.main \in Config => disk'.main \in Config]_disk
  <2> SUFFICES ASSUME IInv, [Next]_vars, disk.main \in Config, disk' # disk
               PROVE  disk'.main \in Config
    OBVIOUS
  <2>1. disk'.main \in {disk.main, disk.tmp} /\ (disk'.main # disk.main => saving = "renaming")
    BY DEF Next, vars, SetConfig, SpotifyLogin, SpotifyCallback, Exchange, SendConfig, TimeOut,
           Forward, BeginSave, BackUp, WriteTmp, Rename, TakeChange, TakeResult, Crash, Refuse,
           IInv, TypeOK
  <2>2. saving = "renaming" => disk.tmp \in Config
    BY HeadIsRequest DEF IInv, SaveHasItsRequest
  <2>3. QED
    BY <2>1, <2>2
<1>2. QED
  BY <1>1, SpecIInv, PTL DEF Spec, FileStaysWhole

-----------------------------------------------------------------------------
(* The updater.                                                              *)

(* The inductive invariant. *)

Kinds == {"none", "skipped", "up_to_date", "checking", "available", "downloading", "failed",
          "ready_to_apply", "restart_required"}

Statuses == [kind : Kinds, latest : 0 .. MaxVersion]

Messages ==
  [type : {"Status"}, status : Statuses] \cup [type : {"UpdateDownloaded"}, latest : Version]
    \cup [type : {"ApplyUpdateReq"}] \cup [type : {"ConfigChanged"}, update : UpdateSettings]
    \cup [type : {"ApplyUpdateResult"}, result : {"ok", "error"}]

Checks == [at : {"over", "asking", "fetching", "writing"}, latest : 0 .. MaxVersion]

UpdaterTypes ==
  /\ up \in BOOLEAN /\ running \in Version /\ exe \in Version /\ published \in Version
  /\ artifacts \in [Version -> {"none", "part", "whole"}]
  /\ saved \in UpdateSettings /\ settings \in UpdateSettings
  /\ pending \subseteq Version
  /\ check \in Checks
  /\ news \in Seq(Messages)
  /\ shown \in Statuses /\ answer \in {"none", "ok", "error"}

DownIsEmpty ==
  ~ up => news = <<>> /\ check = Idle /\ pending = {} /\ answer = "none"

Downloaded(m) == m.type = "UpdateDownloaded"

\* The check, the news of its success, the update held and the update installed
\* exclude one another.
OneUpdate ==
  /\ up /\ check.at # "over" => exe = running /\ pending = {}
  /\ check.at # "over" => \A i \in DOMAIN news : ~ Downloaded(news[i])
  /\ \A i \in DOMAIN news : Downloaded(news[i]) =>
       /\ exe = running /\ pending = {}
       /\ \A j \in DOMAIN news : Downloaded(news[j]) => i = j
  /\ pending # {} => exe = running
  /\ \A v, w \in pending : v = w

Good(v) == artifacts[v] = "whole" /\ v > running

\* What may be installed is whole, and newer than what runs.
Installable ==
  /\ check.at \in {"fetching", "writing"} => check.latest \in Version /\ check.latest > running
  /\ \A i \in DOMAIN news : Downloaded(news[i]) => Good(news[i].latest)
  /\ \A v \in pending : Good(v)

\* The status that will be shown when the messages b are handled.
LastWord(b, sh, s) ==
  \/ sh = s /\ \A i \in DOMAIN b : b[i].type # "Status"
  \/ \E i \in DOMAIN b : /\ b[i].type = "Status" /\ b[i].status = s
                         /\ \A j \in DOMAIN b : j > i => b[j].type # "Status"

Truth(s) ==
  \A v \in Version :
    /\ s = Status("ready_to_apply", v) <=> v \in pending
    /\ s = Status("restart_required", v) <=> exe = v /\ exe # running

Word == up => \E s \in Statuses : LastWord(news, shown, s) /\ Truth(s)

ToldOk(m) == m.type = "ApplyUpdateResult" /\ m.result = "ok"

OkInstalled == answer = "ok" \/ (\E i \in DOMAIN news : ToldOk(news[i])) => exe # running

UpdaterInv == UpdaterTypes /\ DownIsEmpty /\ OneUpdate /\ Installable /\ Word /\ OkInstalled

-----------------------------------------------------------------------------
(* The bus: messages handled in front, messages added behind. *)

LEMMA Joined ==
  ASSUME NEW b \in Seq(Messages), NEW ms \in Seq(Messages), NEW c, c = b \o ms
  PROVE  /\ c \in Seq(Messages) /\ DOMAIN c = 1 .. Len(b) + Len(ms)
         /\ DOMAIN b = 1 .. Len(b) /\ DOMAIN ms = 1 .. Len(ms)
         /\ Len(b) \in Nat /\ Len(ms) \in Nat
         /\ \A i \in DOMAIN b : i \in DOMAIN c /\ c[i] = b[i]
         /\ \A k \in DOMAIN ms : Len(b) + k \in DOMAIN c /\ c[Len(b) + k] = ms[k]
         /\ \A i \in DOMAIN c : \/ i \in DOMAIN b /\ c[i] = b[i]
                                \/ i - Len(b) \in DOMAIN ms /\ c[i] = ms[i - Len(b)]
<1>1. /\ c \in Seq(Messages) /\ Len(c) = Len(b) + Len(ms)
      /\ \A i \in 1 .. Len(b) + Len(ms) : c[i] = IF i <= Len(b) THEN b[i] ELSE ms[i - Len(b)]
  BY ConcatProperties
<1>2. /\ DOMAIN c = 1 .. Len(c) /\ DOMAIN b = 1 .. Len(b) /\ DOMAIN ms = 1 .. Len(ms)
      /\ Len(b) \in Nat /\ Len(ms) \in Nat
  BY <1>1, LenProperties
<1>3. QED
  BY <1>1, <1>2

LEMMA Shorter ==
  ASSUME NEW b \in Seq(Messages), b # <<>>
  PROVE  /\ Tail(b) \in Seq(Messages) /\ DOMAIN Tail(b) = 1 .. Len(b) - 1
         /\ DOMAIN b = 1 .. Len(b) /\ Len(b) \in Nat \ {0}
         /\ Head(b) = b[1] /\ b[1] \in Messages /\ 1 \in DOMAIN b
         /\ \A i \in DOMAIN Tail(b) : i + 1 \in DOMAIN b /\ Tail(b)[i] = b[i + 1]
         /\ \A i \in DOMAIN b \ {1} : i - 1 \in DOMAIN Tail(b) /\ Tail(b)[i - 1] = b[i]
<1>1. /\ Tail(b) \in Seq(Messages) /\ Len(Tail(b)) = Len(b) - 1 /\ Head(b) = b[1]
      /\ \A i \in 1 .. Len(Tail(b)) : Tail(b)[i] = b[i + 1]
  BY HeadTailProperties
<1>2. Len(b) \in Nat \ {0} /\ DOMAIN b = 1 .. Len(b) /\ DOMAIN Tail(b) = 1 .. Len(Tail(b))
  BY <1>1, LenProperties, EmptySeq
<1>3. b[1] \in Messages
  BY <1>2, ElementOfSeq
<1>4. QED
  BY <1>1, <1>2, <1>3

\* Handling the first message leaves the last word what it was: a status is shown.
LEMMA WordOfTail ==
  ASSUME NEW b \in Seq(Messages), b # <<>>, NEW sh, NEW sh2, NEW s, LastWord(b, sh, s),
         sh2 = IF Head(b).type = "Status" THEN Head(b).status ELSE sh
  PROVE  LastWord(Tail(b), sh2, s)
<1>1. CASE \A i \in DOMAIN b : b[i].type # "Status"
  BY <1>1, Shorter DEF LastWord
<1>2. ASSUME NEW i \in DOMAIN b, b[i].type = "Status", b[i].status = s,
             \A j \in DOMAIN b : j > i => b[j].type # "Status"
      PROVE  LastWord(Tail(b), sh2, s)
  <2>1. CASE i = 1
    <3>1. sh2 = s
      BY <1>2, <2>1, Shorter
    <3>2. \A j \in DOMAIN Tail(b) : Tail(b)[j].type # "Status"
      BY <1>2, <2>1, Shorter
    <3>3. QED
      BY <3>1, <3>2 DEF LastWord
  <2>2. CASE i # 1
    <3>1. i - 1 \in DOMAIN Tail(b) /\ Tail(b)[i - 1] = b[i]
      BY <2>2, Shorter
    <3>2. \A j \in DOMAIN Tail(b) : j > i - 1 => Tail(b)[j].type # "Status"
      BY <1>2, Shorter
    <3>3. QED
      BY <1>2, <3>1, <3>2 DEF LastWord
  <2>3. QED
    BY <2>1, <2>2
<1>3. QED
  BY <1>1, <1>2 DEF LastWord

\* Other messages behind it do not change the last word.
LEMMA WordKept ==
  ASSUME NEW b \in Seq(Messages), NEW ms \in Seq(Messages), NEW sh, NEW s, LastWord(b, sh, s),
         \A k \in DOMAIN ms : ms[k].type # "Status"
  PROVE  LastWord(b \o ms, sh, s)
<1> DEFINE c == b \o ms
<1> HIDE DEF c
<1>1. /\ DOMAIN b \subseteq DOMAIN c /\ DOMAIN b \subseteq Nat /\ DOMAIN c \subseteq Nat
      /\ \A i \in DOMAIN b : c[i] = b[i]
      /\ \A i \in DOMAIN c : i \in DOMAIN b \/ c[i].type # "Status"
  BY Joined DEF c
<1>2. LastWord(c, sh, s)
  BY <1>1 DEF LastWord
<1>3. QED
  BY <1>2 DEF c

\* A status behind it is the last word.
LEMMA WordSaid ==
  ASSUME NEW b \in Seq(Messages), NEW ms \in Seq(Messages), NEW sh, NEW k \in DOMAIN ms,
         ms[k].type = "Status", \A j \in DOMAIN ms : j > k => ms[j].type # "Status"
  PROVE  LastWord(b \o ms, sh, ms[k].status)
<1> DEFINE c == b \o ms
<1> HIDE DEF c
<1>1. Len(b) + k \in DOMAIN c /\ c[Len(b) + k] = ms[k]
  BY Joined DEF c
<1>2. \A j \in DOMAIN c : j > Len(b) + k => c[j].type # "Status"
  <2> SUFFICES ASSUME NEW j \in DOMAIN c, j > Len(b) + k
               PROVE  c[j].type # "Status"
    OBVIOUS
  <2>1. j - Len(b) \in DOMAIN ms /\ c[j] = ms[j - Len(b)] /\ j - Len(b) > k
    BY Joined DEF c
  <2>2. QED
    BY <2>1
<1>3. LastWord(c, sh, ms[k].status)
  BY <1>1, <1>2 DEF LastWord
<1>4. QED
  BY <1>3 DEF c

-----------------------------------------------------------------------------
LEMMA TellsPlainly ==
  ASSUME NEW kind \in Kinds \ {"ready_to_apply", "restart_required"}
  PROVE  /\ Told(kind) \in Messages /\ Told(kind).type = "Status"
         /\ Told(kind).status \in Statuses
         /\ Told(kind).status.kind \notin {"ready_to_apply", "restart_required"}
BY UpdaterAssumption DEF Told, Status, Messages, Statuses

LEMMA VersionOne == 1 \in Version /\ 0 \in 0 .. MaxVersion /\ Version \subseteq 0 .. MaxVersion
BY UpdaterAssumption DEF Version

LEMMA InitUpdaterInv == UpdaterInit => UpdaterInv
<1> SUFFICES ASSUME UpdaterInit
             PROVE  UpdaterInv
  OBVIOUS
<1>1. news \in Seq(Messages) /\ \A i \in DOMAIN news : news[i] = Told("skipped")
  BY TellsPlainly, EmptySeq DEF UpdaterInit, FirstMessages, Kinds
<1>2. Told("skipped").type = "Status" /\ Told("skipped").status = Status("skipped", 0)
  BY DEF Told
<1>3. check \in Checks /\ check.at \in {"asking", "over"}
  BY VersionOne DEF UpdaterInit, FirstCheck, Idle, Checks
<1>4. UpdaterTypes
  BY <1>1, <1>3, VersionOne DEF UpdaterInit, UpdaterTypes, Status, Statuses, Kinds
<1>5. \E s \in Statuses : LastWord(news, shown, s) /\ s.kind \in {"none", "skipped"}
  <2>1. CASE news = <<>>
    <3>1. LastWord(news, shown, Status("none", 0))
      BY <2>1 DEF UpdaterInit, LastWord
    <3>2. QED
      BY <3>1, VersionOne DEF Status, Statuses, Kinds
  <2>2. CASE news = << Told("skipped") >>
    <3>1. LastWord(news, shown, Status("skipped", 0))
      BY <2>2 DEF LastWord, Told
    <3>2. QED
      BY <3>1, VersionOne DEF Status, Statuses, Kinds
  <2>3. QED
    BY <2>1, <2>2 DEF UpdaterInit, FirstMessages
<1>6. Word
  BY <1>5 DEF UpdaterInit, Word, Truth, Status
<1>7. DownIsEmpty /\ OneUpdate /\ Installable /\ OkInstalled
  BY <1>1, <1>2, <1>3 DEF UpdaterInit, DownIsEmpty, OneUpdate, Installable, OkInstalled, Downloaded,
     ToldOk
<1>8. QED
  BY <1>4, <1>6, <1>7 DEF UpdaterInv

LEMMA BootKeeps ==
  ASSUME UpdaterInv, Boot
  PROVE  UpdaterInv'
<1> USE DEF diskVars
<1>1. news' \in Seq(Messages) /\ \A i \in DOMAIN news' : news'[i] = Told("skipped")
  BY TellsPlainly, EmptySeq DEF Boot, FirstMessages, Kinds
<1>2. Told("skipped").type = "Status" /\ Told("skipped").status = Status("skipped", 0)
  BY DEF Told
<1>3. check' \in Checks /\ check'.at \in {"asking", "over"}
  BY VersionOne DEF Boot, FirstCheck, Idle, Checks
<1>4. UpdaterTypes'
  BY <1>1, <1>3, VersionOne DEF UpdaterInv, Boot, UpdaterTypes, Status, Statuses, Kinds
<1>5. \E s \in Statuses : LastWord(news', shown', s) /\ s.kind \in {"none", "skipped"}
  <2>1. CASE news' = <<>>
    <3>1. LastWord(news', shown', Status("none", 0))
      BY <2>1 DEF Boot, LastWord
    <3>2. QED
      BY <3>1, VersionOne DEF Status, Statuses, Kinds
  <2>2. CASE news' = << Told("skipped") >>
    <3>1. LastWord(news', shown', Status("skipped", 0))
      BY <2>2 DEF LastWord, Told
    <3>2. QED
      BY <3>1, VersionOne DEF Status, Statuses, Kinds
  <2>3. QED
    BY <2>1, <2>2 DEF Boot, FirstMessages
<1>6. Word'
  BY <1>5 DEF Boot, Word, Truth, Status
<1>7. DownIsEmpty' /\ OneUpdate' /\ Installable' /\ OkInstalled'
  BY <1>1, <1>2, <1>3 DEF Boot, DownIsEmpty, OneUpdate, Installable, OkInstalled, Downloaded,
     ToldOk
<1>8. QED
  BY <1>4, <1>6, <1>7 DEF UpdaterInv

-----------------------------------------------------------------------------
(* The check. *)

\* Plain reports: what a check says while nothing has come of it.
Plain == {Told(kind) : kind \in Kinds \ {"ready_to_apply", "restart_required"}}

\* What a step that reports plainly, and changes no more than the check, keeps.
LEMMA ReportKeeps ==
  ASSUME UpdaterInv, up, check.at # "over", NEW ms \in Seq(Plain), ms # <<>>, news' = news \o ms,
         check' \in Checks, check'.at \in {"over", "fetching"},
         check'.at = "fetching" => check'.latest \in Version /\ check'.latest > running,
         UNCHANGED <<diskVars, up, running, settings, pending, shown, answer, published>>
  PROVE  UpdaterInv'
<1> USE DEF diskVars
<1>1. \A m \in Plain : /\ m \in Messages /\ m.type = "Status" /\ m.status \in Statuses
                       /\ m.status.kind \notin {"ready_to_apply", "restart_required"}
  BY TellsPlainly DEF Plain
<1>2. ms \in Seq(Messages) /\ Len(ms) \in DOMAIN ms /\ \A k \in DOMAIN ms : ms[k] \in Plain
  <2>1. Plain \subseteq Messages
    BY <1>1
  <2>2. Len(ms) \in Nat \ {0} /\ DOMAIN ms = 1 .. Len(ms)
    BY EmptySeq, LenProperties
  <2>3. \A k \in DOMAIN ms : ms[k] \in Plain
    BY <2>2, ElementOfSeq
  <2>4. QED
    BY <2>1, <2>2, <2>3
<1>3. /\ news' \in Seq(Messages)
      /\ \A i \in DOMAIN news' : \/ i \in DOMAIN news /\ news'[i] = news[i]
                                 \/ news'[i].type = "Status"
  BY <1>1, <1>2, Joined DEF UpdaterInv, UpdaterTypes
<1>4. exe = running /\ pending = {} /\ \A i \in DOMAIN news : ~ Downloaded(news[i])
  BY DEF UpdaterInv, OneUpdate
<1>5. UpdaterTypes'
  BY <1>3 DEF UpdaterInv, UpdaterTypes
<1>6. Word'
  <2> DEFINE s == ms[Len(ms)].status
  <2>1. LastWord(news', shown', s)
    <3>1. \A j \in DOMAIN ms : ~ (j > Len(ms))
      BY <1>2, LenProperties
    <3>2. QED
      BY <1>1, <1>2, <3>1, WordSaid DEF UpdaterInv, UpdaterTypes
  <2>2. s \in Statuses /\ s.kind \notin {"ready_to_apply", "restart_required"}
    BY <1>1, <1>2
  <2>3. Truth(s)'
    BY <1>4, <2>2 DEF Truth, Status
  <2>4. QED
    BY <2>1, <2>2, <2>3 DEF Word
<1>7. OneUpdate'
  BY <1>3, <1>4 DEF OneUpdate, Downloaded
<1>8. Installable'
  BY <1>3, <1>4 DEF Installable, Downloaded
<1>9. OkInstalled'
  BY <1>3 DEF UpdaterInv, OkInstalled, ToldOk
<1>10. DownIsEmpty'
  BY DEF DownIsEmpty
<1>11. QED
  BY <1>5, <1>6, <1>7, <1>8, <1>9, <1>10 DEF UpdaterInv

LEMMA CheckEndsKeeps ==
  ASSUME UpdaterInv, NEW kind \in {"skipped", "up_to_date", "failed"}, CheckEnds(kind)
  PROVE  UpdaterInv'
<1>1. Told(kind) \in Plain /\ Told("checking") \in Plain
  BY DEF Plain, Kinds
<1>2. << Told(kind) >> \in Seq(Plain) /\ << Told("checking"), Told(kind) >> \in Seq(Plain)
  BY <1>1
<1>3. PICK ms \in Seq(Plain) : ms # <<>> /\ news' = news \o ms
  <2>1. CASE kind = "skipped"
    BY <1>2, <2>1 DEF CheckEnds, Sends
  <2>2. CASE kind # "skipped"
    BY <1>2, <2>2 DEF CheckEnds, Sends
  <2>3. QED
    BY <2>1, <2>2
<1>4. check' \in Checks /\ check'.at = "over"
  BY VersionOne DEF CheckEnds, Idle, Checks
<1>5. QED
  BY <1>3, <1>4, ReportKeeps DEF CheckEnds

LEMMA NewerKeeps ==
  ASSUME UpdaterInv, Newer
  PROVE  UpdaterInv'
<1>1. /\ Told("checking") \in Plain /\ Told("available") \in Plain
      /\ Told("downloading") \in Plain /\ Told("failed") \in Plain
  BY DEF Plain, Kinds
<1>2. /\ << Told("checking"), Told("available"), Told("downloading") >> \in Seq(Plain)
      /\ << Told("checking"), Told("available"), Told("failed") >> \in Seq(Plain)
  BY <1>1
<1>3. PICK ms \in Seq(Plain) : ms # <<>> /\ news' = news \o ms
  BY <1>2 DEF Newer, Sends
<1>4. /\ check' \in Checks /\ check'.at \in {"over", "fetching"}
      /\ check'.at = "fetching" => check'.latest \in Version /\ check'.latest > running
  BY VersionOne DEF UpdaterInv, UpdaterTypes, Newer, Idle, Checks
<1>5. QED
  BY <1>3, <1>4, ReportKeeps DEF Newer

LEMMA FetchFailsKeeps ==
  ASSUME UpdaterInv, FetchFails
  PROVE  UpdaterInv'
<1>1. << Told("failed") >> \in Seq(Plain)
  BY DEF Plain, Kinds
<1>2. check' \in Checks /\ check'.at = "over"
  BY VersionOne DEF FetchFails, Idle, Checks
<1>3. QED
  BY <1>1, <1>2, ReportKeeps DEF FetchFails, Sends

\* Emptying the artifact of a former try touches nothing that may be installed.
LEMMA FetchKeeps ==
  ASSUME UpdaterInv, Fetch
  PROVE  UpdaterInv'
<1>1. check' \in Checks /\ check'.at = "writing" /\ check'.latest = check.latest
  BY DEF UpdaterInv, UpdaterTypes, Fetch, Checks
<1>2. pending = {} /\ \A i \in DOMAIN news : ~ Downloaded(news[i])
  BY DEF UpdaterInv, OneUpdate, Fetch
<1>3. UpdaterTypes'
  BY <1>1 DEF UpdaterInv, UpdaterTypes, Fetch
<1>4. Installable'
  BY <1>1, <1>2 DEF UpdaterInv, Installable, Fetch
<1>5. OneUpdate' /\ DownIsEmpty'
  BY <1>1 DEF UpdaterInv, OneUpdate, DownIsEmpty, Fetch
<1>6. Word' /\ OkInstalled'
  BY DEF UpdaterInv, Word, Truth, OkInstalled, Fetch
<1>7. QED
  BY <1>3, <1>4, <1>5, <1>6 DEF UpdaterInv

LEMMA FetchedKeeps ==
  ASSUME UpdaterInv, Fetched
  PROVE  UpdaterInv'
<1> DEFINE m == [type |-> "UpdateDownloaded", latest |-> check.latest]
<1>1. /\ up /\ check.latest \in Version /\ check.latest > running
      /\ exe = running /\ pending = {} /\ \A i \in DOMAIN news : ~ Downloaded(news[i])
  BY DEF UpdaterInv, OneUpdate, Installable, Fetched
<1>2. m \in Messages /\ << m >> \in Seq(Messages) /\ news' = news \o << m >>
  BY <1>1 DEF Messages, Fetched, Sends
<1>3. /\ news' \in Seq(Messages)
      /\ \A i \in DOMAIN news' : \/ i \in DOMAIN news /\ news'[i] = news[i]
                                 \/ i = Len(news) + 1 /\ news'[i] = m
  <2> DEFINE ms == << m >>
  <2>1. DOMAIN ms = {1} /\ ms[1] = m
    OBVIOUS
  <2>2. news \in Seq(Messages) /\ ms \in Seq(Messages) /\ news' = news \o ms
    BY <1>2 DEF UpdaterInv, UpdaterTypes
  <2> HIDE DEF ms, m
  <2>3. /\ news' \in Seq(Messages) /\ DOMAIN news' = 1 .. Len(news) + Len(ms) /\ Len(news) \in Nat
        /\ \A i \in DOMAIN news' : \/ i \in DOMAIN news /\ news'[i] = news[i]
                                   \/ i - Len(news) \in DOMAIN ms /\ news'[i] = ms[i - Len(news)]
    BY <2>2, Joined
  <2>4. QED
    BY <2>1, <2>3
<1>4. check' \in Checks /\ check'.at = "over"
  BY VersionOne DEF Fetched, Idle, Checks
<1>5. UpdaterTypes'
  BY <1>3, <1>4 DEF UpdaterInv, UpdaterTypes, Fetched
<1>6. OneUpdate'
  BY <1>1, <1>3, <1>4 DEF OneUpdate, Downloaded, Fetched
<1>7. Installable'
  BY <1>1, <1>3, <1>4 DEF UpdaterInv, UpdaterTypes, Installable, Good, Downloaded, Fetched
<1>8. Word'
  <2>1. PICK s \in Statuses : LastWord(news, shown, s) /\ Truth(s)
    BY <1>1 DEF UpdaterInv, Word
  <2>2. \A k \in DOMAIN << m >> : << m >>[k].type # "Status"
    OBVIOUS
  <2>3. LastWord(news \o << m >>, shown, s)
    BY <1>2, <2>1, <2>2, WordKept DEF UpdaterInv, UpdaterTypes
  <2>4. LastWord(news', shown', s)
    BY <1>2, <2>3 DEF Fetched
  <2>5. QED
    BY <2>1, <2>4 DEF Word, Truth, Fetched
<1>9. OkInstalled'
  BY <1>3 DEF UpdaterInv, OkInstalled, ToldOk, Fetched
<1>10. DownIsEmpty'
  BY <1>1 DEF DownIsEmpty, Fetched
<1>11. QED
  BY <1>5, <1>6, <1>7, <1>8, <1>9, <1>10 DEF UpdaterInv

-----------------------------------------------------------------------------
(* The handlers. *)

\* A step that handles a message which is not of the update, and may add such
\* messages behind, keeps everything said of the bus.
Quiet(m) == ~ Downloaded(m) /\ ~ ToldOk(m) /\ m.type # "Status"

LEMMA HandledKeeps ==
  ASSUME UpdaterInv, up, news # <<>>, NEW ms \in Seq(Messages), news' = Tail(news) \o ms,
         \A k \in DOMAIN ms : Quiet(ms[k]),
         shown' = IF Head(news).type = "Status" THEN Head(news).status ELSE shown,
         settings' \in UpdateSettings,
         answer' = "ok" => answer = "ok" \/ ToldOk(Head(news)),
         answer' \in {"none", "ok", "error"},
         UNCHANGED <<diskVars, up, running, pending, check, published>>
  PROVE  UpdaterInv'
<1> USE DEF diskVars
<1>1. /\ Tail(news) \in Seq(Messages) /\ Head(news) \in Messages
      /\ 1 \in DOMAIN news /\ Head(news) = news[1]
  BY Shorter DEF UpdaterInv, UpdaterTypes
<1>2. /\ news' \in Seq(Messages)
      /\ \A i \in DOMAIN news' : \/ i + 1 \in DOMAIN news /\ news'[i] = news[i + 1]
                                 \/ Quiet(news'[i])
  BY <1>1, Joined, Shorter DEF UpdaterInv, UpdaterTypes
<1>3. DOMAIN news \subseteq Nat /\ DOMAIN news' \subseteq Nat
  BY <1>2, LenProperties DEF UpdaterInv, UpdaterTypes
<1>4. UpdaterTypes'
  BY <1>1, <1>2 DEF UpdaterInv, UpdaterTypes, Messages, Statuses
<1>5. OneUpdate'
  <2>1. \A i, j \in DOMAIN news' : Downloaded(news'[i]) /\ Downloaded(news'[j]) => i = j
    <3> SUFFICES ASSUME NEW i \in DOMAIN news', NEW j \in DOMAIN news',
                        Downloaded(news'[i]), Downloaded(news'[j])
                 PROVE  i = j
      OBVIOUS
    <3>1. i + 1 = j + 1
      BY <1>2 DEF UpdaterInv, OneUpdate, Quiet
    <3>2. QED
      BY <1>3, <3>1
  <2>2. QED
    BY <1>2, <2>1 DEF UpdaterInv, OneUpdate, Quiet
<1>6. Installable'
  BY <1>2 DEF UpdaterInv, Installable, Good, Quiet
<1>7. Word'
  <2>1. PICK s \in Statuses : LastWord(news, shown, s) /\ Truth(s)
    BY DEF UpdaterInv, Word
  <2>2. LastWord(Tail(news), shown', s)
    BY <2>1, WordOfTail DEF UpdaterInv, UpdaterTypes
  <2>3. LastWord(news', shown', s)
    BY <1>1, <2>2, WordKept DEF Quiet
  <2>4. QED
    BY <2>1, <2>3 DEF Word, Truth
<1>8. OkInstalled'
  BY <1>1, <1>2 DEF UpdaterInv, OkInstalled, Quiet
<1>9. DownIsEmpty'
  BY DEF DownIsEmpty
<1>10. QED
  BY <1>4, <1>5, <1>6, <1>7, <1>8, <1>9 DEF UpdaterInv

\* The answers to an ApplyUpdate.
LEMMA AnswersAreMessages ==
  ASSUME NEW r \in {"ok", "error"}
  PROVE  /\ Reply(r) \in Seq(Messages) /\ Len(Reply(r)) = 1 /\ DOMAIN Reply(r) = {1}
         /\ Reply(r)[1].type = "ApplyUpdateResult" /\ Reply(r)[1].result = r
BY DEF Reply, Messages

\* An update that is whole and newer is installed or fails to be; either way it is
\* held no more, and the last word says which.
LEMMA ApplyKeeps ==
  ASSUME UpdaterInv, up, news # <<>>, NEW v \in Version, Good(v), exe = running, check.at = "over",
         Head(news).type # "Status", \A i \in DOMAIN news : i # 1 => ~ Downloaded(news[i]),
         NEW onSuccess \in {<<>>, Reply("ok")}, NEW onFailure \in {<<>>, Reply("error")},
         Apply(v, onSuccess, onFailure), pending' = {},
         UNCHANGED <<saved, up, running, settings, check, shown, answer, published>>
  PROVE  UpdaterInv'
<1> DEFINE installed == exe' = v
           said == IF installed THEN ToldOf("restart_required", v) ELSE Told("failed")
           told == IF installed THEN onSuccess ELSE onFailure
           ms == << said >> \o told
<1>1. exe' \in {exe, v} /\ v # exe /\ artifacts' \in [Version -> {"none", "part", "whole"}]
  BY DEF UpdaterInv, UpdaterTypes, Apply, Replaced, Good, Version
<1>2. news' = (Tail(news) \o << said >>) \o told
  BY <1>1 DEF Apply, Good, Replaced
<1>3. /\ said \in Messages /\ said.type = "Status" /\ said.status \in Statuses
      /\ installed => said.status = Status("restart_required", v)
      /\ ~ installed => said.status = Status("failed", 0)
  BY VersionOne DEF ToldOf, Told, Status, Messages, Statuses, Kinds
<1>4. /\ told \in Seq(Messages)
      /\ \A k \in DOMAIN told : ~ Downloaded(told[k]) /\ told[k].type # "Status"
      /\ \A k \in DOMAIN told : ToldOk(told[k]) => installed
  <2>1. told \in {onSuccess, onFailure} /\ (~ installed => told = onFailure)
    OBVIOUS
  <2> HIDE DEF told
  <2>2. told \in {<<>>, Reply("ok"), Reply("error")} /\ (~ installed => told # Reply("ok"))
    BY <2>1, AnswersAreMessages
  <2>3. CASE told = <<>>
    BY <2>3, EmptySeq
  <2>4. CASE told = Reply("ok")
    BY <2>2, <2>4, AnswersAreMessages DEF Downloaded, ToldOk
  <2>5. CASE told = Reply("error")
    BY <2>5, AnswersAreMessages DEF Downloaded, ToldOk
  <2>6. QED
    BY <2>2, <2>3, <2>4, <2>5
<1> HIDE DEF said, told
<1>5. Tail(news) \in Seq(Messages) /\ Head(news) = news[1] /\ 1 \in DOMAIN news
  BY Shorter DEF UpdaterInv, UpdaterTypes
<1> DEFINE b == Tail(news) \o << said >>
<1>6. /\ << said >> \in Seq(Messages) /\ DOMAIN << said >> = {1} /\ << said >>[1] = said
  BY <1>3
<1>7. b \in Seq(Messages) /\ \A i \in DOMAIN b : \/ i + 1 \in DOMAIN news /\ b[i] = news[i + 1]
                                                 \/ b[i] = said
  BY <1>5, <1>6, Joined, Shorter DEF UpdaterInv, UpdaterTypes
<1>8. LastWord(b, shown, said.status)
  <2> DEFINE one == << said >>
  <2>1. one \in Seq(Messages) /\ 1 \in DOMAIN one /\ one[1] = said
        /\ \A j \in DOMAIN one : j > 1 => one[j].type # "Status"
    BY <1>6
  <2> HIDE DEF one
  <2>2. LastWord(Tail(news) \o one, shown, one[1].status)
    BY <1>3, <1>5, <2>1, WordSaid
  <2>3. QED
    BY <2>1, <2>2 DEF one
<1> HIDE DEF b
<1>9. news' = b \o told
  BY <1>2 DEF b
<1>10. /\ news' \in Seq(Messages)
       /\ \A i \in DOMAIN news' : \/ i + 1 \in DOMAIN news /\ news'[i] = news[i + 1]
                                  \/ news'[i] = said
                                  \/ \E k \in DOMAIN told : news'[i] = told[k]
  BY <1>4, <1>7, <1>9, Joined
<1>11. DOMAIN news' \subseteq Nat /\ \A i \in DOMAIN news' : ~ Downloaded(news'[i])
  <2>1. DOMAIN news' \subseteq Nat
    BY <1>10, LenProperties
  <2>2. \A i \in DOMAIN news' : i + 1 # 1
    BY <1>10, LenProperties
  <2>3. QED
    BY <1>3, <1>4, <1>10, <2>1, <2>2 DEF Downloaded
<1>12. UpdaterTypes'
  BY <1>1, <1>10 DEF UpdaterInv, UpdaterTypes
<1>13. OneUpdate' /\ Installable'
  BY <1>11 DEF OneUpdate, Installable
<1>14. Word'
  <2>1. PICK s \in Statuses : s = said.status
    BY <1>3
  <2>2. LastWord(news', shown', s)
    BY <1>4, <1>7, <1>8, <1>9, <2>1, WordKept
  <2>3. Truth(s)'
    BY <1>1, <1>3, <2>1 DEF Truth, Status
  <2>4. QED
    BY <2>2, <2>3 DEF Word
<1>15. OkInstalled'
  <2>1. answer # "ok" /\ \A i \in DOMAIN news : ~ ToldOk(news[i])
    BY DEF UpdaterInv, OkInstalled
  <2>2. CASE installed
    BY <1>1, <2>2 DEF OkInstalled
  <2>3. CASE ~ installed
    BY <1>3, <1>4, <1>10, <2>1, <2>3 DEF OkInstalled, ToldOk
  <2>4. QED
    BY <2>2, <2>3
<1>16. DownIsEmpty'
  BY DEF DownIsEmpty
<1>17. QED
  BY <1>12, <1>13, <1>14, <1>15, <1>16 DEF UpdaterInv

LEMMA UpdateDownloadedKeeps ==
  ASSUME UpdaterInv, UpdateDownloaded
  PROVE  UpdaterInv'
<1> DEFINE v == Head(news).latest
<1>1. /\ up /\ news # <<>> /\ Head(news) = news[1] /\ 1 \in DOMAIN news /\ news[1] \in Messages
      /\ Downloaded(news[1]) /\ Head(news).type # "Status"
      /\ Tail(news) \in Seq(Messages)
  BY Shorter DEF UpdaterInv, UpdaterTypes, UpdateDownloaded, Comes, Downloaded
<1>2. v \in Version /\ Good(v)
  BY <1>1 DEF UpdaterInv, Installable, Messages, Downloaded
<1>3. /\ exe = running /\ pending = {} /\ check.at = "over"
      /\ \A i \in DOMAIN news : i # 1 => ~ Downloaded(news[i])
  BY <1>1 DEF UpdaterInv, UpdaterTypes, OneUpdate
<1>4. CASE settings.auto
  <2>1. ToInstall = {v}
    BY <1>1, <1>4 DEF ToInstall, Comes, Downloaded
  <2>2. Apply(v, <<>>, <<>>) /\ pending' = {}
    BY <1>3, <1>4, <2>1 DEF UpdateDownloaded
  <2>3. QED
    BY <1>1, <1>2, <1>3, <2>2, ApplyKeeps DEF UpdateDownloaded
<1>5. CASE ~ settings.auto
  <2> DEFINE m == ToldOf("ready_to_apply", v)
             ms == << m >>
  <2>1. pending' = {v} /\ news' = Tail(news) \o ms /\ UNCHANGED <<exe, artifacts>>
    BY <1>5 DEF UpdateDownloaded
  <2>2. /\ m \in Messages /\ m.type = "Status" /\ m.status = Status("ready_to_apply", v)
        /\ m.status \in Statuses
    BY <1>2, VersionOne DEF ToldOf, Status, Messages, Statuses, Kinds
  <2>3. ms \in Seq(Messages) /\ DOMAIN ms = {1} /\ ms[1] = m
    BY <2>2
  <2> HIDE DEF m, ms
  <2>4. /\ news' \in Seq(Messages)
        /\ \A i \in DOMAIN news' : \/ i + 1 \in DOMAIN news /\ news'[i] = news[i + 1]
                                   \/ news'[i] = m
    <3>1. /\ news' \in Seq(Messages)
          /\ \A i \in DOMAIN news' : \/ i \in DOMAIN Tail(news) /\ news'[i] = Tail(news)[i]
                                     \/ \E k \in DOMAIN ms : news'[i] = ms[k]
      <4>1. Tail(news) \in Seq(Messages) /\ ms \in Seq(Messages) /\ news' = Tail(news) \o ms
        BY <1>1, <2>1, <2>3
      <4>2. QED
        BY <4>1, Joined, SMTT(30)
    <3>2. \A i \in DOMAIN Tail(news) : i + 1 \in DOMAIN news /\ Tail(news)[i] = news[i + 1]
      BY <1>1, Shorter DEF UpdaterInv, UpdaterTypes
    <3>3. QED
      BY <2>3, <3>1, <3>2
  <2>5. \A i \in DOMAIN news' : ~ Downloaded(news'[i])
    <3>1. \A i \in DOMAIN news' : i + 1 # 1
      BY <2>4, LenProperties
    <3>2. QED
      BY <1>3, <2>2, <2>4, <3>1 DEF Downloaded
  <2>6. UpdaterTypes'
    BY <1>2, <2>1, <2>4 DEF UpdaterInv, UpdaterTypes, UpdateDownloaded
  <2>7. OneUpdate' /\ Installable'
    BY <1>2, <1>3, <2>1, <2>5 DEF OneUpdate, Installable, Good, UpdateDownloaded
  <2>8. Word'
    <3>1. PICK s \in Statuses : s = m.status
      BY <2>2
    <3>2. 1 \in DOMAIN ms /\ \A j \in DOMAIN ms : ~ (j > 1)
      BY <2>3
    <3>3. LastWord(Tail(news) \o ms, shown, ms[1].status)
      BY <1>1, <2>2, <2>3, <3>2, WordSaid
    <3>4. LastWord(news', shown', s)
      BY <2>1, <2>3, <3>1, <3>3 DEF UpdateDownloaded
    <3>5. Truth(s)'
      BY <1>3, <2>1, <2>2, <3>1 DEF Truth, Status, UpdateDownloaded
    <3>6. QED
      BY <3>4, <3>5 DEF Word
  <2>9. OkInstalled'
    BY <2>1, <2>2, <2>4 DEF UpdaterInv, OkInstalled, ToldOk, UpdateDownloaded
  <2>10. DownIsEmpty'
    BY <1>1 DEF DownIsEmpty, UpdateDownloaded
  <2>11. QED
    BY <2>6, <2>7, <2>8, <2>9, <2>10 DEF UpdaterInv
<1>6. QED
  BY <1>4, <1>5

LEMMA ApplyUpdateReqKeeps ==
  ASSUME UpdaterInv, ApplyUpdateReq
  PROVE  UpdaterInv'
<1>1. /\ up /\ news # <<>> /\ Head(news).type = "ApplyUpdateReq" /\ pending' = {}
  BY DEF ApplyUpdateReq, Comes, Taken
<1>2. CASE pending = {}
  <2>1. /\ news' = Tail(news) \o Reply("error") /\ pending' = pending
        /\ UNCHANGED <<exe, artifacts>>
    BY <1>1, <1>2 DEF ApplyUpdateReq
  <2>2. /\ Reply("error") \in Seq(Messages)
        /\ \A k \in DOMAIN Reply("error") : Quiet(Reply("error")[k])
    BY AnswersAreMessages DEF Quiet, Downloaded, ToldOk
  <2>3. settings' \in UpdateSettings /\ answer' \in {"none", "ok", "error"}
    BY DEF UpdaterInv, UpdaterTypes, ApplyUpdateReq
  <2>4. QED
    BY <1>1, <2>1, <2>2, <2>3, HandledKeeps DEF ApplyUpdateReq, diskVars
<1>3. CASE pending # {}
  <2>1. PICK v \in pending : Apply(v, Reply("ok"), Reply("error"))
    BY <1>3 DEF ApplyUpdateReq
  <2>2. /\ v \in Version /\ Good(v) /\ exe = running /\ check.at = "over"
        /\ \A i \in DOMAIN news : ~ Downloaded(news[i])
    BY <1>1, <1>3 DEF UpdaterInv, UpdaterTypes, OneUpdate, Installable, Checks
  <2>3. QED
    BY <1>1, <2>1, <2>2, ApplyKeeps DEF ApplyUpdateReq
<1>4. QED
  BY <1>2, <1>3

LEMMA SettledKeeps ==
  ASSUME UpdaterInv, ConfigChanged \/ UpdaterStatusChanged \/ ApplyUpdateResult
  PROVE  UpdaterInv'
<1>1. /\ up /\ news # <<>> /\ news' = Tail(news) /\ Tail(news) \in Seq(Messages)
      /\ Head(news) \in Messages
  BY Shorter
     DEF UpdaterInv, UpdaterTypes, ConfigChanged, UpdaterStatusChanged, ApplyUpdateResult, Comes
<1>2. news' = Tail(news) \o <<>> /\ <<>> \in Seq(Messages) /\ DOMAIN <<>> = {}
  BY <1>1, ConcatEmptySeq
<1>3. UNCHANGED <<diskVars, up, running, pending, check, published>>
  BY DEF ConfigChanged, UpdaterStatusChanged, ApplyUpdateResult
<1>4. /\ shown' = IF Head(news).type = "Status" THEN Head(news).status ELSE shown
      /\ answer' = "ok" => answer = "ok" \/ ToldOk(Head(news))
  BY DEF ConfigChanged, UpdaterStatusChanged, ApplyUpdateResult, Comes, ToldOk
<1>5. settings' \in UpdateSettings /\ answer' \in {"none", "ok", "error"}
  BY <1>1 DEF UpdaterInv, UpdaterTypes, Messages, ConfigChanged, UpdaterStatusChanged,
              ApplyUpdateResult, Comes
<1>6. QED
  BY <1>1, <1>2, <1>3, <1>4, <1>5, HandledKeeps

-----------------------------------------------------------------------------
(* The user, and the end of the process. *)

LEMMA UserKeeps ==
  ASSUME UpdaterInv, ApplyUpdate \/ \E update \in UpdateSettings : SetUpdateConfig(update)
  PROVE  UpdaterInv'
<1>1. PICK m \in Messages : news' = news \o << m >> /\ Quiet(m)
  <2>1. [type |-> "ApplyUpdateReq"] \in Messages /\ Quiet([type |-> "ApplyUpdateReq"])
    BY DEF Messages, Quiet, Downloaded, ToldOk
  <2>2. \A u \in UpdateSettings : /\ [type |-> "ConfigChanged", update |-> u] \in Messages
                            /\ Quiet([type |-> "ConfigChanged", update |-> u])
    BY DEF Messages, Quiet, Downloaded, ToldOk
  <2>3. QED
    BY <2>1, <2>2 DEF ApplyUpdate, SetUpdateConfig, Sends
<1>2. /\ up /\ saved' \in UpdateSettings
      /\ UNCHANGED <<exe, artifacts, up, running, settings, pending, check, shown, answer,
                     published>>
  BY DEF UpdaterInv, UpdaterTypes, ApplyUpdate, SetUpdateConfig, diskVars
<1> DEFINE ms == << m >>
<1>3. ms \in Seq(Messages) /\ news' = news \o ms /\ \A k \in DOMAIN ms : Quiet(ms[k])
  BY <1>1
<1> HIDE DEF ms
<1>4. /\ news' \in Seq(Messages)
      /\ \A i \in DOMAIN news' : \/ i \in DOMAIN news /\ news'[i] = news[i]
                                 \/ Quiet(news'[i])
  BY <1>3, Joined DEF UpdaterInv, UpdaterTypes
<1>5. UpdaterTypes'
  BY <1>2, <1>4 DEF UpdaterInv, UpdaterTypes
<1>6. OneUpdate' /\ Installable' /\ OkInstalled'
  BY <1>2, <1>4 DEF UpdaterInv, OneUpdate, Installable, Good, OkInstalled, Quiet
<1>7. Word'
  <2>1. PICK s \in Statuses : LastWord(news, shown, s) /\ Truth(s)
    BY <1>2 DEF UpdaterInv, Word
  <2>2. LastWord(news', shown', s)
    BY <1>2, <1>3, <2>1, WordKept DEF UpdaterInv, UpdaterTypes, Quiet
  <2>3. QED
    BY <1>2, <2>1, <2>2 DEF Word, Truth
<1>8. DownIsEmpty'
  BY <1>2 DEF DownIsEmpty
<1>9. QED
  BY <1>5, <1>6, <1>7, <1>8 DEF UpdaterInv

\* A death leaves the executable that was, or the one whose rename was done.
LEMMA DiesKeeps ==
  ASSUME UpdaterInv, Dies
  PROVE  UpdaterInv'
<1>1. \A v \in ToInstall : v \in Version /\ artifacts[v] = "whole"
  <2>1. CASE Comes("UpdateDownloaded")
    <3>1. Head(news) = news[1] /\ 1 \in DOMAIN news /\ news[1] \in Messages /\ Downloaded(news[1])
      BY <2>1, Shorter DEF UpdaterInv, UpdaterTypes, Comes, Downloaded
    <3>2. Head(news).latest \in Version /\ Good(Head(news).latest) /\ ~ Comes("ApplyUpdateReq")
      BY <2>1, <3>1 DEF UpdaterInv, Installable, Messages, Downloaded, Comes
    <3>3. QED
      BY <3>2 DEF ToInstall, Good
  <2>2. CASE ~ Comes("UpdateDownloaded")
    BY <2>2 DEF ToInstall, UpdaterInv, UpdaterTypes, Installable, Good
  <2>3. QED
    BY <2>1, <2>2
<1>2. exe' \in Version
  BY <1>1 DEF Dies, Replaced, UpdaterInv, UpdaterTypes
<1>3. UpdaterTypes'
  BY <1>2, VersionOne, EmptySeq
     DEF UpdaterInv, UpdaterTypes, Dies, Idle, Checks, Status, Statuses, Kinds
<1>4. DownIsEmpty' /\ OneUpdate' /\ Installable' /\ Word' /\ OkInstalled'
  BY DEF Dies, Idle, DownIsEmpty, OneUpdate, Installable, Word, OkInstalled
<1>5. QED
  BY <1>3, <1>4 DEF UpdaterInv

LEMMA StepIInv == UpdaterInv /\ [UpdaterNext]_updaterVars => UpdaterInv'
<1> SUFFICES ASSUME UpdaterInv, [UpdaterNext]_updaterVars
             PROVE  UpdaterInv'
  OBVIOUS
<1>1. CASE Boot \/ Dies
  BY <1>1, BootKeeps, DiesKeeps
<1>2. CASE Publish
  <2>1. UpdaterTypes'
    BY <1>2, UpdaterAssumption DEF UpdaterInv, UpdaterTypes, Publish, Version, diskVars, procVars
  <2>2. QED
    BY <1>2, <2>1 DEF UpdaterInv, DownIsEmpty, OneUpdate, Installable, Good, Word, Truth,
       OkInstalled, Publish, diskVars, procVars
<1>3. CASE \E kind \in {"skipped", "up_to_date", "failed"} : CheckEnds(kind)
  BY <1>3, CheckEndsKeeps
<1>4. CASE Newer \/ Fetch \/ FetchFails \/ Fetched
  BY <1>4, NewerKeeps, FetchKeeps, FetchFailsKeeps, FetchedKeeps
<1>5. CASE UpdateDownloaded \/ ApplyUpdateReq
  BY <1>5, UpdateDownloadedKeeps, ApplyUpdateReqKeeps
<1>6. CASE ConfigChanged \/ UpdaterStatusChanged \/ ApplyUpdateResult
  BY <1>6, SettledKeeps
<1>7. CASE ApplyUpdate \/ \E update \in UpdateSettings : SetUpdateConfig(update)
  BY <1>7, UserKeeps
<1>8. CASE UNCHANGED updaterVars
  BY <1>8 DEF updaterVars, diskVars, procVars, UpdaterInv, UpdaterTypes, DownIsEmpty, OneUpdate,
     Installable, Good, Word, Truth, OkInstalled
<1>9. QED
  BY <1>1, <1>2, <1>3, <1>4, <1>5, <1>6, <1>7, <1>8 DEF UpdaterNext

-----------------------------------------------------------------------------
(* The theorems. *)

LEMMA Invariant == UpdaterSpec => []UpdaterInv
BY InitUpdaterInv, StepIInv, PTL DEF UpdaterSpec

\* Every variable of the updater keeps its type: the executable is a whole release,
\* whenever the process dies.
THEOREM ExecutableIsARelease == UpdaterSpec => []UpdaterTypes
<1>1. UpdaterInv => UpdaterTypes
  BY DEF UpdaterInv
<1>2. QED
  BY <1>1, Invariant, PTL

\* The status shown once the updater's messages are handled is true of the update
\* held and of the executable, and an ApplyUpdate told ok has installed it.
THEOREM StatusTellsTheTruth == UpdaterSpec => []StatusIsTrue
<1>1. UpdaterInv => StatusIsTrue
  <2> SUFFICES ASSUME UpdaterInv
               PROVE  StatusIsTrue
    OBVIOUS
  <2>1. exe # Broken
    BY UpdaterAssumption DEF UpdaterInv, UpdaterTypes, Version
  <2>2. answer = "ok" => exe # running
    BY DEF UpdaterInv, OkInstalled
  <2>3. ASSUME up, \A i \in DOMAIN news : news[i].type \notin {"Status", "UpdateDownloaded"}
        PROVE  Truth(shown)
    <3>1. PICK s \in Statuses : LastWord(news, shown, s) /\ Truth(s)
      BY <2>3 DEF UpdaterInv, Word
    <3>2. s = shown
      BY <2>3, <3>1 DEF LastWord
    <3>3. QED
      BY <3>1, <3>2
  <2>4. \A v \in pending : artifacts[v] = "whole" /\ v > running
    BY DEF UpdaterInv, Installable, Good
  <2>5. QED
    BY <2>1, <2>2, <2>3, <2>4 DEF StatusIsTrue, Truth
<1>2. QED
  BY <1>1, Invariant, PTL
=============================================================================
