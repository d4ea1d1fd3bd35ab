------------------------------ MODULE ApiBridge ------------------------------
(* The bridge between the calls of the user interface and the bus             *)
(* (api_server.rs), with the components its calls are answered by: the        *)
(* extractor on its own worker, the session and peer_net's browse task.       *)
(*                                                                            *)
(* A call runs on a thread of the api runtime: it enters itself under a fresh *)
(* correlation, hands a command to the forwarding task and waits, at most     *)
(* fifteen seconds, for the core worker to complete that entry.  A search is  *)
(* two such round trips, and when it replaces a card it removes that card     *)
(* only afterwards; a client may go away at any time.                         *)
EXTENDS Naturals, Sequences, FiniteSets, Functions, SequencesExt

CONSTANTS
    Callers,       \* calls, each made once
    Users,         \* users that may be browsed
    Nobody,        \* a user name left blank
    NoTrack,       \* the track of a card that stands for itself
    Given,         \* tracks whose cards are there already, by token
    Scenarios      \* bound: what each call may ask for ("search", "browse"),
                   \* how many cards the user removes besides, and how often
                   \* the link to the server is lost

ASSUME BridgeAssumption ==
    /\ Scenarios \subseteq [kinds : [Callers -> SUBSET {"search", "browse"}],
                            removals : Nat, drops : Nat]
    /\ Nobody \notin Users
    /\ Given \in Seq(ToSet(Given)) /\ NoTrack \notin ToSet(Given)

VARIABLES
    corr,            \* Shared.corr: the correlation given out last
    pending,         \* Shared.pending: the caller entered under a correlation
    caller,          \* where each call is
    cmds,            \* commands to the forwarding task, in order
    extracts,        \* requests to the extract worker, in bus order
    bus,             \* messages to the core worker, in bus order
    logged_in,       \* the session is logged in
    next_token,      \* Session.next_token
    lookups,         \* addresses the server is asked for, in order
    pending_browses, \* Session.pending_browses
    browsing,        \* for each user, the browse tasks that run
    searches,        \* the cards, as published; their order is of no account
    listed,          \* history: tracks that have had a card
    removed,         \* history: tokens whose card was asked to be removed
    givenUp,         \* history: tracks the user removed, or replaced by a list
    owed,            \* history: users with an accepted browse not ended yet
    scenario         \* what may still be asked for, removed and lost

callVars == <<corr, pending, caller>>
sessionVars == <<logged_in, next_token, lookups, pending_browses>>
cardVars == <<searches, listed, removed, givenUp>>
browseVars == <<browsing, owed>>
vars == <<callVars, cmds, extracts, bus, sessionVars, browseVars, cardVars, scenario>>

NoCall == [pc |-> "idle", corr |-> 0, cmd |-> [type |-> "none"], reply |-> <<>>,
           replace |-> 0, started |-> {}]

Tokens == {row.token : row \in searches}
TracksShown == {row.track : row \in searches}

(* placement_of, read from the published cards.                               *)
Placement(token) ==
    IF token \in Tokens
    THEN (CHOOSE row \in searches : row.token = token).track
    ELSE NoTrack

(* Logged in, with the cards of a list searched for before, if any.           *)
Init ==
    /\ corr = 0 /\ pending = [k \in {} |-> NoTrack]
    /\ caller = [c \in Callers |-> NoCall]
    /\ cmds = <<>> /\ extracts = <<>> /\ bus = <<>>
    /\ logged_in = TRUE
    /\ searches = {[token |-> t, track |-> Given[t]] : t \in DOMAIN Given}
    /\ next_token = Len(Given) + 1
    /\ lookups = <<>> /\ pending_browses = {}
    /\ browsing = [u \in Users |-> 0]
    /\ listed = TracksShown /\ removed = {} /\ givenUp = {} /\ owed = {}
    /\ scenario \in Scenarios

-----------------------------------------------------------------------------
(* Round trips.                                                               *)

(* round_trip, first half: the entry is made, then the command is sent.  One  *)
(* step, as nothing looks for the entry before the command is under way.      *)
RoundTrip(c, cmd, replace) ==
    /\ corr' = corr + 1
    /\ pending' = [k \in DOMAIN pending \cup {corr'} |->
                     IF k = corr' THEN c ELSE pending[k]]
    /\ caller' = [caller EXCEPT ![c] = [NoCall EXCEPT !.pc = "waiting", !.corr = corr',
                                                     !.cmd = cmd, !.replace = replace]]
    /\ cmds' = Append(cmds, [cmd EXCEPT !.corr = corr'])

(* The call is over, and with these searches started.                         *)
Return(c, started) ==
    caller' = [caller EXCEPT ![c] = [NoCall EXCEPT !.pc = "over", !.started = started]]

Replied(c, type) ==
    /\ caller[c].pc = "waiting" /\ caller[c].cmd.type = type
    /\ caller[c].reply # <<>>

Reply(c) == Head(caller[c].reply)

(* Fifteen seconds pass without a reply; the entry is taken out afterwards,   *)
(* and a reply that comes in between finds nobody waiting.                    *)
TimeOut(c) ==
    /\ caller[c].pc = "waiting" /\ caller[c].reply = <<>>
    /\ caller' = [caller EXCEPT ![c].pc = "expiring"]
    /\ UNCHANGED <<corr, pending, cmds, extracts, bus, sessionVars, browseVars,
                   cardVars, scenario>>

Withdraw(c) ==
    /\ caller[c].pc = "expiring"
    /\ Return(c, {})
    /\ pending' = Restrict(pending, DOMAIN pending \ {caller[c].corr})
    /\ UNCHANGED <<corr, cmds, extracts, bus, sessionVars, browseVars,
                   cardVars, scenario>>

(* The client goes away and its call with it; the entry stays.                *)
GoAway(c) ==
    /\ caller[c].pc = "waiting"
    /\ Return(c, {})
    /\ UNCHANGED <<corr, pending, cmds, extracts, bus, sessionVars, browseVars,
                   cardVars, scenario>>

(* ApiServer::complete: the entry goes, and the reply reaches its caller if   *)
(* that still waits.                                                          *)
Complete(msg) ==
    IF msg.corr \notin DOMAIN pending THEN UNCHANGED <<pending, caller>>
    ELSE /\ pending' = Restrict(pending, DOMAIN pending \ {msg.corr})
         /\ LET c == pending[msg.corr] IN
              caller' = IF caller[c].pc = "waiting" /\ caller[c].corr = msg.corr
                        THEN [caller EXCEPT ![c].reply = <<msg.result>>] ELSE caller

(* forward_commands: the extract worker reads its own requests off the bus,   *)
(* the core worker everything else.                                           *)
Forward ==
    /\ cmds # <<>>
    /\ cmds' = Tail(cmds)
    /\ IF Head(cmds).type = "Extract"
       THEN extracts' = Append(extracts, Head(cmds)) /\ UNCHANGED bus
       ELSE bus' = Append(bus, Head(cmds)) /\ UNCHANGED extracts
    /\ UNCHANGED <<callVars, sessionVars, browseVars, cardVars, scenario>>

-----------------------------------------------------------------------------
(* The calls.                                                                 *)

(* SearchService::search, up to the first round trip.                         *)
Search(c) ==
    /\ caller[c].pc = "idle" /\ "search" \in scenario.kinds[c]
    /\ \E input \in {"plain", "list"}, replace \in {0} \cup Tokens :
          RoundTrip(c, [type |-> "Extract", corr |-> 0, input |-> input], replace)
    /\ UNCHANGED <<extracts, bus, sessionVars, browseVars, cardVars, scenario>>

(* build_jobs: the tracks of a list are its own; a plain query takes the      *)
(* place of the card it replaces.                                             *)
Jobs(c, found) ==
    IF caller[c].cmd.input = "list"
    THEN [i \in DOMAIN found |-> <<c, found[i]>>]
    ELSE << IF caller[c].replace = 0 THEN NoTrack ELSE Placement(caller[c].replace) >>

(* The extraction is back: an error ends the call; otherwise the searches are *)
(* made out, with the cards as they are published now, and started.           *)
Extracted(c) ==
    /\ Replied(c, "Extract")
    /\ IF Reply(c).error
       THEN Return(c, {}) /\ UNCHANGED <<corr, pending, cmds>>
       ELSE RoundTrip(c, [type |-> "StartSearch", corr |-> 0,
                          input |-> caller[c].cmd.input,
                          jobs |-> Jobs(c, Reply(c).found)], caller[c].replace)
    /\ UNCHANGED <<extracts, bus, sessionVars, browseVars, cardVars, scenario>>

(* Faulty: the replaced card goes although nothing was started.               *)
ReplacesAnyway(c) == caller[c].replace # 0

(* The card that is replaced goes only if the searches were not refused.      *)
Replaces(c) == caller[c].replace # 0 /\ ~ Reply(c).error

(* The searches are under way, or were refused.                               *)
Started(c) ==
    /\ Replied(c, "StartSearch")
    /\ Return(c, Reply(c).started)
    /\ IF Replaces(c)
       THEN /\ cmds' = Append(cmds, [type |-> "RemoveSearch", corr |-> 0,
                                     token |-> caller[c].replace])
            /\ givenUp' = IF caller[c].cmd.input = "plain" THEN givenUp
                          ELSE givenUp \cup {Placement(caller[c].replace)}
       ELSE UNCHANGED <<cmds, givenUp>>
    /\ UNCHANGED <<corr, pending, extracts, bus, sessionVars, browseVars,
                   searches, listed, removed, scenario>>

(* SearchService::remove_search waits for nothing.                            *)
RemoveCard(token) ==
    /\ token \in Tokens
    /\ scenario.removals > 0
    /\ scenario' = [scenario EXCEPT !.removals = @ - 1]
    /\ givenUp' = givenUp \cup {Placement(token)}
    /\ cmds' = Append(cmds, [type |-> "RemoveSearch", corr |-> 0, token |-> token])
    /\ UNCHANGED <<callVars, extracts, bus, sessionVars, browseVars, searches,
                   listed, removed>>

(* BrowseService::browse.                                                     *)
Browse(c) ==
    /\ caller[c].pc = "idle" /\ "browse" \in scenario.kinds[c]
    /\ \E u \in Users \cup {Nobody} :
          RoundTrip(c, [type |-> "BrowseUser", corr |-> 0, user |-> u], 0)
    /\ UNCHANGED <<extracts, bus, sessionVars, browseVars, cardVars, scenario>>

(* Faulty: a browse that is refused is waited for all the same.               *)
AnsweredAccepted(c) ==
    /\ Replied(c, "BrowseUser") /\ ~ Reply(c).error
    /\ Return(c, {})
    /\ UNCHANGED <<corr, pending, cmds, extracts, bus, sessionVars, browseVars,
                   cardVars, scenario>>

Answered(c) ==
    /\ Replied(c, "BrowseUser")
    /\ Return(c, {})
    /\ UNCHANGED <<corr, pending, cmds, extracts, bus, sessionVars, browseVars,
                   cardVars, scenario>>

-----------------------------------------------------------------------------
(* The extract worker: a plain query is one search, a list any number; either *)
(* may fail.                                                                  *)
Extract ==
    /\ extracts # <<>>
    /\ \E found \in IF Head(extracts).input = "list" THEN {<<>>, <<1, 2>>}
                                                     ELSE {<<1>>},
          error \in BOOLEAN :
          bus' = Append(bus, [type |-> "ExtractResult", corr |-> Head(extracts).corr,
                              result |-> [error |-> error, found |-> found]])
    /\ extracts' = Tail(extracts)
    /\ UNCHANGED <<callVars, cmds, sessionVars, browseVars, cardVars,
                   scenario>>

-----------------------------------------------------------------------------
(* The core worker takes the messages of the bus one at a time.               *)

Arrived(type) == bus # <<>> /\ Head(bus).type = type

Result(type, result) == [type |-> type, corr |-> Head(bus).corr, result |-> result]

(* The SearchStarted events of a StartSearch, under fresh tokens.             *)
Events(jobs) ==
    [i \in DOMAIN jobs |-> [type |-> "SearchStarted", token |-> next_token + i - 1,
                            track |-> jobs[i]]]

Announce(events, answer) == events \o <<answer>>

(* Session.                                                                   *)
StartSearch ==
    /\ Arrived("StartSearch")
    /\ LET events == IF logged_in THEN Events(Head(bus).jobs) ELSE <<>>
           answer == [error |-> ~ logged_in,
                      started |-> {ev.token : ev \in ToSet(events)}]
       IN  /\ bus' = Tail(bus) \o Announce(events, Result("StartSearchResult", answer))
           /\ next_token' = next_token + Len(events)
    /\ UNCHANGED <<callVars, cmds, extracts, logged_in, lookups,
                   pending_browses, browseVars, cardVars, scenario>>

SearchStarted ==
    /\ Arrived("SearchStarted")
    /\ searches' = searches \cup {[token |-> Head(bus).token, track |-> Head(bus).track]}
    /\ listed' = listed \cup {Head(bus).track}
    /\ bus' = Tail(bus)
    /\ UNCHANGED <<callVars, cmds, extracts, sessionVars, browseVars, removed,
                   givenUp, scenario>>

RemoveSearch ==
    /\ Arrived("RemoveSearch")
    /\ searches' = {row \in searches : row.token # Head(bus).token}
    /\ removed' = removed \cup {Head(bus).token}
    /\ bus' = Tail(bus)
    /\ UNCHANGED <<callVars, cmds, extracts, sessionVars, browseVars, listed,
                   givenUp, scenario>>

(* Faulty: a user name left blank is ignored.                                 *)
BrowseAnswerUnlessBlank(u, accepted) ==
    IF u = Nobody THEN <<>> ELSE << Result("BrowseAccepted", [error |-> ~ accepted]) >>

BrowseAnswer(u, accepted) == << Result("BrowseAccepted", [error |-> ~ accepted]) >>

(* Session: the server is asked where the user is, and the caller told that   *)
(* the browse is accepted.                                                    *)
BrowseUser ==
    /\ Arrived("BrowseUser")
    /\ LET u == Head(bus).user
           accepted == logged_in /\ u # Nobody
       IN  /\ bus' = Tail(bus) \o BrowseAnswer(u, accepted)
           /\ IF accepted
              THEN /\ lookups' = Append(lookups, u)
                   /\ pending_browses' = pending_browses \cup {u}
                   /\ owed' = owed \cup {u}
              ELSE UNCHANGED <<lookups, pending_browses, owed>>
    /\ UNCHANGED <<callVars, cmds, extracts, logged_in, next_token, browsing,
                   cardVars, scenario>>

(* Session: the first address that comes back serves every browse of the      *)
(* user; a user that is offline fails it at once.                             *)
GetPeerAddress ==
    /\ Arrived("GetPeerAddress")
    /\ LET u == Head(bus).user IN
         /\ pending_browses' = pending_browses \ {u}
         /\ bus' = IF u \notin pending_browses THEN Tail(bus)
                   ELSE Append(Tail(bus), [type |-> IF Head(bus).offline
                                                    THEN "BrowseFailed"
                                                    ELSE "PeerBrowseConnect",
                                           user |-> u])
    /\ UNCHANGED <<callVars, cmds, extracts, logged_in, next_token, lookups,
                   browseVars, cardVars, scenario>>

(* PeerNet: the browse gets a task of its own.                                *)
PeerBrowseConnect ==
    /\ Arrived("PeerBrowseConnect")
    /\ browsing' = [browsing EXCEPT ![Head(bus).user] = @ + 1]
    /\ bus' = Tail(bus)
    /\ UNCHANGED <<callVars, cmds, extracts, sessionVars, owed, cardVars,
                   scenario>>

(* ApiServer: the listing, or the failure, is shown under the user's name.    *)
BrowseEnded ==
    /\ Arrived("BrowseListing") \/ Arrived("BrowseFailed")
    /\ owed' = owed \ {Head(bus).user}
    /\ bus' = Tail(bus)
    /\ UNCHANGED <<callVars, cmds, extracts, sessionVars, browsing, cardVars,
                   scenario>>

(* ApiServer: a result completes the call it answers.                         *)
TakeResult ==
    /\ bus # <<>> /\ Head(bus).type \in {"ExtractResult", "StartSearchResult",
                                        "BrowseAccepted"}
    /\ Complete(Head(bus))
    /\ bus' = Tail(bus)
    /\ UNCHANGED <<corr, cmds, extracts, sessionVars, browseVars, cardVars,
                   scenario>>

-----------------------------------------------------------------------------
(* The server and the peers.                                                  *)

LogIn ==
    /\ ~ logged_in
    /\ logged_in' = TRUE
    /\ UNCHANGED <<callVars, cmds, extracts, bus, next_token, lookups,
                   pending_browses, browseVars, cardVars, scenario>>

(* The link is lost, and with it the questions the server has not answered;   *)
(* nothing asks them again.                                                   *)
LinkLost ==
    /\ logged_in /\ scenario.drops > 0
    /\ scenario' = [scenario EXCEPT !.drops = @ - 1]
    /\ logged_in' = FALSE
    /\ lookups' = <<>>
    /\ owed' = owed \ ToSet(lookups)
    /\ UNCHANGED <<callVars, cmds, extracts, bus, next_token, pending_browses,
                   browsing, cardVars>>

ServerAnswers ==
    /\ lookups # <<>>
    /\ \E offline \in BOOLEAN :
          bus' = Append(bus, [type |-> "GetPeerAddress", user |-> Head(lookups),
                              offline |-> offline])
    /\ lookups' = Tail(lookups)
    /\ UNCHANGED <<callVars, cmds, extracts, logged_in, next_token,
                   pending_browses, browseVars, cardVars, scenario>>

(* Faulty: a browse that fails says nothing.                                  *)
OutcomesQuiet(u) == {<<>>, << [type |-> "BrowseListing", user |-> u] >>}

(* A listing or, at the deadline at the latest, a failure.                    *)
Outcomes(u) == {<< [type |-> type, user |-> u] >> : type \in {"BrowseListing", "BrowseFailed"}}

BrowseTask(u) ==
    /\ browsing[u] > 0
    /\ browsing' = [browsing EXCEPT ![u] = @ - 1]
    /\ \E outcome \in Outcomes(u) : bus' = bus \o outcome
    /\ UNCHANGED <<callVars, cmds, extracts, sessionVars, owed, cardVars,
                   scenario>>

CoreWorker ==
    \/ StartSearch \/ SearchStarted \/ RemoveSearch
    \/ BrowseUser \/ GetPeerAddress \/ PeerBrowseConnect \/ BrowseEnded
    \/ TakeResult

Call(c) == Search(c) \/ Browse(c)

Wake(c) == Withdraw(c) \/ Extracted(c) \/ Started(c) \/ Answered(c)

Next ==
    \/ \E c \in Callers : Call(c) \/ Wake(c) \/ TimeOut(c) \/ GoAway(c)
    \/ \E token \in Tokens : RemoveCard(token)
    \/ Forward \/ Extract \/ CoreWorker
    \/ LogIn \/ LinkLost \/ ServerAnswers
    \/ \E u \in Users : BrowseTask(u)

(* Threads and workers that can go on do; nothing is assumed of the clients,  *)
(* the clock, the server, the peers or the link.  The extract worker's        *)
(* requests give up after fifteen seconds each.                               *)
Fairness ==
    /\ \A c \in Callers : WF_vars(Wake(c))
    /\ WF_vars(Forward) /\ WF_vars(Extract) /\ WF_vars(CoreWorker)

Spec == Init /\ [][Next]_vars /\ Fairness

-----------------------------------------------------------------------------
(* Properties.                                                                *)

ReplyTo == [Extract |-> "ExtractResult", StartSearch |-> "StartSearchResult",
            BrowseUser |-> "BrowseAccepted"]

(* The commands, requests and results under way for a correlation.            *)
UnderWay(k) ==
    LET for(at, queue) ==
          {[at |-> at, place |-> i, type |-> queue[i].type] : i \in
             {j \in DOMAIN queue : "corr" \in DOMAIN queue[j] /\ queue[j].corr = k}}
    IN  for("cmds", cmds) \cup for("extracts", extracts) \cup for("bus", bus)

(* No entry is left behind by a caller that timed out or went away, no call   *)
(* is answered twice or with another call's kind of reply, and none waits     *)
(* that could not be answered: an entry has exactly one command, request or   *)
(* result under way, and a caller without a reply has its entry, whose answer *)
(* is of the kind it expects (round_trip, complete).                          *)
EntriesAreOwed ==
    /\ \A k \in DOMAIN pending : Cardinality(UnderWay(k)) = 1
    /\ \A c \in Callers : caller[c].pc = "waiting" /\ caller[c].reply = <<>> =>
          LET k == caller[c].corr IN
            /\ k \in DOMAIN pending /\ pending[k] = c
            /\ \A w \in UnderWay(k) :
                  w.type \in {caller[c].cmd.type, ReplyTo[caller[c].cmd.type]}

(* A client that is told its searches were started finds the card of each,    *)
(* unless somebody removed it; and editing a track of a list, by however many *)
(* clients at once, with whatever fails or times out in between, never loses  *)
(* the track's last card (search: the replaced card goes only after the one   *)
(* that takes its place is there).                                            *)
CardsFollow ==
    /\ \A c \in Callers : caller[c].started \subseteq Tokens \cup removed
    /\ listed \ givenUp \subseteq TracksShown \cup {NoTrack}

(* A browse that was accepted is, until its end is shown, somewhere on its    *)
(* way: with the server, on the bus or in a task; the loss of the link is the *)
(* only thing that loses it (BrowseUser, GetPeerAddress, browse_task).        *)
BrowseIsTracked ==
    \A u \in owed :
       \/ u \in ToSet(lookups) /\ u \in pending_browses
       \/ browsing[u] > 0
       \/ \E i \in DOMAIN bus :
             \/ bus[i].type \in {"PeerBrowseConnect", "BrowseListing", "BrowseFailed"}
                /\ bus[i].user = u
             \/ bus[i].type = "GetPeerAddress" /\ bus[i].user = u
                /\ u \in pending_browses

(* Nobody waits for the fifteen seconds to pass: whatever the network does,   *)
(* every call gets its reply from the workers, or its client leaves it.       *)
AnsweredInTime ==
    \A c \in Callers : caller[c].pc = "waiting" ~> caller[c].pc # "waiting"
=============================================================================
