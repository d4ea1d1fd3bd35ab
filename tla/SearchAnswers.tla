---------------------------- MODULE SearchAnswers ----------------------------
(* How peer_net answers the searches of the network (peer_net.rs): each is    *)
(* matched on a thread of its own against the index, the phrases and the cap  *)
(* of the moment it was taken up; the answer waits under a relay token for    *)
(* the searcher to connect and name that token.  Meanwhile a changed          *)
(* configuration has the shared folders scanned again, also on a thread of    *)
(* its own, and the server may change the phrases it wants left out.          *)
EXTENDS SearchMatch

CONSTANTS
    Searches,      \* searches that reach us
    QueryOf,       \* the query of each
    SharesOf,      \* SharesOf[v + 1]: what a scan for configuration v finds
    ResultCap,     \* ResultCap[v + 1]: max_search_results in configuration v
    Phrases,       \* phrases the server asks to leave out, in one message
    Cap,           \* MAX_PENDING_DELIVERIES
    TokenSpace,    \* relay tokens are counted modulo this
    FirstTokens    \* where the token counter may stand

ASSUME AnswersAssumption ==
    /\ Cap \in Nat \ {0} /\ TokenSpace \in Nat \ {0}
    /\ FirstTokens \subseteq 0 .. TokenSpace - 1
    /\ DOMAIN QueryOf = Searches /\ \A s \in Searches : IsQuery(QueryOf[s])
    /\ Len(SharesOf) \in Nat \ {0}
    /\ \A v \in 1 .. Len(SharesOf) : IsScan(SharesOf[v]) /\ ResultCap[v] \in Nat

LastConfig == Len(SharesOf) - 1

VARIABLES
    cmds,           \* commands to the reactor, in order
    asked,          \* searches that have reached us
    saved,          \* the newest configuration saved
    applied,        \* the newest configuration the reactor has taken up
    index,          \* the configuration whose scan is the index in use
    scans,          \* configurations being scanned for
    quiet,          \* history: the index when last no scan was running
    excluded,       \* the phrases to leave out
    connect_token,  \* the relay token handed out next
    matching,       \* searches being matched, with what was read for each
    deliveries,     \* PendingDeliveries.by_token: answers under their tokens
    asks,           \* ConnectToPeer requests sent to the server
    delivered,      \* history: searches whose answer was taken to the searcher
    evicted         \* history: searches whose answer was dropped at the cap

configVars == <<saved, applied, index, scans, quiet>>
deliveryVars == <<deliveries, asks, delivered, evicted>>
vars == <<cmds, asked, configVars, excluded, connect_token, matching,
          deliveryVars>>

Init ==
    /\ cmds = <<>> /\ asked = {}
    /\ saved = 0 /\ applied = 0 /\ index = 0 /\ quiet = 0 /\ scans = {}
    /\ excluded = {}
    /\ connect_token \in FirstTokens
    /\ matching = {} /\ asks = {} /\ delivered = {} /\ evicted = {}
    /\ deliveries = [token \in {} |-> <<>>]

-----------------------------------------------------------------------------
(* What the rest of the program and the server send.                          *)

SearchArrives(s) ==
    /\ s \notin asked
    /\ asked' = asked \cup {s}
    /\ cmds' = Append(cmds, [type |-> "IncomingSearch", search |-> s])
    /\ UNCHANGED <<configVars, excluded, connect_token, matching, deliveryVars>>

ConfigChanged ==
    /\ saved < LastConfig
    /\ saved' = saved + 1
    /\ cmds' = Append(cmds, [type |-> "ApplyConfig", config |-> saved + 1])
    /\ UNCHANGED <<asked, applied, index, scans, quiet, excluded, connect_token,
                   matching, deliveryVars>>

PhrasesArrive ==
    /\ excluded = {} /\ ~ \E i \in DOMAIN cmds : cmds[i].type = "SetExcludedPhrases"
    /\ cmds' = Append(cmds, [type |-> "SetExcludedPhrases"])
    /\ UNCHANGED <<asked, configVars, excluded, connect_token, matching, deliveryVars>>

-----------------------------------------------------------------------------
(* The reactor takes the commands in order.                                   *)

Commanded(type) ==
    /\ cmds # <<>> /\ Head(cmds).type = type
    /\ cmds' = Tail(cmds)

(* The token is minted and everything the answer depends on is read here;     *)
(* the matching itself happens later.                                         *)
IncomingSearch ==
    /\ Commanded("IncomingSearch")
    /\ matching' = matching \cup
         {[search |-> Head(cmds).search, token |-> connect_token, config |-> index,
           cap |-> ResultCap[applied + 1], phrases |-> excluded]}
    /\ connect_token' = (connect_token + 1) % TokenSpace
    /\ UNCHANGED <<asked, configVars, excluded, deliveryVars>>

ApplyConfig ==
    /\ Commanded("ApplyConfig")
    /\ applied' = Head(cmds).config
    /\ scans' = scans \cup {applied'}
    /\ UNCHANGED <<asked, saved, index, quiet, excluded, connect_token, matching,
                   deliveryVars>>

SetExcludedPhrases ==
    /\ Commanded("SetExcludedPhrases")
    /\ excluded' = Phrases
    /\ UNCHANGED <<asked, configVars, connect_token, matching, deliveryVars>>

(* Faulty: a scan that failed leaves an empty index.                          *)
ScanEndsEmpty(config) ==
    /\ config \in scans
    /\ scans' = scans \ {config}
    /\ index' \in {config, 0}
    /\ quiet' = IF scans' = {} THEN index' ELSE quiet
    /\ UNCHANGED <<cmds, asked, saved, applied, excluded, connect_token, matching,
                   deliveryVars>>

(* A scan that ends puts its index in place, whatever was put there since it  *)
(* began; one that fails leaves the index in use.                             *)
ScanEnds(config) ==
    /\ config \in scans
    /\ scans' = scans \ {config}
    /\ index' \in {config, index}
    /\ quiet' = IF scans' = {} THEN index' ELSE quiet
    /\ UNCHANGED <<cmds, asked, saved, applied, excluded, connect_token, matching,
                   deliveryVars>>

-----------------------------------------------------------------------------
(* Answers.                                                                   *)

(* The answers under a token, none if it is not known.                        *)
Under(token) == IF token \in DOMAIN deliveries THEN deliveries[token] ELSE <<>>

(* PendingDeliveries::queue: the answer joins the ones under its token, and   *)
(* while there are too many tokens the lowest goes.                           *)
Queue(token, answer) ==
    LET tokens == DOMAIN deliveries \cup {token}
        kept == {t \in tokens : Cardinality({u \in tokens : u > t}) < Cap}
        grown == [t \in tokens |-> IF t = token THEN Append(Under(t), answer)
                                                ELSE deliveries[t]]
    IN  /\ deliveries' = [t \in kept |-> grown[t]]
        /\ evicted' = evicted \cup
             UNION {{a.search : a \in ToSet(grown[t])} : t \in tokens \ kept}

AnswerTo(m) ==
    [search |-> m.search, from |-> m,
     files |-> Respond(QueryOf[m.search], m.cap, m.phrases, SharesOf[m.config + 1])]

(* The matching ends.  Nothing found is not answered; otherwise the answer is *)
(* queued first and then the server is asked to have the searcher connect.    *)
Matched(m) ==
    /\ m \in matching
    /\ matching' = matching \ {m}
    /\ IF AnswerTo(m).files = <<>>
       THEN UNCHANGED <<deliveries, evicted, asks>>
       ELSE /\ Queue(m.token, AnswerTo(m))
            /\ asks' = asks \cup {[token |-> m.token, search |-> m.search]}
    /\ UNCHANGED <<cmds, asked, configVars, excluded, connect_token, delivered>>

(* Faulty: the answers stay queued when they are collected.                   *)
PiercedKeeping(ask) ==
    /\ ask \in asks /\ ask.token \in DOMAIN deliveries
    /\ delivered' = delivered \cup {a.search : a \in ToSet(deliveries[ask.token])}
    /\ UNCHANGED <<cmds, asked, configVars, excluded, connect_token, matching,
                   deliveries, asks, evicted>>

(* The searcher connects and names the token, perhaps long after, perhaps     *)
(* never, perhaps twice: the answers under it are taken out in one step and   *)
(* written.  A token that is not known any more is refused without effect.    *)
Pierced(ask) ==
    /\ ask \in asks /\ ask.token \in DOMAIN deliveries
    /\ delivered' = delivered \cup {a.search : a \in ToSet(deliveries[ask.token])}
    /\ deliveries' = [t \in DOMAIN deliveries \ {ask.token} |-> deliveries[t]]
    /\ UNCHANGED <<cmds, asked, configVars, excluded, connect_token, matching, asks,
                   evicted>>

Next ==
    \/ \E s \in Searches : SearchArrives(s)
    \/ ConfigChanged
    \/ PhrasesArrive
    \/ IncomingSearch \/ ApplyConfig \/ SetExcludedPhrases
    \/ \E config \in scans : ScanEnds(config)
    \/ \E m \in matching : Matched(m)
    \/ \E ask \in asks : Pierced(ask)

Spec == Init /\ [][Next]_vars

-----------------------------------------------------------------------------
(* Properties.                                                                *)

Queued(s) == \E t \in DOMAIN deliveries : \E a \in ToSet(deliveries[t]) : a.search = s

(* A searcher is only asked to connect for an answer that waits under the     *)
(* token it was given, until that one answer is collected, once, or has to    *)
(* make room; whatever order the matchings end in and wherever the token      *)
(* counter wraps (IncomingSearch, PendingDeliveries, serve_connection).       *)
AskedHasOneAnswer ==
    \A ask \in asks :
       /\ \/ \E a \in ToSet(Under(ask.token)) : a.search = ask.search
          \/ ask.search \in delivered \cup evicted
       /\ ~ (Queued(ask.search) /\ ask.search \in delivered \cup evicted)

(* A waiting answer names the files that match its query in the index it was  *)
(* matched against: cutting the list to the cap, excluding words and leaving  *)
(* out phrases do not get in each other's way (search_response::respond).     *)
AnswersAreRight ==
    \A t \in DOMAIN deliveries : \A a \in ToSet(deliveries[t]) :
       IsAnswer(a.files, QueryOf[a.search], a.from.cap, a.from.phrases,
                SharesOf[a.from.config + 1])

(* Scans run side by side and may end in any order, so an older one may take  *)
(* the place of a newer (that the index is the one of the folders configured  *)
(* when every scan has ended does not hold); but no scan, and no scan that    *)
(* fails, ever puts in place an index older than the one that was in use when *)
(* last no scan was running (ApplyConfig).                                    *)
IndexNotBehindQuiet == [][index' >= quiet]_vars
=============================================================================
