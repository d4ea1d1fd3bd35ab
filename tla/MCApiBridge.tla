----------------------------- MODULE MCApiBridge -----------------------------
(* An instance of ApiBridge for TLC: two calls.  Both search, also to replace *)
(* the one card that is there, while the user removes a card; one searches    *)
(* and one browses, or both browse, while the link is lost.                   *)
EXTENDS ApiBridge, TLC

CONSTANTS c1, c2

Calls(kind1, kind2) == c1 :> {kind1} @@ c2 :> {kind2}

MCScenarios ==
    {[kinds |-> Calls("search", "search"), removals |-> 1, drops |-> 0],
     [kinds |-> Calls("search", "browse"), removals |-> 0, drops |-> 1],
     [kinds |-> Calls("browse", "browse"), removals |-> 0, drops |-> 1]}

MCGiven == << <<"list", 1>> >>
=============================================================================
