-------------------------- MODULE MCSearchAnswers --------------------------
(* An instance of SearchAnswers for TLC: four files whose scan order is not   *)
(* the order of their paths, three configurations and three searches, of      *)
(* which one is cut by the cap, one excludes a word and one names the end of  *)
(* a word.                                                                    *)
EXTENDS SearchAnswers, TLC

MCWordsOf == 1 :> {"live", "song"} @@ 2 :> {"song"} @@ 3 :> {"song", "along"}
             @@ 4 :> {"song", "belong"}

MCEndsWith == "long" :> {"along", "belong"}

MCPathsWith == "live" :> {1}

MCQueryOf ==
    "cut" :> [included |-> <<"song">>, excluded |-> {}, partial |-> {}]
    @@ "without" :> [included |-> <<"song">>, excluded |-> {"along"}, partial |-> {}]
    @@ "ending" :> [included |-> <<"song">>, excluded |-> {}, partial |-> {"long"}]

MCSharesOf == << <<3, 1>>, <<4, 3, 1, 2>>, <<2, 4>> >>

MCResultCap == <<2, 2, 1>>
=============================================================================
