---------------------------- MODULE MCTransferRows ----------------------------
(* An instance of TransferRows for TLC: three files, two of one name and one  *)
(* of a list, in lists of two rows; either downloads and deaths of the        *)
(* process, or uploads.                                                       *)
EXTENDS TransferRows, TLC

CONSTANTS a, b, c

MCNameOf == a :> "song" @@ b :> "song" @@ c :> "tune"

MCCourses ==
    {[starts |-> 3, uploads |-> 0, crashes |-> 1],
     [starts |-> 0, uploads |-> 4, crashes |-> 0]}
=============================================================================
