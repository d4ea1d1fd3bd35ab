--------------------------- MODULE MCDistribTree ---------------------------
(* An instance of DistribTree for TLC. *)
EXTENDS DistribTree

\* Too slow for a child, and fast enough for one.
MCSpeeds == {[speed |-> 50, min_speed |-> 100, ratio |-> 1],
             [speed |-> 150, min_speed |-> 100, ratio |-> 1]}
=============================================================================
