----------------------------- MODULE MCUploads -----------------------------
(* Instances of Uploads for TLC. *)
EXTENDS Uploads, TLC

CONSTANTS p1, p2

MCPeers == {p1, p2}

\* The peers also request under tokens of their own, above those we mint: both
\* may pick 9, at once or one after the other, and p2 picks between two.
MCPeerTokens == p1 :> {9} @@ p2 :> {9, 10}
=============================================================================
