---------------------------- MODULE MCDownloads ----------------------------
(* Instances of Downloads for TLC. *)
EXTENDS Downloads, TLC

CONSTANTS k1, p1

\* One file, requested up to twice; its uploader picks a fresh token for
\* every offer.
MCUploaderOf == k1 :> p1
MCUploaderTokens == p1 :> 1..2
MCMaxStarts == k1 :> 2
=============================================================================
