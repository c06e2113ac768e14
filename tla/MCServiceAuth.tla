--------------------------- MODULE MCServiceAuth ---------------------------
(* Small instances of ServiceAuth for TLC.                                 *)
EXTENDS ServiceAuth, TLC

CONSTANTS k1, k2, r1, r2

\* Keys and requests are alike.
Interchangeable == Permutations({k1, k2}) \cup Permutations({r1, r2})
=============================================================================
