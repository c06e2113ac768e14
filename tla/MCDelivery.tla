----------------------------- MODULE MCDelivery -----------------------------
(* Small instances of DeliveryQueue for TLC.                               *)
EXTENDS DeliveryQueue, TLC

CONSTANTS n1, n2, c1, c2

\* The consumers are alike.
Interchangeable == Permutations({c1, c2})
=============================================================================
