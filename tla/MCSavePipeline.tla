--------------------------- MODULE MCSavePipeline ---------------------------
(* Small instances of SavePipeline for TLC.                                *)
EXTENDS SavePipeline, TLC

CONSTANTS b1, b2, b3, n1, n2, n3, c1, c2

\* A batch of two notifications, one of one, and one that cannot be decoded.
MCItems == (b1 :> {n1, n2}) @@ (b2 :> {n3}) @@ (b3 :> {})

\* The batch that comes back for ever shares the queue with the first or has it
\* to itself, and does not meet the second; its signatures are never looked at.
Apart == signed[b3] /\ (place[b2] = "unsent" \/ place[b3] = "unsent")

\* The consumers are alike, and so are the notifications of one batch.
Interchangeable == Permutations({c1, c2}) \cup Permutations({n1, n2})
=============================================================================
