------------------------ MODULE MCServiceCallbacks ------------------------
(* Small instances of ServiceCallbacks for TLC.                            *)
EXTENDS ServiceCallbacks, TLC

CONSTANTS k1, k2, i1, i2, p1, p2, t1, t2

\* The new secret is accepted before any process signs with it.
MCRollout == << <<k1>>, <<k1, k2>>, <<k2, k1>>, <<k2>> >>

\* No rotation.
MCOneSecret == << <<k1>> >>

\* Processes, texts and ids are alike.
Interchangeable == Permutations({p1, p2}) \cup Permutations({t1, t2}) \cup Permutations({i1, i2})
=============================================================================
