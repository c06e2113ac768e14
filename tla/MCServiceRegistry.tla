-------------------------- MODULE MCServiceRegistry -------------------------
(* Small instances of ServiceRegistry for TLC.                             *)
EXTENDS ServiceRegistry

CONSTANTS r1, r2, r3, k1, k2, t1, t2
=============================================================================
