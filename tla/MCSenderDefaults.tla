-------------------------- MODULE MCSenderDefaults --------------------------
(* Small instances of SenderDefaults for TLC.                              *)
EXTENDS SenderDefaults

CONSTANTS s1, s2, s3, n1
=============================================================================
