----------------------------- MODULE MCLocalRoom -----------------------------
(* Small instances of LocalRoom for TLC.                                   *)
EXTENDS LocalRoom, TLC

CONSTANTS c1, c2
=============================================================================
