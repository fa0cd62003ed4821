----------------------------- MODULE MCPresence -----------------------------
(* Small instances of Presence for TLC.                                    *)
EXTENDS Presence, TLC

CONSTANTS b1, b2, c1, c2, p1, p2

\* Each page keeps to its connection.
TwoPages    == c1 :> p1 @@ c2 :> p2
OneConn     == c1 :> p1
=============================================================================
