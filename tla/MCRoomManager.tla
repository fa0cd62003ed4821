---------------------------- MODULE MCRoomManager ----------------------------
(* Small instances of RoomManager for TLC.                                 *)
EXTENDS RoomManager, TLC

CONSTANTS i1, i2, r1, r2, r3
=============================================================================
