------------------------------- MODULE MCRooms -------------------------------
(***************************************************************************)
(* A small instance of Rooms for TLC.                                      *)
(***************************************************************************)
EXTENDS Rooms, TLC
=============================================================================
