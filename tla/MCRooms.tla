------------------------------- MODULE MCRooms -------------------------------
(* Rooms on small instances.                                               *)
EXTENDS Rooms
=============================================================================
