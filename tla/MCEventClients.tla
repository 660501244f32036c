--------------------------- MODULE MCEventClients ---------------------------
(* EventClients on small instances: a channel that holds three events is   *)
(* full as soon as it is given one broadcast more than its opening events. *)
EXTENDS EventClients
=============================================================================
