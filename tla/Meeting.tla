------------------------------- MODULE Meeting -------------------------------
(***************************************************************************)
(* What a room promises about its meeting: who is present, whom it lists,  *)
(* and who is the host.                                                    *)
(*                                                                         *)
(* Whoever is present entered and has not left since; LiveKit may have     *)
(* others listed.  A meeting somebody is present at has a host, and keeps  *)
(* it: only somebody who enters may take the host's place, and it passes to*)
(* somebody who is listed only when the host itself leaves.                *)
(***************************************************************************)
CONSTANTS
  Users,
  Nobody   \* no user

VARIABLES
  present,
  listed,
  host

meetingVars == <<present, listed, host>>

MeetingInit == present = {} /\ listed = {} /\ host = Nobody

(* A meeting that has no host may be over: a new one lists nobody else.    *)
Enter(u) ==
  /\ present' = present \cup {u}
  /\ \/ listed' = listed \cup {u}
     \/ host = Nobody /\ listed' = {u}
  /\ host' \in {host, u} \ {Nobody}

Exit(u) ==
  /\ present' = present \ {u}
  /\ listed' = listed \ {u}
  /\ IF host # u THEN host' = host
     ELSE IF listed' = {} THEN host' = Nobody
     ELSE host' \in listed'

Appear(u) == listed' = listed \cup {u} /\ UNCHANGED <<present, host>>

Vanish == present' = {} /\ listed' = {} /\ host' = Nobody

MeetingNext ==
  \/ \E u \in Users : Enter(u) \/ Exit(u) \/ Appear(u)
  \/ Vanish

MeetingSpec == MeetingInit /\ [][MeetingNext]_meetingVars
=============================================================================
