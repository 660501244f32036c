-------------------------- MODULE MCMeetingReports --------------------------
(* MeetingReports on small instances.                                      *)
EXTENDS MeetingReports
=============================================================================
