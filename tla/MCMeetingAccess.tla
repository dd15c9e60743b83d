-------------------------- MODULE MCMeetingAccess --------------------------
(* MeetingAccess, and ServiceAccount in it, on small instances.            *)
EXTENDS MeetingAccess
=============================================================================
