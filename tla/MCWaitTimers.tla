---------------------------- MODULE MCWaitTimers ----------------------------
(***************************************************************************)
(* Three clients may wait at once, for one, three or five seconds or for   *)
(* ever.                                                                   *)
(***************************************************************************)
EXTENDS WaitTimers

CONSTANTS c1, c2, c3

MCClient == {c1, c2, c3}
=============================================================================
