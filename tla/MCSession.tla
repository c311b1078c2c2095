----------------------------- MODULE MCSession -----------------------------
(***************************************************************************)
(* Small instances of Session.                                             *)
(***************************************************************************)
EXTENDS Session

CONSTANTS s1, s2

OneServer == {s1}
TwoServers == {s1, s2}
=============================================================================
