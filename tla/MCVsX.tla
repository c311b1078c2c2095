------------------------------- MODULE MCVsX -------------------------------
(***************************************************************************)
(* Invocations by two users for a shared X server, a1, b1 and a2, and by   *)
(* one of them for an X server that is not shared, a3.                     *)
(***************************************************************************)
EXTENDS VsX

CONSTANTS a1, b1, a2, a3, shared, own, alice, bob

Sharers == {a1, b1, a2}
OneOfEach == {a1, a3}
MCServer == {SrvOf[v] : v \in V}
MCShared == MCServer \cap {shared}
MCSrvOf == [v \in V |-> IF v = a3 THEN own ELSE shared]
Everyone == V
Unshared == {v \in V : MCSrvOf[v] = own}
Sharing == V \ Unshared
Nobody == {}
MCUidOf == [v \in V |-> IF v = b1 THEN bob ELSE alice]
=============================================================================
