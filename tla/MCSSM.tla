------------------------------- MODULE MCSSM -------------------------------
(***************************************************************************)
(* Small instances of SSM: root and another user, an X server of one       *)
(* allocation at a time and one that two may share.                        *)
(***************************************************************************)
EXTENDS SSM

CONSTANTS root, alice, own, shared, MaxConn

MCUid == {root, alice}
OneUser == {alice}
MCServer == {own, shared}
OwnServer == {own}
OneServer == {shared}
NoServer == {}
MCShareLimit == [s \in Server |-> 2]
MCConn == 1..MaxConn
MCWishes == {{own, shared}, {shared}}
OwnWish == {{own}}
SharedWish == {{shared}}
=============================================================================
