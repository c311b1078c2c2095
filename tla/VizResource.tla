---------------------------- MODULE VizResource ----------------------------
(***************************************************************************)
(* The allocation state of one visualization resource: the class           *)
(* VizResource of python/vsapi.py, and what its subclass GPU adds to it.   *)
(* A resource keeps the list of its owners (a user appears once for every  *)
(* allocation that holds the resource) and a flag that says whether it is  *)
(* handed out for shared use.  The order of the list is never read, so it  *)
(* is a bag: the number of times each user occurs in it.                   *)
(***************************************************************************)
EXTENDS Integers, FiniteSets

CONSTANTS
    Res,        \* the resources of the system
    Uid,        \* the users
    ShareLimit  \* maxShareCount of every resource; 1: not sharable

ASSUME ShareLimitAssumption == ShareLimit \in [Res -> Nat \ {0}]

Owners == [Uid -> Nat]
State == [owners : Owners, shared : BOOLEAN]

NoOwners == [u \in Uid |-> 0]
Unowned == [owners |-> NoOwners, shared |-> FALSE]

\* The entries of an owner list, told apart by their ordinal.
Entries(b) == UNION {{u} \X (1..b[u]) : u \in Uid}
NumOwners(b) == Cardinality(Entries(b))

addOwner(b, u) == [b EXCEPT ![u] = b[u] + 1]
owns(b, u) == b[u] > 0
removeOwner(b, u) == [b EXCEPT ![u] = b[u] - 1]

isSharable(r) == ShareLimit[r] > 1

\* Mutants of maxUsers: the mode not looked at, and a limit off by one.
maxUsers_ModeIgnored(r, s) == ShareLimit[r]
maxUsers_OffByOne(r, s) == IF s.shared THEN ShareLimit[r] + 1 ELSE 1
maxUsers(r, s) == IF s.shared THEN ShareLimit[r] ELSE 1
isFree(r, s) == NumOwners(s.owners) # maxUsers(r, s)

\* A mutant of canAllocate: an exclusive request may join a shared resource.
canAllocate_ModeIgnored(r, s, shared) ==
    isFree(r, s) /\ (shared => isSharable(r))

\* Can a request (shared or exclusive) be served from resource r in state s?
canAllocate(r, s, shared) ==
    /\ isFree(r, s)
    /\ shared => isSharable(r)
    /\ s.shared => shared

doAllocate(r, s, shared, u) ==
    [owners |-> addOwner(s.owners, u),
     shared |-> s.shared \/ (shared /\ isSharable(r))]

\* Mutants of deallocate: every owner removed, and the mode reset too early.
deallocate_AllOwners(s, u) == Unowned
deallocate_ResetsShared(s, u) ==
    [owners |-> removeOwner(s.owners, u), shared |-> FALSE]

deallocate(s, u) ==
    LET rest == removeOwner(s.owners, u)
    IN  [owners |-> rest, shared |-> s.shared /\ NumOwners(rest) # 0]
=============================================================================
