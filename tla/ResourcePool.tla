---------------------------- MODULE ResourcePool ----------------------------
(***************************************************************************)
(* What the metascheduler promises its clients, without saying how: a set  *)
(* of grants, each of one resource to one holder, either exclusive or      *)
(* shared.  A resource has one exclusive grant, or at most ShareLimit[r]   *)
(* shared ones, and grants come and go one at a time.                      *)
(***************************************************************************)
EXTENDS Integers, FiniteSets

CONSTANTS
    Res,        \* the resources
    ShareLimit, \* how many shared grants a resource takes
    Holder,     \* those who may hold a grant
    Grant       \* the grants, records with at least the fields res and shared

VARIABLE granted    \* the grants in force, pairs <<holder, grant>>

On(r) == {t \in granted : t[2].res = r}

Init == granted = {}

Acquire(h, g) ==
    /\ <<h, g>> \notin granted
    /\ \/ ~g.shared /\ On(g.res) = {}
       \/ /\ g.shared
          /\ \A t \in On(g.res) : t[2].shared
          /\ Cardinality(On(g.res)) < ShareLimit[g.res]
    /\ granted' = granted \cup {<<h, g>>}

Drop(t) == granted' = granted \ {t}

Next == \/ \E h \in Holder, g \in Grant : Acquire(h, g)
        \/ \E t \in granted : Drop(t)

Spec == Init /\ [][Next]_granted
=============================================================================
