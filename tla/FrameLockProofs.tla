-------------------------- MODULE FrameLockProofs --------------------------
(***************************************************************************)
(* Theorems about FrameLock, for any chain of GPUs, outputs and rates: what *)
(* the calls leave behind, whatever was lost or failed before.             *)
(***************************************************************************)
EXTENDS FrameLock, SequenceTheorems, FiniteSetTheorems, TLAPS

Setting == [enable : BOOLEAN, master : SUBSET Port, slaves : SUBSET Port]

\* Commands that lock, with the first GPU as the only master, and commands that unlock.
Locks(c) ==
    \/ c.prop = "enable" /\ c.val = TRUE
    \/ c.prop = "master" /\ (c.on = First \/ c.val = {})
    \/ c.prop = "slaves"
Unlocks(c) ==
    \/ c.prop = "enable" /\ c.val = FALSE
    \/ c.prop \in {"master", "slaves"} /\ c.val = {}

TypeOK ==
    /\ ports \in [Gpus -> SUBSET Port]
    /\ gpu \in [Gpus -> Setting]
    /\ plan \in Seq(ToSet(plan))
    /\ \A c \in ToSet(plan) : c.on \in Gpus /\ (Locks(c) \/ Unlocks(c))
    /\ call \in {"none", "enable", "disable"}
    /\ call = "none" => plan = <<>>

Planned(g, prop, val) == Command(g, prop, val) \in ToSet(plan)

\* No GPU but the first is ever a master, whatever is lost.
OneMaster == \A g \in Gpus : g # First => gpu[g].master = {}

Locking ==
    /\ \A c \in ToSet(plan) : Locks(c)
    /\ \A g \in Gpus : gpu[g].enable = TRUE \/ Planned(g, "enable", TRUE)

Unlocking ==
    /\ \A c \in ToSet(plan) : Unlocks(c)
    /\ \A g \in Gpus : gpu[g].enable = FALSE \/ Planned(g, "enable", FALSE)
    /\ \A g \in Gpus : gpu[g].master = {} \/ Planned(g, "master", {})
    /\ \A g \in Gpus : gpu[g].slaves = {} \/ Planned(g, "slaves", {})

AllOff == \A g \in Gpus : gpu[g] = Off
AllOn == \A g \in Gpus : gpu[g].enable = TRUE

\* The GPUs are as the call in progress has set them so far, if nothing was lost in it.
InProgress ==
    ~disturbed => (call = "enable" => Locking) /\ (call = "disable" => Unlocking)

IInv == TypeOK /\ OneMaster /\ InProgress

USE FrameLockAssumption DEF site
-----------------------------------------------------------------------------
(* Sequences of commands.                                                  *)

LEMMA ChainProperties ==
    /\ Len(Chain) \in Nat \ {0} /\ DOMAIN Chain = 1..Len(Chain)
    /\ First \in Gpus
    /\ \A g \in Gpus : \E i \in 1..Len(Chain) : g = Chain[i]
    /\ \A i \in 1..Len(Chain) : Chain[i] \in Gpus
BY DEF First, Gpus, ToSet

\* The first GPU answers for itself.
LEMMA FirstAnswers == Answering(First) = First
<1> DEFINE Least(i) == /\ XServer[Chain[i]] = XServer[First]
                       /\ \A j \in DOMAIN Chain : j < i => XServer[Chain[j]] # XServer[First]
           c == CHOOSE i \in DOMAIN Chain : Least(i)
<1>1. 1 \in DOMAIN Chain /\ Least(1)
  BY ChainProperties DEF First
<1>2. \A i \in DOMAIN Chain : Least(i) => i = 1
  BY <1>1, ChainProperties DEF First
<1>3. c = 1
  BY <1>1, <1>2
<1>4. Answering(First) = Chain[c]
  BY DEF Answering
<1> QED
  BY <1>3, <1>4 DEF First

\* A sequence of a length and its elements.
LEMMA ListProperties ==
    ASSUME NEW S, NEW n \in Nat, NEW f \in [1..n -> S]
    PROVE  /\ f \in Seq(ToSet(f)) /\ DOMAIN f = 1..n /\ Len(f) = n
           /\ \A i \in 1..n : f[i] \in ToSet(f)
<1>1. DOMAIN f = 1..n
  OBVIOUS
<1>2. \A i \in 1..n : f[i] \in ToSet(f)
  BY <1>1 DEF ToSet
<1>3. f \in [1..n -> ToSet(f)]
  BY <1>1, <1>2
<1>4. f \in Seq(ToSet(f))
  BY <1>3
<1>5. Len(f) = n
  OBVIOUS
<1> QED
  BY <1>1, <1>2, <1>4, <1>5

LEMMA ToSetConcat ==
    ASSUME NEW q, q \in Seq(ToSet(q)), NEW r, r \in Seq(ToSet(r))
    PROVE  /\ ToSet(q \o r) = ToSet(q) \cup ToSet(r)
           /\ q \o r \in Seq(ToSet(q \o r))
<1> DEFINE S == ToSet(q) \cup ToSet(r)
<1>0. q \in Seq(S) /\ r \in Seq(S)
  OBVIOUS
<1>1. q \o r \in Seq(S) /\ Len(q \o r) = Len(q) + Len(r)
  BY <1>0, ConcatProperties
<1>2. \A i \in 1..Len(q) : (q \o r)[i] = q[i]
  BY <1>0, ConcatProperties
<1>3. \A i \in 1..Len(r) : Len(q) + i \in 1..Len(q \o r) /\ (q \o r)[Len(q) + i] = r[i]
  BY <1>0, <1>1, ConcatProperties
<1>4. \A s \in Seq(S) : DOMAIN s = 1..Len(s) /\ Len(s) \in Nat
  OBVIOUS
<1>5. 1..Len(q) \subseteq 1..Len(q \o r)
  BY <1>0, <1>1, <1>4
<1>6. S \subseteq ToSet(q \o r)
  BY <1>0, <1>1, <1>2, <1>3, <1>4, <1>5 DEF ToSet
<1>7. ToSet(q \o r) \subseteq S
  BY <1>1 DEF ToSet
<1> QED
  BY <1>1, <1>6, <1>7

LEMMA ToSetTail ==
    ASSUME NEW q, q \in Seq(ToSet(q)), q # <<>>
    PROVE  /\ Tail(q) \in Seq(ToSet(Tail(q)))
           /\ ToSet(q) = {Head(q)} \cup ToSet(Tail(q))
<1>1. /\ Tail(q) \in Seq(ToSet(q)) /\ Len(Tail(q)) = Len(q) - 1
      /\ \A i \in 1..Len(Tail(q)) : Tail(q)[i] = q[i + 1]
  BY HeadTailProperties
<1>2. 1 \in DOMAIN q /\ Head(q) = q[1]
  OBVIOUS
<1>3. \A i \in DOMAIN q : i = 1 \/ (i - 1 \in DOMAIN Tail(q) /\ q[i] = Tail(q)[i - 1])
  BY <1>1
<1>4. \A i \in DOMAIN Tail(q) : i + 1 \in DOMAIN q /\ Tail(q)[i] = q[i + 1]
  BY <1>1
<1>5. ToSet(q) \subseteq {Head(q)} \cup ToSet(Tail(q))
  BY <1>2, <1>3 DEF ToSet
<1>6. {Head(q)} \cup ToSet(Tail(q)) \subseteq ToSet(q)
  BY <1>2, <1>4 DEF ToSet
<1>7. \A r \in Seq(ToSet(q)) : Len(r) \in Nat /\ r \in [1..Len(r) -> ToSet(q)]
  OBVIOUS
<1>8. Tail(q) \in Seq(ToSet(Tail(q)))
  BY <1>1, <1>7, ListProperties
<1> QED
  BY <1>5, <1>6, <1>8
-----------------------------------------------------------------------------
(* What the two calls send.                                                *)

\* Two commands for each GPU: each command is there, and nothing else.
LEMMA InTurnProperties ==
    ASSUME NEW n \in Nat, NEW gs \in [1..n -> Gpus], NEW a, NEW b, NEW V,
           NEW T \in [1..2 * n -> V],
           \A i \in 1..2 * n : LET g == gs[(i + 1) \div 2]
                              IN  T[i] = IF i % 2 = 1 THEN a[g] ELSE b[g]
    PROVE  /\ T \in Seq(ToSet(T))
           /\ \A i \in 1..n : a[gs[i]] \in ToSet(T) /\ b[gs[i]] \in ToSet(T)
<1> DEFINE m == 2 * n
<1>1. \A i \in 1..n : T[2 * i - 1] = a[gs[i]] /\ 2 * i - 1 \in 1..m
  <2>1. \A i \in 1..n : /\ 2 * i - 1 \in 1..m /\ (2 * i - 1) % 2 = 1
                        /\ ((2 * i - 1) + 1) \div 2 = i
    OBVIOUS
  <2> QED
    BY <2>1
<1>2. \A i \in 1..n : T[2 * i] = b[gs[i]] /\ 2 * i \in 1..m
  <2>1. \A i \in 1..n : 2 * i \in 1..m /\ (2 * i) % 2 # 1 /\ (2 * i + 1) \div 2 = i
    OBVIOUS
  <2> QED
    BY <2>1
<1>3. T \in Seq(ToSet(T)) /\ \A i \in 1..m : T[i] \in ToSet(T)
  <2>1. m \in Nat /\ T \in [1..m -> V]
    OBVIOUS
  <2> HIDE DEF m
  <2> QED
    BY <2>1, ListProperties
<1>4. \A i \in 1..n : a[gs[i]] \in ToSet(T)
  BY <1>1, <1>3
<1>5. \A i \in 1..n : b[gs[i]] \in ToSet(T)
  BY <1>2, <1>3
<1> QED
  BY <1>3, <1>4, <1>5

LEMMA CommandFields ==
    ASSUME NEW g, NEW prop, NEW val
    PROVE  /\ Command(g, prop, val).on = g /\ Command(g, prop, val).prop = prop
           /\ Command(g, prop, val).val = val
BY DEF Command

LEMMA MasterCommandsProperties ==
    ASSUME TypeOK
    PROVE  /\ MasterCommands \in Seq(ToSet(MasterCommands))
           /\ \A c \in ToSet(MasterCommands) : c.on = First /\ c.prop \in {"master", "slaves"}
<1> DEFINE n == Cardinality(MasterOutputs)
           f == MasterCommands
           V == {f[i] : i \in 1..n}
<1>1. Last(Chain) \in Gpus
  BY ChainProperties DEF Last
<1>2. n \in Nat
  BY <1>1, FS_Subset, FS_CardinalityType DEF MasterOutputs, TypeOK
<1>3. DOMAIN f = 1..n /\ f \in [1..n -> V]
  BY DEF MasterCommands
<1>4. \A i \in 1..n : f[i].on = First /\ f[i].prop \in {"master", "slaves"}
  BY CommandFields DEF MasterCommands
<1>5. f \in Seq(ToSet(f))
  <2> HIDE DEF f, n, V
  <2> QED
    BY <1>2, <1>3, ListProperties
<1>6. ToSet(f) = {f[i] : i \in 1..n}
  BY <1>3 DEF ToSet
<1> HIDE DEF f, n
<1>7. \A c \in ToSet(f) : c.on = First /\ c.prop \in {"master", "slaves"}
  BY <1>4, <1>6
<1> QED
  BY <1>5, <1>7 DEF f

\* One command for each GPU.
LEMMA EachProperties ==
    ASSUME NEW prop, NEW val, NEW V, NEW E \in [1..Len(Chain) -> V],
           \A i \in 1..Len(Chain) : E[i] = Command(Chain[i], prop, val)
    PROVE  /\ E \in Seq(ToSet(E))
           /\ \A g \in Gpus : Command(g, prop, val) \in ToSet(E)
<1> DEFINE n == Len(Chain)
<1>1. E \in Seq(ToSet(E)) /\ \A i \in 1..n : E[i] \in ToSet(E)
  <2>1. n \in Nat /\ E \in [1..n -> V]
    BY ChainProperties
  <2> HIDE DEF n
  <2> QED
    BY <2>1, ListProperties
<1>2. ASSUME NEW g \in Gpus PROVE Command(g, prop, val) \in ToSet(E)
  <2>1. PICK i \in 1..n : g = Chain[i]
    BY ChainProperties
  <2> QED
    BY <1>1, <2>1
<1> QED
  BY <1>1, <1>2

LEMMA EnableCommandsProperties ==
    /\ EnableCommands \in Seq(ToSet(EnableCommands))
    /\ \A g \in Gpus : Command(g, "enable", TRUE) \in ToSet(EnableCommands)
    /\ \A c \in ToSet(EnableCommands) : c.on \in Gpus /\ c.prop = "enable" /\ c.val = TRUE
<1> DEFINE E == EnableCommands
           V == {Command(g, "enable", TRUE) : g \in Gpus}
           n == Len(Chain)
<1>1. \A i \in 1..n : Chain[i] \in Gpus
  BY ChainProperties
<1>2. E \in [1..n -> V] /\ \A i \in 1..n : E[i] = Command(Chain[i], "enable", TRUE)
  BY <1>1 DEF EnableCommands
<1>3. /\ E \in Seq(ToSet(E))
      /\ \A g \in Gpus : Command(g, "enable", TRUE) \in ToSet(E)
  <2> HIDE DEF E, V
  <2> QED
    BY <1>2, EachProperties
<1>4. \A i \in 1..n : E[i].on \in Gpus /\ E[i].prop = "enable" /\ E[i].val = TRUE
  BY <1>1, <1>2 DEF Command
<1>5. ToSet(E) = {E[i] : i \in 1..n}
  BY <1>2 DEF ToSet
<1> HIDE DEF E
<1>6. \A c \in ToSet(E) : c.on \in Gpus /\ c.prop = "enable" /\ c.val = TRUE
  BY <1>4, <1>5
<1> QED
  BY <1>3, <1>6 DEF E

\* Slave commands, for each GPU but the first.
LEMMA SlaveCommandsProperties ==
    LET T == InTurn(Tail(Chain), SlaveCommands)
    IN  /\ T \in Seq(ToSet(T))
        /\ \A c \in ToSet(T) : c.on \in Gpus /\ Locks(c)
<1> DEFINE n == Len(Tail(Chain))
           gs == Tail(Chain)
           a == [g \in Gpus |-> Command(g, "slaves", ports[g])]
           b == [g \in Gpus |-> Command(g, "master", {})]
           T == InTurn(gs, SlaveCommands)
           m == 2 * n
           V == {T[i] : i \in 1..m}
<1>1. n \in Nat /\ gs \in [1..n -> Gpus]
  <2>1. gs \in Seq(Gpus)
    BY HeadTailProperties DEF Gpus
  <2>2. \A q \in Seq(Gpus) : Len(q) \in Nat /\ q \in [1..Len(q) -> Gpus]
    OBVIOUS
  <2> QED
    BY <2>1, <2>2
<1>2. T \in [1..m -> V]
  BY <1>1 DEF InTurn
<1>3. \A i \in 1..m : gs[(i + 1) \div 2] \in Gpus
  <2> HIDE DEF n, gs
  <2>1. \A i \in 1..m : (i + 1) \div 2 \in 1..n
    BY <1>1
  <2> QED
    BY <1>1, <2>1
<1>4. \A i \in 1..m : T[i] = IF i % 2 = 1 THEN a[gs[(i + 1) \div 2]]
                                          ELSE b[gs[(i + 1) \div 2]]
  BY <1>3 DEF InTurn, SlaveCommands
<1>5. \A i \in 1..m : T[i].on \in Gpus /\ Locks(T[i])
  <2>1. \A g \in Gpus : /\ a[g].on \in Gpus /\ Locks(a[g])
                        /\ b[g].on \in Gpus /\ Locks(b[g])
    BY CommandFields DEF Locks
  <2> HIDE DEF T, m, gs, a, b
  <2> QED
    BY <1>3, <1>4, <2>1
<1>6. ToSet(T) = {T[i] : i \in 1..m}
  <2> HIDE DEF T
  <2> QED
    BY <1>2 DEF ToSet
<1>7. T \in Seq(ToSet(T))
  <2>1. m \in Nat
    BY <1>1
  <2> HIDE DEF T, m, V
  <2> QED
    BY <1>2, <2>1, ListProperties
<1> HIDE DEF T
<1>8. \A c \in ToSet(T) : c.on \in Gpus /\ Locks(c)
  BY <1>5, <1>6
<1> QED
  BY <1>7, <1>8 DEF T

\* Enabling locks, with the first GPU as the only master, and enables each GPU.
LEMMA EnablePlanProperties ==
    ASSUME TypeOK
    PROVE  /\ EnablePlan \in Seq(ToSet(EnablePlan))
           /\ \A c \in ToSet(EnablePlan) : c.on \in Gpus /\ Locks(c)
           /\ \A g \in Gpus : Command(g, "enable", TRUE) \in ToSet(EnablePlan)
<1> DEFINE T == InTurn(Tail(Chain), SlaveCommands)
<1>1. T \in Seq(ToSet(T)) /\ \A c \in ToSet(T) : c.on \in Gpus /\ Locks(c)
  BY SlaveCommandsProperties
<1>2. /\ MasterCommands \in Seq(ToSet(MasterCommands))
      /\ \A c \in ToSet(MasterCommands) : c.on \in Gpus /\ Locks(c)
  BY MasterCommandsProperties, ChainProperties DEF Locks
<1>3. /\ EnableCommands \in Seq(ToSet(EnableCommands))
      /\ \A g \in Gpus : Command(g, "enable", TRUE) \in ToSet(EnableCommands)
      /\ \A c \in ToSet(EnableCommands) : c.on \in Gpus /\ Locks(c)
  BY EnableCommandsProperties DEF Locks
<1> HIDE DEF T
<1>4. /\ T \o EnableCommands \in Seq(ToSet(T \o EnableCommands))
      /\ ToSet(T \o EnableCommands) = ToSet(T) \cup ToSet(EnableCommands)
  BY <1>1, <1>3, ToSetConcat
<1>5. /\ EnablePlan \in Seq(ToSet(EnablePlan))
      /\ ToSet(EnablePlan) = ToSet(MasterCommands) \cup ToSet(T \o EnableCommands)
  BY <1>2, <1>4, ToSetConcat DEF EnablePlan, T
<1> QED
  BY <1>1, <1>2, <1>3, <1>4, <1>5

LEMMA DisableCommandsProperties ==
    /\ DisableCommands \in Seq(ToSet(DisableCommands))
    /\ \A g \in Gpus : Command(g, "enable", FALSE) \in ToSet(DisableCommands)
    /\ \A c \in ToSet(DisableCommands) : c.on \in Gpus /\ Unlocks(c)
<1> DEFINE E == DisableCommands
           V == {Command(g, "enable", FALSE) : g \in Gpus}
           n == Len(Chain)
<1>1. \A i \in 1..n : Chain[i] \in Gpus
  BY ChainProperties
<1>2. E \in [1..n -> V] /\ \A i \in 1..n : E[i] = Command(Chain[i], "enable", FALSE)
  BY <1>1 DEF DisableCommands
<1>3. /\ E \in Seq(ToSet(E))
      /\ \A g \in Gpus : Command(g, "enable", FALSE) \in ToSet(E)
  <2> HIDE DEF E, V
  <2> QED
    BY <1>2, EachProperties
<1>4. \A i \in 1..n : E[i].on \in Gpus /\ E[i].prop = "enable" /\ E[i].val = FALSE
  BY <1>1, <1>2 DEF Command
<1>5. ToSet(E) = {E[i] : i \in 1..n}
  BY <1>2 DEF ToSet
<1> HIDE DEF E
<1>6. \A c \in ToSet(E) : c.on \in Gpus /\ Unlocks(c)
  BY <1>4, <1>5 DEF Unlocks
<1> QED
  BY <1>3, <1>6 DEF E

\* The commands of a reset, for each GPU.
LEMMA ResetProperties ==
    LET T == InTurn(Chain, Reset)
    IN  /\ T \in Seq(ToSet(T))
        /\ \A c \in ToSet(T) : c.on \in Gpus /\ Unlocks(c)
        /\ \A g \in Gpus : /\ Command(g, "master", {}) \in ToSet(T)
                           /\ Command(g, "slaves", {}) \in ToSet(T)
<1> DEFINE n == Len(Chain)
           gs == Chain
           a == [g \in Gpus |-> Command(g, "master", {})]
           b == [g \in Gpus |-> Command(g, "slaves", {})]
           T == InTurn(gs, Reset)
           m == 2 * n
           V == {T[i] : i \in 1..m}
<1>1. n \in Nat /\ gs \in [1..n -> Gpus]
  BY ChainProperties DEF Gpus
<1>2. T \in [1..m -> V]
  BY <1>1 DEF InTurn
<1>3. \A i \in 1..m : gs[(i + 1) \div 2] \in Gpus
  <2> HIDE DEF n, gs
  <2>1. \A i \in 1..m : (i + 1) \div 2 \in 1..n
    BY <1>1
  <2> QED
    BY <1>1, <2>1
<1>4. \A i \in 1..m : T[i] = IF i % 2 = 1 THEN a[gs[(i + 1) \div 2]]
                                          ELSE b[gs[(i + 1) \div 2]]
  BY <1>3 DEF InTurn, Reset
<1>5. \A g \in Gpus : /\ a[g].on \in Gpus /\ Unlocks(a[g])
                      /\ b[g].on \in Gpus /\ Unlocks(b[g])
  BY CommandFields DEF Unlocks
<1>6. \A i \in 1..m : T[i].on \in Gpus /\ Unlocks(T[i])
  <2> HIDE DEF T, m, gs, a, b
  <2> QED
    BY <1>3, <1>4, <1>5
<1>7. ToSet(T) = {T[i] : i \in 1..m}
  <2> HIDE DEF T
  <2> QED
    BY <1>2 DEF ToSet
<1>8. /\ T \in Seq(ToSet(T))
      /\ \A i \in 1..n : a[gs[i]] \in ToSet(T) /\ b[gs[i]] \in ToSet(T)
  <2> HIDE DEF T, n, V, a, b, gs
  <2> QED
    BY <1>1, <1>2, <1>4, InTurnProperties
<1>9. \A g \in Gpus : a[g] \in ToSet(T) /\ b[g] \in ToSet(T)
  <2> HIDE DEF T, a, b
  <2> QED
    BY <1>8, ChainProperties
<1> HIDE DEF T
<1>10. \A c \in ToSet(T) : c.on \in Gpus /\ Unlocks(c)
  BY <1>6, <1>7
<1> QED
  BY <1>8, <1>9, <1>10 DEF T

\* Disabling unlocks, and switches each GPU off.
LEMMA DisablePlanProperties ==
    /\ DisablePlan \in Seq(ToSet(DisablePlan))
    /\ \A c \in ToSet(DisablePlan) : c.on \in Gpus /\ Unlocks(c)
    /\ \A g \in Gpus : /\ Command(g, "enable", FALSE) \in ToSet(DisablePlan)
                       /\ Command(g, "master", {}) \in ToSet(DisablePlan)
                       /\ Command(g, "slaves", {}) \in ToSet(DisablePlan)
<1> DEFINE T == InTurn(Chain, Reset)
<1>1. T \in Seq(ToSet(T))
  BY ResetProperties
<1>2. DisableCommands \in Seq(ToSet(DisableCommands))
  BY DisableCommandsProperties
<1>3. /\ DisablePlan \in Seq(ToSet(DisablePlan))
      /\ ToSet(DisablePlan) = ToSet(DisableCommands) \cup ToSet(T)
  <2> HIDE DEF T
  <2>1. DisablePlan = DisableCommands \o T
    BY DEF DisablePlan, T
  <2> QED
    BY <1>1, <1>2, <2>1, ToSetConcat
<1> QED
  BY <1>3, ResetProperties, DisableCommandsProperties
-----------------------------------------------------------------------------
(* The invariant.                                                          *)

LEMMA InitInv == Init => IInv
<1> SUFFICES ASSUME Init PROVE IInv
  OBVIOUS
<1>1. ports \in [Gpus -> SUBSET Port]
  <2>1. ports \in [ToSet(Chain) -> (SUBSET Port) \ {{}}]
    BY DEF Init
  <2> QED
    BY <2>1 DEF Gpus
<1>2. gpu \in [Gpus -> Setting] /\ AllOff
  BY DEF Init, Off, Setting, AllOff
<1>3. plan = <<>> /\ ToSet(plan) = {} /\ call = "none" /\ result = <<"none", "ok">>
  BY DEF Init, ToSet
<1> QED
  BY <1>1, <1>2, <1>3 DEF IInv, TypeOK, OneMaster, InProgress, AllOff, Off

\* What one command does to a GPU.
LEMMA AppliedEffect ==
    ASSUME TypeOK, NEW c, c.on \in Gpus, Locks(c) \/ Unlocks(c), gpu' = Applied(c)
    PROVE  /\ gpu' \in [Gpus -> Setting]
           /\ \A g \in Gpus \ {c.on} : gpu'[g] = gpu[g]
           /\ c.prop = "enable" => gpu'[c.on] = [gpu[c.on] EXCEPT !.enable = c.val]
           /\ c.prop = "master" =>
                gpu'[c.on] = [gpu[c.on] EXCEPT !.master = c.val \cap ports[c.on]]
           /\ c.prop = "slaves" =>
                gpu'[c.on] = [gpu[c.on] EXCEPT !.slaves = c.val \cap ports[c.on]]
<1>1. c.prop \in {"enable", "master", "slaves"} /\ (c.prop = "enable" => c.val \in BOOLEAN)
  BY DEF Locks, Unlocks
<1> DEFINE outputs == c.val \cap ports[c.on]
<1>2. outputs \in SUBSET Port
  BY DEF TypeOK
<1>3. gpu[c.on] \in Setting
  BY DEF TypeOK
<1>4. CASE c.prop = "enable"
  <2> DEFINE new == [gpu[c.on] EXCEPT !.enable = c.val]
  <2>1. gpu' = [gpu EXCEPT ![c.on] = new]
    BY <1>4 DEF Applied
  <2>2. new \in Setting
    BY <1>1, <1>3, <1>4 DEF Setting
  <2> HIDE DEF new
  <2>3. /\ gpu' \in [Gpus -> Setting]
        /\ \A g \in Gpus \ {c.on} : gpu'[g] = gpu[g]
        /\ gpu'[c.on] = new
    BY <2>1, <2>2 DEF TypeOK
  <2> QED
    BY <1>4, <2>3 DEF new
<1>5. CASE c.prop = "master"
  <2>1. gpu' = [gpu EXCEPT ![c.on] = [@ EXCEPT !.master = outputs]]
    BY <1>5 DEF Applied
  <2>2. [gpu[c.on] EXCEPT !.master = outputs] \in Setting
    BY <1>2, <1>3 DEF Setting
  <2> HIDE DEF outputs
  <2>3. /\ gpu' \in [Gpus -> Setting]
        /\ \A g \in Gpus \ {c.on} : gpu'[g] = gpu[g]
        /\ gpu'[c.on] = [gpu[c.on] EXCEPT !.master = outputs]
    BY <2>1, <2>2 DEF TypeOK
  <2> QED
    BY <1>5, <2>3 DEF outputs
<1>6. CASE c.prop = "slaves"
  <2>1. gpu' = [gpu EXCEPT ![c.on] = [@ EXCEPT !.slaves = outputs]]
    BY <1>6 DEF Applied
  <2>2. [gpu[c.on] EXCEPT !.slaves = outputs] \in Setting
    BY <1>2, <1>3 DEF Setting
  <2> HIDE DEF outputs
  <2>3. /\ gpu' \in [Gpus -> Setting]
        /\ \A g \in Gpus \ {c.on} : gpu'[g] = gpu[g]
        /\ gpu'[c.on] = [gpu[c.on] EXCEPT !.slaves = outputs]
    BY <2>1, <2>2 DEF TypeOK
  <2> QED
    BY <1>6, <2>3 DEF outputs
<1> QED
  BY <1>1, <1>4, <1>5, <1>6

\* Little is promised of a call that was disturbed.
LEMMA Disturbed == TypeOK' /\ OneMaster' /\ disturbed' = TRUE => IInv'
BY DEF IInv, InProgress

\* A call that begins, or refuses.
LEMMA EnableInv == IInv /\ EnableFrameLock => IInv'
<1> SUFFICES ASSUME IInv, EnableFrameLock PROVE IInv'
  OBVIOUS
<1> USE DEF IInv
<1>1. call = "none" /\ UNCHANGED <<site, gpu>>
  BY DEF EnableFrameLock, Begin
<1>2. OneMaster'
  BY <1>1 DEF OneMaster
<1>3. CASE UNCHANGED <<call, plan, disturbed>>
  BY <1>1, <1>2, <1>3 DEF TypeOK, InProgress
<1>4. CASE call' = "enable" /\ plan' = EnablePlan
  <2>1. TypeOK'
    BY <1>1, <1>4, EnablePlanProperties DEF TypeOK
  <2>2. Locking'
    BY <1>1, <1>4, EnablePlanProperties DEF Locking, Planned
  <2> QED
    BY <1>2, <1>4, <2>1, <2>2 DEF InProgress
<1> QED
  BY <1>3, <1>4 DEF EnableFrameLock, Begin

LEMMA DisableInv == IInv /\ DisableFrameLock => IInv'
<1> SUFFICES ASSUME IInv, DisableFrameLock PROVE IInv'
  OBVIOUS
<1> USE DEF IInv
<1>1. call = "none" /\ UNCHANGED <<site, gpu>>
  BY DEF DisableFrameLock, Begin
<1>2. OneMaster'
  BY <1>1 DEF OneMaster
<1>3. CASE UNCHANGED <<call, plan, disturbed>>
  BY <1>1, <1>2, <1>3 DEF TypeOK, InProgress
<1>4. CASE call' = "disable" /\ plan' = DisablePlan
  <2>1. TypeOK'
    BY <1>1, <1>4, DisablePlanProperties DEF TypeOK
  <2>2. Unlocking'
    BY <1>1, <1>4, DisablePlanProperties DEF Unlocking, Planned
  <2> QED
    BY <1>2, <1>4, <2>1, <2>2 DEF InProgress
<1> QED
  BY <1>3, <1>4 DEF DisableFrameLock, Begin

\* The rest of the plan.
LEMMA TailTyped ==
    ASSUME TypeOK, plan # <<>>, plan' = Tail(plan),
           UNCHANGED <<ports, call>>, gpu' \in [Gpus -> Setting]
    PROVE  /\ TypeOK' /\ call # "none" /\ Head(plan) \in ToSet(plan)
           /\ ToSet(plan) = {Head(plan)} \cup ToSet(plan')
<1>1. /\ Tail(plan) \in Seq(ToSet(Tail(plan)))
      /\ ToSet(plan) = {Head(plan)} \cup ToSet(Tail(plan))
  BY ToSetTail DEF TypeOK
<1> QED
  BY <1>1 DEF TypeOK

\* One command more of the call in progress.
LEMMA SetNvidiaSettingsInv == IInv /\ SetNvidiaSettings => IInv'
<1> SUFFICES ASSUME IInv, SetNvidiaSettings PROVE IInv'
  OBVIOUS
<1> USE DEF IInv
<1> DEFINE c == Head(plan)
<1>1. /\ plan # <<>> /\ gpu' = Applied(c) /\ plan' = Tail(plan)
      /\ UNCHANGED <<site, rate, call, result, calls, disturbed>>
  BY DEF SetNvidiaSettings
<1>2. c \in ToSet(plan) /\ ToSet(plan) = {c} \cup ToSet(Tail(plan))
  BY <1>1, ToSetTail DEF TypeOK
<1>3. c.on \in Gpus /\ (Locks(c) \/ Unlocks(c))
  BY <1>2 DEF TypeOK
<1>4. /\ gpu' \in [Gpus -> Setting]
      /\ \A g \in Gpus \ {c.on} : gpu'[g] = gpu[g]
      /\ c.prop = "enable" => gpu'[c.on] = [gpu[c.on] EXCEPT !.enable = c.val]
      /\ c.prop = "master" => gpu'[c.on] = [gpu[c.on] EXCEPT !.master = c.val \cap ports[c.on]]
      /\ c.prop = "slaves" => gpu'[c.on] = [gpu[c.on] EXCEPT !.slaves = c.val \cap ports[c.on]]
  BY <1>1, <1>3, AppliedEffect
<1>5. TypeOK' /\ call # "none" /\ ToSet(plan) = {c} \cup ToSet(plan')
  BY <1>1, <1>4, TailTyped
<1> HIDE DEF c
<1>7. \A g \in Gpus : gpu[g] \in Setting
  BY DEF TypeOK
<1>6. OneMaster'
  <2> SUFFICES ASSUME NEW g \in Gpus, g # First PROVE gpu'[g].master = {}
    BY DEF OneMaster
  <2>1. gpu[g].master = {}
    BY DEF OneMaster
  <2>2. CASE g = c.on
    BY <1>3, <1>4, <1>7, <2>1, <2>2 DEF Locks, Unlocks, Setting
  <2>3. CASE g # c.on
    BY <1>4, <2>1, <2>3
  <2> QED
    BY <2>2, <2>3
<1>8. ASSUME Locking PROVE Locking'
  <2>1. Locks(c) /\ \A d \in ToSet(plan') : Locks(d)
    BY <1>5, <1>8 DEF Locking
  <2>2. ASSUME NEW g \in Gpus PROVE gpu'[g].enable = TRUE \/ Planned(g, "enable", TRUE)'
    <3>1. CASE g = c.on
      BY <1>4, <1>5, <1>7, <1>8, <2>1, <3>1 DEF Locking, Locks, Planned, Command, Setting
    <3>2. CASE g # c.on
      <4>1. Command(g, "enable", TRUE) # c
        BY <3>2 DEF Command
      <4> QED
        BY <1>4, <1>5, <1>8, <3>2, <4>1 DEF Locking, Planned
    <3> QED
      BY <3>1, <3>2
  <2> QED
    BY <2>1, <2>2 DEF Locking
<1>9. ASSUME Unlocking PROVE Unlocking'
  <2>1. Unlocks(c) /\ \A d \in ToSet(plan') : Unlocks(d)
    BY <1>5, <1>9 DEF Unlocking
  <2>2. ASSUME NEW g \in Gpus PROVE gpu'[g].enable = FALSE \/ Planned(g, "enable", FALSE)'
    <3>1. CASE g = c.on
      BY <1>4, <1>5, <1>7, <1>9, <2>1, <3>1 DEF Unlocking, Unlocks, Planned, Command, Setting
    <3>2. CASE g # c.on
      <4>1. Command(g, "enable", FALSE) # c
        BY <3>2 DEF Command
      <4> QED
        BY <1>4, <1>5, <1>9, <3>2, <4>1 DEF Unlocking, Planned
    <3> QED
      BY <3>1, <3>2
  <2>3. ASSUME NEW g \in Gpus PROVE gpu'[g].master = {} \/ Planned(g, "master", {})'
    <3>1. CASE g = c.on
      BY <1>4, <1>5, <1>7, <1>9, <2>1, <3>1 DEF Unlocking, Unlocks, Planned, Command, Setting
    <3>2. CASE g # c.on
      <4>1. Command(g, "master", {}) # c
        BY <3>2, CommandFields
      <4> QED
        BY <1>4, <1>5, <1>9, <3>2, <4>1 DEF Unlocking, Planned
    <3> QED
      BY <3>1, <3>2
  <2>4. ASSUME NEW g \in Gpus PROVE gpu'[g].slaves = {} \/ Planned(g, "slaves", {})'
    <3>1. CASE g = c.on
      BY <1>4, <1>5, <1>7, <1>9, <2>1, <3>1 DEF Unlocking, Unlocks, Planned, Command, Setting
    <3>2. CASE g # c.on
      <4>1. Command(g, "slaves", {}) # c
        BY <3>2, CommandFields
      <4> QED
        BY <1>4, <1>5, <1>9, <3>2, <4>1 DEF Unlocking, Planned
    <3> QED
      BY <3>1, <3>2
  <2> QED
    BY <2>1, <2>2, <2>3, <2>4 DEF Unlocking
<1>10. InProgress'
  BY <1>1, <1>5, <1>8, <1>9 DEF InProgress
<1> QED
  BY <1>5, <1>6, <1>10

LEMMA LostInv == IInv /\ Lost => IInv'
<1> SUFFICES ASSUME IInv, Lost PROVE IInv'
  OBVIOUS
<1>1. TypeOK' /\ disturbed' = TRUE
  BY TailTyped DEF IInv, Lost, TypeOK
<1>2. OneMaster'
  BY DEF IInv, OneMaster, Lost
<1> QED
  BY <1>1, <1>2, Disturbed

LEMMA BreaksInv == IInv /\ Breaks => IInv'
<1> SUFFICES ASSUME IInv, Breaks PROVE IInv'
  OBVIOUS
<1>1. plan' = <<>> /\ ToSet(plan') = {} /\ plan' \in Seq({})
  BY DEF Breaks, ToSet
<1>2. TypeOK' /\ disturbed' = TRUE
  BY <1>1 DEF IInv, Breaks, TypeOK
<1>3. OneMaster'
  BY DEF IInv, OneMaster, Breaks
<1> QED
  BY <1>2, <1>3, Disturbed

LEMMA RestartXInv == ASSUME NEW g \in Gpus PROVE IInv /\ RestartX(g) => IInv'
<1> SUFFICES ASSUME IInv, RestartX(g) PROVE IInv'
  OBVIOUS
<1>1. gpu' \in [Gpus -> Setting]
  BY DEF IInv, RestartX, TypeOK, Off, Setting
<1>2. TypeOK' /\ disturbed' = TRUE
  BY <1>1 DEF IInv, RestartX, TypeOK
<1>3. OneMaster'
  BY DEF IInv, RestartX, TypeOK, OneMaster, Off
<1> QED
  BY <1>2, <1>3, Disturbed

\* Steps that touch no GPU and no call in progress.
SameGpus == <<site, gpu, disturbed>>

LEMMA SameGpusInv ==
    IInv /\ UNCHANGED SameGpus /\ (UNCHANGED <<call, plan>> \/ Verify) => IInv'
<1> SUFFICES ASSUME IInv, UNCHANGED SameGpus, UNCHANGED <<call, plan>> \/ Verify PROVE IInv'
  OBVIOUS
<1> USE DEF IInv, SameGpus
<1>1. plan' = plan /\ (call' = call \/ (call' = "none" /\ plan = <<>>))
  BY DEF Verify
<1>2. TypeOK' /\ OneMaster'
  BY <1>1 DEF TypeOK, OneMaster
<1>3. InProgress'
  BY <1>1 DEF InProgress, Locking, Unlocking, Planned
<1> QED
  BY <1>2, <1>3

LEMMA NextInv == IInv /\ [Next]_vars => IInv'
<1> SUFFICES ASSUME IInv, [Next]_vars PROVE IInv'
  OBVIOUS
<1>1. CASE EnableFrameLock \/ DisableFrameLock \/ SetNvidiaSettings
  BY <1>1, EnableInv, DisableInv, SetNvidiaSettingsInv
<1>2. CASE Lost \/ Breaks
  BY <1>2, LostInv, BreaksInv
<1>3. CASE \E g \in Gpus : RestartX(g)
  BY <1>3, RestartXInv
<1>4. CASE (\E g \in Gpus, r \in Rate : ChangeRate(g, r)) \/ Verify \/ UNCHANGED vars
  <2>1. UNCHANGED SameGpus /\ (UNCHANGED <<call, plan>> \/ Verify)
    BY <1>4 DEF ChangeRate, Verify, vars, SameGpus
  <2> QED
    BY <2>1, SameGpusInv
<1> QED
  BY <1>1, <1>2, <1>3, <1>4 DEF Next

\* The invariant: no GPU but the first is ever a master, whatever is lost, and each setting that
\* a call makes has been made or is still to be sent, unless one was lost in this call.
THEOREM FrameLockInvariance == Spec => []IInv
<1>1. Init => IInv
  BY InitInv
<1>2. IInv /\ [Next]_vars => IInv'
  BY NextInv
<1> QED
  BY <1>1, <1>2, PTL DEF Spec
-----------------------------------------------------------------------------
(* What success means.                                                     *)

\* A GPU that hears a master hears the first one.
LEMMA Heard ==
    ASSUME IInv, NEW g, SyncRate(g) # 0
    PROVE  gpu[g].enable /\ First \in Masters /\ Reached(g, First)
<1>1. gpu[g].enable /\ {m \in Masters : Reached(g, m)} # {}
  BY DEF SyncRate
<1>2. Masters \subseteq {First}
  BY DEF Masters, IInv, OneMaster
<1> QED
  BY <1>1, <1>2

\* The first GPU hears itself when it is a master, at its refresh rate.
LEMMA Unheard ==
    ASSUME IInv, SyncRate(First) = 0, rate[First] # 0
    PROVE  Masters = {}
<1>1. Masters \subseteq {First}
  BY DEF Masters, IInv, OneMaster
<1>2. First \notin Masters
  <2> SUFFICES ASSUME First \in Masters PROVE FALSE
    OBVIOUS
  <2>1. gpu[First].enable /\ {m \in Masters : Reached(First, m)} = {First}
    BY <1>1 DEF Masters, Reached
  <2>2. (CHOOSE m \in {First} : TRUE) = First
    OBVIOUS
  <2>3. SyncRate(First) = rate[First]
    BY <2>1, <2>2 DEF SyncRate
  <2> QED
    BY <2>3
<1> QED
  BY <1>1, <1>2

\* Refresh rates are positive.
Rates == rate \in [Gpus -> Rate]

LEMMA RatesInvariant == Spec => []Rates
<1>1. Init => Rates
  BY DEF Init, Rates
<1>2. Rates /\ [Next]_vars => Rates'
  <2> SUFFICES ASSUME Rates, [Next]_vars PROVE Rates'
    OBVIOUS
  <2>1. CASE \E g \in Gpus, r \in Rate : ChangeRate(g, r)
    BY <2>1 DEF ChangeRate, Rates
  <2>2. CASE ~\E g \in Gpus, r \in Rate : ChangeRate(g, r)
    <3>1. rate' = rate
      BY <2>2 DEF Next, vars, EnableFrameLock, DisableFrameLock, Begin, SetNvidiaSettings, Lost,
                  Breaks, Verify, RestartX
    <3> QED
      BY <3>1 DEF Rates
  <2> QED
    BY <2>1, <2>2
<1> QED
  BY <1>1, <1>2, PTL DEF Spec

\* A call that ends with success has read the chain again.
LEMMA SuccessIsVerified ==
    ASSUME IInv, [Next]_vars, call # "none", call' = "none", result' = <<call, "ok">>
    PROVE  Verify /\ Verified(call) /\ call \in {"enable", "disable"} /\ plan = <<>>
<1>1. Verify
  <2>1. ~Breaks /\ ~(EnableFrameLock \/ DisableFrameLock) /\ call' # call
    BY DEF Breaks, EnableFrameLock, DisableFrameLock, Begin
  <2> QED
    BY <2>1 DEF Next, SetNvidiaSettings, Lost, ChangeRate, RestartX, vars
<1> QED
  BY <1>1 DEF Verify, IInv, TypeOK

LEMMA SuccessLocks ==
    ASSUME IInv, Verified("enable"), NEW g \in Gpus
    PROVE  /\ Masters = {First}
           /\ gpu[Answering(g)].enable /\ Reached(Answering(g), First)
<1>1. SyncRate(Answering(g)) # 0
  BY DEF Verified, ReadSyncRate
<1>2. Masters \subseteq {First}
  BY DEF Masters, IInv, OneMaster
<1> QED
  BY <1>1, <1>2, Heard

LEMMA Completed ==
    ASSUME IInv, ~disturbed, plan = <<>>
    PROVE  (call = "enable" => AllOn) /\ (call = "disable" => AllOff)
<1>1. ToSet(plan) = {}
  BY DEF ToSet
<1>2. call = "enable" => AllOn
  BY <1>1 DEF IInv, InProgress, Locking, AllOn, Planned
<1>3. ASSUME call = "disable", NEW g \in Gpus PROVE gpu[g] = Off
  <2>1. gpu[g].enable = FALSE /\ gpu[g].master = {} /\ gpu[g].slaves = {}
    BY <1>1, <1>3 DEF IInv, InProgress, Unlocking, Planned
  <2>2. gpu[g] \in Setting
    BY DEF IInv, TypeOK
  <2> QED
    BY <2>1, <2>2 DEF Setting, Off
<1> QED
  BY <1>2, <1>3 DEF AllOff

\* Enabling that ends with success leaves one master, to which the first GPU of each X server is
\* locked, and disabling none, whatever was lost in this call and before; and each GPU is on, or
\* off and reset, if nothing was lost in this call (vsutil.py:113-129, 264-281).  What the signal
\* does at the other GPUs of an X server it does not say: the code does not ask (vsutil.py:365).
THEOREM SuccessIsReal == Spec => SuccessMeansLocked
<1>1. ASSUME IInv, Rates, [Next]_vars, call # "none", call' = "none", result' = <<call, "ok">>
      PROVE  IF call = "enable"
             THEN /\ Masters = {First}
                  /\ \A g \in Gpus : LET a == Answering(g)
                                     IN  gpu[a].enable /\ Reached(a, First)
                  /\ ~disturbed => Enabled = Gpus
             ELSE /\ Masters = {}
                  /\ ~disturbed => \A g \in Gpus : gpu[g] = Off
  <2>1. Verified(call) /\ call \in {"enable", "disable"} /\ plan = <<>>
    BY <1>1, SuccessIsVerified
  <2>2. CASE call = "enable"
    <3>1. Verified("enable")
      BY <2>1, <2>2
    <3>2. \A g \in Gpus : LET a == Answering(g) IN gpu[a].enable /\ Reached(a, First)
      BY <1>1, <3>1, SuccessLocks
    <3>3. Masters = {First}
      BY <1>1, <3>1, SuccessLocks, ChainProperties
    <3>4. ~disturbed => Enabled = Gpus
      BY <1>1, <2>1, <2>2, Completed DEF AllOn, Enabled
    <3> QED
      BY <2>2, <3>2, <3>3, <3>4
  <2>3. CASE call = "disable"
    <3>1. Verified("disable")
      BY <2>1, <2>3
    <3>2. SyncRate(First) = 0
      BY <3>1, FirstAnswers DEF Verified, ReadSyncRate
    <3>3. rate[First] # 0
      BY <1>1, ChainProperties DEF Rates
    <3>4. Masters = {}
      BY <1>1, <3>2, <3>3, Unheard
    <3>5. ~disturbed => \A g \in Gpus : gpu[g] = Off
      BY <1>1, <2>1, <2>3, Completed DEF AllOff
    <3> QED
      BY <2>3, <3>4, <3>5
  <2> QED
    BY <2>1, <2>2, <2>3
<1>2. IInv /\ Rates /\ [Next]_vars =>
        [call # "none" /\ call' = "none" /\ result' = <<call, "ok">> =>
           IF call = "enable"
           THEN /\ Masters = {First}
                /\ \A g \in Gpus : LET a == Answering(g) IN gpu[a].enable /\ Reached(a, First)
                /\ ~disturbed => Enabled = Gpus
           ELSE /\ Masters = {}
                /\ ~disturbed => \A g \in Gpus : gpu[g] = Off]_vars
  BY <1>1
<1> QED
  BY <1>2, FrameLockInvariance, RatesInvariant, PTL DEF Spec, SuccessMeansLocked
=============================================================================
