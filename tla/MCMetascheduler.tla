-------------------------- MODULE MCMetascheduler --------------------------
(***************************************************************************)
(* Two nodes: h1 with two GPUs, one of them sharable by two users, and h2  *)
(* with one GPU and a keyboard.  Two partitions of SLURM manage them.      *)
(* Keyboard 0 has no bias, and so no weight.                               *)
(***************************************************************************)
EXTENDS Metascheduler

CONSTANTS h1, h2, u1, u2, viz, batch

mcRes == {"gpu0@h1", "gpu1@h1", "gpu0@h2", "kbd@h2"}
mcGpu == mcRes \ {"kbd@h2"}
mcHostOf == [r \in mcRes |-> IF r \in {"gpu0@h1", "gpu1@h1"} THEN h1 ELSE h2]
mcShareLimit == [r \in mcRes |-> IF r = "gpu0@h1" THEN 2 ELSE 1]
mcWeight == [r \in mcRes |-> CASE r = "gpu1@h1" -> 1
                              [] r = "kbd@h2" -> 0
                              [] OTHER -> 100]
mcSchedNodes == [s \in Sched |-> IF s = viz THEN {h2} ELSE {h1}]
mcSchedList == <<viz, batch>>

Wants(step, cands, shared) ==
    [step |-> step, cands |-> cands, shared |-> shared, whole |-> FALSE]

fixedShared == <<Wants(0, {"gpu0@h1"}, TRUE), Wants(3, mcGpu, TRUE)>>
anyGpu == <<Wants(3, mcGpu, FALSE), Wants(3, {"kbd@h2"}, FALSE)>>
wholeNode == <<[step |-> 3, cands |-> mcRes, shared |-> FALSE, whole |-> TRUE]>>
gpuOnHost == <<Wants(2, {"gpu0@h1", "gpu1@h1"}, FALSE)>>
byIndexAndHost == <<Wants(1, {"gpu0@h1", "gpu0@h2"}, FALSE),
                    Wants(2, {"gpu0@h1", "gpu1@h1"}, FALSE),
                    Wants(2, {"gpu0@h1", "gpu1@h1"}, TRUE)>>

plainRequests == {fixedShared, anyGpu, wholeNode, gpuOnHost}
trialRequests == {fixedShared, byIndexAndHost}
allRequests == plainRequests \cup trialRequests
=============================================================================
