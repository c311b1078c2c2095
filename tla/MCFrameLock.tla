---------------------------- MODULE MCFrameLock ----------------------------
(***************************************************************************)
(* Small instances of FrameLock: GPUs with one or two outputs in use.      *)
(***************************************************************************)
EXTENDS FrameLock

CONSTANTS g1, g2, g3

TwoGpus == <<g1, g2>>
ThreeGpus == <<g1, g2, g3>>
\* Two GPUs on the first X server, and one on the second.
TwoServers == [g \in Gpus |-> IF g \in {g1, g2} THEN 1 ELSE 2]
TwoPorts == {0, 1}
TwoRates == {60, 96}
\* All GPUs alike, with one display or two.
Uniform == {[g \in Gpus |-> ps] : ps \in {{0}, {0, 1}}}
\* The first GPU drives its second output, the others their first.
Different == {[g \in Gpus |-> IF g = First THEN {1} ELSE {0}]}
AnyLayout == Uniform \cup Different
============================================================================
