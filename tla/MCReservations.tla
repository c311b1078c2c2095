--------------------------- MODULE MCReservations ---------------------------
(***************************************************************************)
(* Small instances of Reservations: a SLURM and a local scheduler.         *)
(***************************************************************************)
EXTENDS Reservations

CONSTANTS o1, o2, o3, j1, j2, slurm, local

MCObject == {o1, o2, o3}
MCJob == {j1, j2}
MCScheduler == {slurm, local}
OnlySlurm == {slurm}
=============================================================================
