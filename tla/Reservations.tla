---------------------------- MODULE Reservations ----------------------------
(***************************************************************************)
(* What a program holds of the schedulers: reservations, which are given   *)
(* back when they are deallocated, or by their destructor.  They are       *)
(* copied with the resources that carry them, and sent to clients, who     *)
(* decode them: only the original is to give the nodes back.               *)
(*                                                                         *)
(* A destructor runs when the last reference to its object goes, as in     *)
(* CPython 2: what a cycle of references holds is never destroyed.         *)
(***************************************************************************)
EXTENDS Naturals, FiniteSets

CONSTANTS
    Object,      \* identities of reservation objects
    Job,         \* the numbers of SLURM's jobs, each given once
    Scheduler,   \* the schedulers: local, SSH, SLURM
    Slurm,       \* those among them that reserve by jobs
    None

ASSUME ReservationsAssumption ==
    Slurm \subseteq Scheduler /\ None \notin Job \cup Object \cup Scheduler

VARIABLES
    obj,       \* the reservation objects: see Reservation
    program,   \* those that the program refers to
    tracked,   \* allocations, or allocationInfo: those that each scheduler refers to
    launcher,  \* SLURMScheduler.launcher: another reference, to the last one granted
    owned,     \* the schedulers that the program refers to
    jobs,      \* the jobs that SLURM runs
    free,      \* the numbers it has not given yet
    lost       \* (history) jobs that ran on when their scheduler did not know, or not know any more

reservationVars == <<obj, program, tracked, launcher, owned, jobs, free, lost>>

\* One object: how it came to be, its scheduler, its schedId, and whether it points to
\* the scheduler.
Reservation ==
    [kind : {"none", "original", "copy", "decoded"}, of : Scheduler \cup {None},
     job : Job \cup {None}, sched : BOOLEAN]
NoReservation == [kind |-> "none", of |-> None, job |-> None, sched |-> FALSE]

Live == {o \in Object : obj[o].kind # "none"}
Fresh(o) == o \notin Live

ReservationTypeOK ==
    /\ obj \in [Object -> Reservation]
    /\ program \subseteq Live
    /\ tracked \in [Scheduler -> SUBSET Live]
    /\ launcher \in [Slurm -> Live \cup {None}]
    /\ owned \subseteq Scheduler
    /\ jobs \subseteq Job \ free /\ free \subseteq Job /\ lost \subseteq Job \ free

ReservationInit ==
    /\ obj = [o \in Object |-> NoReservation]
    /\ program = {}
    /\ tracked = [s \in Scheduler |-> {}]
    /\ launcher = [s \in Slurm |-> None]
    /\ owned = Scheduler
    /\ jobs = {} /\ free = Job /\ lost = {}
-----------------------------------------------------------------------------
(***************************************************************************)
(* References and destructors.  The operators take the state in which the  *)
(* references have changed and the destructors have not run.               *)
(***************************************************************************)

\* A scheduler lives as long as the program, or a reservation, refers to it.
Alive(s, own, res) ==
    s \in own \/ \E o \in Object : res[o].kind # "none" /\ res[o].of = s /\ res[o].sched

Referenced(o, prog, own, res, tr, la) ==
    \/ o \in prog
    \/ \E s \in Scheduler : Alive(s, own, res) /\ o \in tr[s]
    \/ \E s \in Slurm : Alive(s, own, res) /\ o = la[s]

CancelledBy_CopiesToo(r) ==
    IF r.kind \in {"original", "copy"} THEN {r.job} \ {None} ELSE {}

\* The destructor of a reservation calls deallocate, and cancels its job, unless it is a
\* copy, which __setstate__ has marked, or was decoded and has no nodeList.
CancelledBy(r) == IF r.kind = "original" THEN {r.job} \ {None} ELSE {}

\* SLURMScheduler.__del__ deallocates what it tracks still.
KilledBy(s, res, tr) == {res[o].job : o \in tr[s]} \ {None}

\* The state after the destructors.
Collected(prog, own, res, tr, la, running) ==
    LET dead == {o \in Object : res[o].kind # "none" /\ ~Referenced(o, prog, own, res, tr, la)}
        gone == {s \in Scheduler : ~Alive(s, own, res)}
    IN  /\ program' = prog /\ owned' = own
        /\ obj' = [o \in Object |-> IF o \in dead THEN NoReservation ELSE res[o]]
        /\ tracked' = [s \in Scheduler |-> IF s \in gone THEN {} ELSE tr[s]]
        /\ launcher' = [s \in Slurm |-> IF s \in gone THEN None ELSE la[s]]
        /\ jobs' = (running \ UNION {CancelledBy(res[o]) : o \in dead})
                            \ UNION {KilledBy(s, res, tr) : s \in gone \cap Slurm}
-----------------------------------------------------------------------------
(* The operations.                                                         *)

\* LocalScheduler.allocate and SSHScheduler.allocate.
SimpleAllocate(s, o) ==
    /\ s \in owned \ Slurm /\ Fresh(o)
    /\ obj' = [obj EXCEPT ![o] = [kind |-> "original", of |-> s, job |-> None, sched |-> TRUE]]
    /\ program' = program \cup {o}
    /\ tracked' = [tracked EXCEPT ![s] = @ \cup {o}]
    /\ UNCHANGED <<launcher, owned, jobs, free, lost>>

\* SLURMScheduler.allocate: the nodes are granted, and salloc says just so.
SlurmAllocate(s, o, j) ==
    /\ s \in owned \cap Slurm /\ Fresh(o) /\ j \in free
    /\ free' = free \ {j}
    /\ Collected(program \cup {o}, owned,
                 [obj EXCEPT ![o] = [kind |-> "original", of |-> s, job |-> j, sched |-> TRUE]],
                 [tracked EXCEPT ![s] = @ \cup {o}],
                 [launcher EXCEPT ![s] = o],
                 jobs \cup {j})
    /\ UNCHANGED lost

\* ... or more than that ("Pending job allocation ..."), of which int() makes a ValueError.
SlurmUnreadable(s, j) ==
    /\ s \in owned \cap Slurm /\ j \in free
    /\ free' = free \ {j} /\ jobs' = jobs \cup {j} /\ lost' = lost \cup {j}
    /\ UNCHANGED <<obj, program, tracked, launcher, owned>>

Another(o, new, kind) ==
    /\ o \in program /\ Fresh(new)
    /\ obj' = [obj EXCEPT ![new] = [obj[o] EXCEPT !.kind = kind, !.sched = FALSE]]
    /\ program' = program \cup {new}
    /\ UNCHANGED <<tracked, launcher, owned, jobs, free, lost>>

\* A resource is copied with its reservation: __getstate__ and __setstate__.
Copy(o, new) == Another(o, new, "copy")

\* serializeToXML at the SSM, deserializeFromXML at a client.
Decode(o, new) == Another(o, new, "decoded")

\* The program lets go of an object.
Forget(o) ==
    /\ o \in program
    /\ Collected(program \ {o}, owned, obj, tracked, launcher, jobs)
    /\ UNCHANGED <<free, lost>>

\* deallocate of a scheduler: it does not track the reservation any longer.
Untracked_Kept(o) == tracked
Untracked(o) == [s \in Scheduler |-> tracked[s] \ {o}]

\* deallocate of a copy, which only forgets its number, or its scheduler.
DeallocateCopy(o) ==
    /\ o \in program /\ obj[o].kind = "copy"
    /\ obj' = [obj EXCEPT ![o].job = None]
    /\ UNCHANGED <<program, tracked, launcher, owned, jobs, free, lost>>

\* LocalReservation.deallocate and SSHReservation.deallocate.
SimpleDeallocate(o) ==
    /\ o \in program /\ obj[o].kind # "copy" /\ obj[o].of \notin Slurm
    /\ Collected(program, owned, [obj EXCEPT ![o].sched = FALSE],
                 IF obj[o].sched THEN Untracked(o) ELSE tracked, launcher, jobs)
    /\ UNCHANGED <<free, lost>>

\* SLURMLauncher.deallocate.  When scancel cannot be run it raises and nothing has changed;
\* what scancel itself reports is ignored, so that the job may go on.
SlurmDeallocate(o) ==
    /\ o \in program /\ obj[o].kind # "copy" /\ obj[o].of \in Slurm /\ obj[o].job # None
    /\ \E refused \in SUBSET ({obj[o].job} \cap jobs) :
          /\ Collected(program, owned, [obj EXCEPT ![o].sched = FALSE, ![o].job = None],
                       IF obj[o].sched THEN Untracked(o) ELSE tracked, launcher,
                       (jobs \ {obj[o].job}) \cup refused)
          /\ lost' = lost \cup refused
    /\ UNCHANGED free

\* The program lets go of a scheduler, or ends.
Disown(s) ==
    /\ s \in owned
    /\ Collected(program, owned \ {s}, obj, tracked, launcher, jobs)
    /\ UNCHANGED <<free, lost>>

\* SLURM ends a job by itself: its time is up, a node fails, an administrator cancels it.
JobEnds(j) ==
    /\ j \in jobs /\ jobs' = jobs \ {j}
    /\ UNCHANGED <<obj, program, tracked, launcher, owned, free, lost>>
-----------------------------------------------------------------------------
ReservationNext ==
    \/ \E s \in Scheduler, o \in Object : SimpleAllocate(s, o)
    \/ \E s \in Scheduler, o \in Object, j \in Job : SlurmAllocate(s, o, j)
    \/ \E s \in Scheduler, j \in Job : SlurmUnreadable(s, j)
    \/ \E o, new \in Object : Copy(o, new) \/ Decode(o, new)
    \/ \E o \in Object :
          Forget(o) \/ DeallocateCopy(o) \/ SimpleDeallocate(o) \/ SlurmDeallocate(o)
    \/ \E s \in Scheduler : Disown(s)
    \/ \E j \in Job : JobEnds(j)

ReservationSpec == ReservationInit /\ [][ReservationNext]_reservationVars
-----------------------------------------------------------------------------
(* Properties.                                                             *)

\* A scheduler tracks the reservations that were not given back and no others, so that each
\* job that runs, but for the lost ones, can still be cancelled through its table.
Accounted ==
    /\ \A s \in Scheduler :
          tracked[s] = {o \in Live : obj[o].kind = "original" /\ obj[o].of = s /\ obj[o].sched}
    /\ \A j \in jobs \ lost : \E s \in Slurm : \E o \in tracked[s] : obj[o].job = j

\* A job runs on as long as its original is there: "if isCopy is true, then the destructor
\* will not remove the allocation", so that whatever else the program lets go of, copies of it,
\* decoded ones, other originals and schedulers, does not end it.
OriginalKeepsJob ==
    [][program' # program \/ owned' # owned =>
          \A o \in Object :
              obj[o].kind = "original" /\ obj'[o] = obj[o] /\ obj[o].job \in jobs
                  => obj[o].job \in jobs']_reservationVars

\* "If some jobs allocated by us are still running, then kill em all mercilessly": when a
\* program has let go of a scheduler, no job that the scheduler knew runs.
SchedulerEndsJobs == owned = {} => jobs \subseteq lost

\* A reservation that was decoded "will not remove the allocation" when it is deallocated.
DecodedCancelsNothing ==
    [][\A o \in Object : obj[o].kind = "decoded" /\ obj'[o] # obj[o] => jobs \subseteq jobs']_reservationVars
=============================================================================
