SPECIFICATION ReservationSpec
CONSTANTS
    o1 = o1  o2 = o2  o3 = o3
    j1 = j1  j2 = j2
    slurm = slurm  local = local
    None = None
    Object <- MCObject
    Job <- MCJob
    Scheduler <- MCScheduler
    Slurm <- OnlySlurm
INVARIANTS
    Accounted

    
CHECK_DEADLOCK FALSE
