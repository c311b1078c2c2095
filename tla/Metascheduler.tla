--------------------------- MODULE Metascheduler ---------------------------
(***************************************************************************)
(* The allocator of the SSM: class Metascheduler of                        *)
(* python/metascheduler.py over the table of VizResources it keeps, and    *)
(* the schedulers that reserve nodes for it.                               *)
(*                                                                         *)
(* allocate() matches a request against copies of the free resources,      *)
(* checks the result against the table, asks every scheduler that manages  *)
(* one of the chosen nodes for a reservation, and only then commits the    *)
(* result to the table, one resource at a time.  Each of these steps may   *)
(* raise, and nothing is undone then: a step is an action here, so that    *)
(* every prefix of an allocation that fails is a state of the model.       *)
(*                                                                         *)
(* Which resource a request ends up with depends on weights and on the     *)
(* order of the search; here any resource that the request matches and     *)
(* that canAllocate accepts may be chosen, and the search may give up      *)
(* whenever it is not finished.                                            *)
(***************************************************************************)
EXTENDS VizResource, Sequences, FiniteSetsExt

CONSTANTS
    Host,       \* the nodes
    HostOf,     \* the node of each resource
    Gpu,        \* the resources that are GPUs; only these are schedulable
    Weight,     \* allocation weight of each resource while nobody owns it
    Sched,      \* the schedulers of the system
    SchedList,  \* their order in the master configuration
    SchedNodes, \* the nodes each of them manages
    MayFail,    \* those whose allocate() and release can raise (SLURM)
    Call,       \* allocations that may be in progress or in force
    NoCall,     \* no allocation is in progress
    Slot,       \* positions of a request
    Requests    \* the requests clients make: functions from slots to items

(***************************************************************************)
(* One position of a request.  step is the degree of freedom by which it   *)
(* is matched: 0 if host and index are given, otherwise the largest of its *)
(* sublist (1 index only, 2 host only, 3 neither).  whole: a VizNode is    *)
(* asked for, and cands holds the resources of the nodes that fit.         *)
(***************************************************************************)
Item == [step : 0..3, cands : SUBSET Res, shared : BOOLEAN, whole : BOOLEAN]

\* A resource that a request was given.
Grant == [slot : Slot, res : Res, shared : BOOLEAN, whole : BOOLEAN]

\* Only GPUs are configured as sharable, a weight is a sum of an index and
\* biases, and every node is managed by one scheduler (process_master_config).
ASSUME MetaschedulerAssumption ==
    /\ HostOf \in [Res -> Host]
    /\ Gpu \subseteq Res
    /\ IsFiniteSet(Res)
    /\ \A r \in Res \ Gpu : ShareLimit[r] = 1
    /\ Weight \in [Res -> Nat]
    /\ SchedList \in Seq(Sched)
    /\ Sched = Range(SchedList)
    /\ SchedNodes \in [Sched -> SUBSET Host]
    /\ \A s, t \in Sched : s # t => SchedNodes[s] \cap SchedNodes[t] = {}
    /\ MayFail \subseteq Sched
    /\ NoCall \notin Call
    /\ \A q \in Requests : /\ DOMAIN q \subseteq Slot
                           /\ \A s \in DOMAIN q : q[s] \in Item

VARIABLES
    infoTable,  \* the state of every resource
    srvOwners,  \* owners of the shared X server of every GPU
    live,       \* the allocations in force (Metascheduler.allocations)
    user,       \* the user of every allocation
    held,       \* the grants committed to the table for each call, so far
    jobs,       \* the schedulers that hold a reservation made for a call
    cur,        \* the call being served
    phase,      \* where allocate or deallocate is
    req,        \* the request being served
    todo,       \* its slots not matched yet
    picks,      \* what matching chose for the others
    pool,       \* freeResources: copies that matching allocates from
    avail,      \* the resources that are still in freeResources
    schedPos    \* the next scheduler of SchedList to ask

ledger == <<infoTable, srvOwners, held>>
matching == <<req, todo, pool, avail>>
vars == <<infoTable, srvOwners, live, user, held, jobs, cur, phase, req,
          todo, picks, pool, avail, schedPos>>

Free(r) == isFree(r, infoTable[r])
OnHost(h) == {r \in Res : HostOf[r] = h}
NoPool == [r \in Res |-> Unowned]

\* Mutants of operators below: the busy resources copied too, the weight not
\* compared, shared GPUs not scheduled, canAllocate not asked.
Candidates_BusyToo(unusable) == {r \in Res : HostOf[r] \notin unusable}
NodeWeight_Unchecked(h) == SumFunctionOnSet(Weight, OnHost(h))
NodesToAlloc_ExclusiveOnly ==
    {HostOf[g.res] : g \in {p \in picks : p.res \in Gpu /\ ~p.shared}}
Fits_AnyFree(s, r) == r \in req[s].cands \cap avail

\* getAllocationWeight: a GPU in shared use weighs less by the room it has.
WeightNow(r) ==
    Weight[r] - (IF r \in Gpu /\ pool[r].shared
                 THEN ShareLimit[r] - NumOwners(pool[r].owners) ELSE 0)
NodeWeight(h) ==
    SumFunctionOnSet([r \in Res |-> IF r \in avail THEN WeightNow(r) ELSE 0],
                     OnHost(h))
NodeWeightWhenFree(h) == SumFunctionOnSet(Weight, OnHost(h))

\* The nodes whose reservation the schedulers must grant.
NodesToAlloc == {HostOf[g.res] : g \in {p \in picks : p.res \in Gpu}}

TypeOK ==
    /\ infoTable \in [Res -> State]
    /\ srvOwners \in [Gpu -> Owners]
    /\ live \subseteq Call
    /\ user \in [Call -> Uid]
    /\ held \in [Call -> SUBSET Grant]
    /\ jobs \in [Call -> SUBSET Sched]
    /\ cur \in Call \cup {NoCall}
    /\ phase \in {"idle", "match", "sched", "commit", "free"}
    /\ req \in Requests \cup {<<>>}
    /\ todo \subseteq DOMAIN req
    /\ picks \subseteq Grant
    /\ pool \in [Res -> State]
    /\ avail \subseteq Res
    /\ schedPos \in 1..(Len(SchedList) + 1)

Init ==
    /\ infoTable = NoPool
    /\ srvOwners = [r \in Gpu |-> NoOwners]
    /\ live = {}
    /\ user \in [Call -> Uid]
    /\ held = [c \in Call |-> {}]
    /\ jobs = [c \in Call |-> {}]
    /\ cur = NoCall
    /\ phase = "idle"
    /\ req = <<>>
    /\ todo = {}
    /\ picks = {}
    /\ pool = NoPool
    /\ avail = {}
    /\ schedPos = 1

\* The resources that matching may choose from: the free ones of the nodes
\* that the schedulers call usable and the client's node list includes.
Candidates(unusable) == {r \in Res : Free(r) /\ HostOf[r] \notin unusable}

(***************************************************************************)
(* allocate(): the request is taken apart, and copies are made of the      *)
(* resources that may serve it.  c is any call not in use: nothing refers  *)
(* to a reservation that a failed call left, and c may have been that one. *)
(***************************************************************************)
Begin(c, u, q, unusable) ==
    /\ phase = "idle"
    /\ c \notin live /\ held[c] = {}
    /\ cur' = c
    /\ user' = [user EXCEPT ![c] = u]
    /\ req' = q
    /\ todo' = DOMAIN q
    /\ pool' = infoTable
    /\ avail' = Candidates(unusable)
    /\ phase' = "match"
    /\ jobs' = [jobs EXCEPT ![c] = {}]
    /\ UNCHANGED <<ledger, live, picks, schedPos>>

Due(s) == s \in todo /\ \A t \in todo : req[s].step <= req[t].step

Fits(s, r) == /\ r \in req[s].cands \cap avail
              /\ canAllocate(r, pool[r], req[s].shared)

GrantOf(s, r) == [slot |-> s, res |-> r, shared |-> req[s].shared,
                  whole |-> FALSE]

\* A slot is matched, and its resource taken out of the copies.
Pick(s, r) ==
    /\ phase = "match" /\ Due(s) /\ ~req[s].whole /\ Fits(s, r)
    /\ LET copy == doAllocate(r, pool[r], req[s].shared, user[cur])
       IN  /\ pool' = [pool EXCEPT ![r] = copy]
           /\ avail' = IF isFree(r, copy) THEN avail ELSE avail \ {r}
    /\ picks' = picks \cup {GrantOf(s, r)}
    /\ todo' = todo \ {s}
    /\ UNCHANGED <<ledger, live, user, jobs, cur, phase, req, schedPos>>

\* A VizNode is matched by a node none of whose weight is missing; it gets
\* every resource of the node that is still there, shared if that one is.
PickNode(s, h) ==
    /\ phase = "match" /\ Due(s) /\ req[s].whole
    /\ h \in {HostOf[r] : r \in req[s].cands}
    /\ NodeWeight(h) = NodeWeightWhenFree(h)
    /\ picks' = picks \cup {[slot |-> s, res |-> r, shared |-> pool[r].shared,
                             whole |-> TRUE] : r \in OnHost(h) \cap avail}
    /\ avail' = avail \ OnHost(h)
    /\ todo' = todo \ {s}
    /\ UNCHANGED <<ledger, live, user, jobs, cur, phase, req, pool, schedPos>>

(***************************************************************************)
(* Before a node is given to a step-1 list, the step-2 requirements of     *)
(* that node are matched as a trial.  The trial writes host and index into *)
(* the requirements themselves; when it fails later on they stay written,  *)
(* so the slot counts as matched although nothing was set aside for it.    *)
(***************************************************************************)
Trial(s, r) ==
    /\ phase = "match" /\ s \in todo /\ req[s].step = 2 /\ Fits(s, r)
    /\ \E t \in todo : req[t].step = 1
    /\ \A t \in todo : req[t].step # 0
    /\ picks' = picks \cup {GrantOf(s, r)}
    /\ todo' = todo \ {s}
    /\ UNCHANGED <<ledger, live, user, jobs, cur, phase, req, pool, avail,
                   schedPos>>

Finish == /\ cur' = NoCall
          /\ phase' = "idle"
          /\ picks' = {}
          /\ schedPos' = 1

DropCopies == /\ req' = <<>>
              /\ todo' = {}
              /\ pool' = NoPool
              /\ avail' = {}

\* The request cannot be met: an exception, before anything was changed.
MatchFail ==
    /\ phase = "match" /\ todo # {}
    /\ Finish /\ DropCopies
    /\ UNCHANGED <<ledger, live, user, jobs>>

\* "Mark the resource": what was chosen has to be free in the table, too.
Mark ==
    /\ phase = "match" /\ todo = {}
    /\ \A g \in picks : Free(g.res)
    /\ phase' = "sched"
    /\ DropCopies
    /\ UNCHANGED <<ledger, live, user, jobs, cur, picks, schedPos>>

Asked == SchedList[schedPos]
Needed == SchedNodes[Asked] \cap NodesToAlloc # {}

\* The next scheduler reserves the nodes it manages, if there are any.
SchedAllocate ==
    /\ phase = "sched" /\ schedPos <= Len(SchedList)
    /\ jobs' = IF Needed THEN [jobs EXCEPT ![cur] = @ \cup {Asked}] ELSE jobs
    /\ schedPos' = schedPos + 1
    /\ UNCHANGED <<ledger, live, user, cur, phase, picks, matching>>

\* It raises instead, also after the grant, when what salloc printed is no number.  The
\* reservations made before it, and that one, are not given back.
SchedFail ==
    /\ phase = "sched" /\ schedPos <= Len(SchedList)
    /\ Needed /\ Asked \in MayFail
    /\ \E granted \in SUBSET {Asked} : jobs' = [jobs EXCEPT ![cur] = @ \cup granted]
    /\ Finish
    /\ UNCHANGED <<ledger, live, user, matching>>

SchedDone ==
    /\ phase = "sched" /\ schedPos > Len(SchedList)
    /\ phase' = "commit"
    /\ UNCHANGED <<ledger, live, user, jobs, cur, picks, matching, schedPos>>

CanCommit(g) == canAllocate(g.res, infoTable[g.res], g.shared)

\* One of the chosen resources is taken in the table.
Commit(g) ==
    /\ phase = "commit" /\ g \in picks \ held[cur] /\ CanCommit(g)
    /\ infoTable' = [infoTable EXCEPT ![g.res] =
                       doAllocate(g.res, @, g.shared, user[cur])]
    /\ srvOwners' = IF g.res \in Gpu
                    THEN [srvOwners EXCEPT ![g.res] = addOwner(@, user[cur])]
                    ELSE srvOwners
    /\ held' = [held EXCEPT ![cur] = @ \cup {g}]
    /\ UNCHANGED <<live, user, jobs, cur, phase, picks, matching, schedPos>>

\* doAllocate raises: what was taken before stays taken, for no allocation.
CommitRaise(g) ==
    /\ phase = "commit" /\ g \in picks \ held[cur] /\ ~CanCommit(g)
    /\ Finish
    /\ UNCHANGED <<ledger, live, user, jobs, matching>>

CommitDone ==
    /\ phase = "commit" /\ picks \subseteq held[cur]
    /\ live' = live \cup {cur}
    /\ Finish
    /\ UNCHANGED <<ledger, user, jobs, matching>>

\* deallocate() of an allocation in force.
BeginFree(c) ==
    /\ phase = "idle" /\ c \in live
    /\ cur' = c
    /\ live' = live \ {c}
    /\ phase' = "free"
    /\ UNCHANGED <<ledger, user, jobs, picks, matching, schedPos>>

\* removeOwner raises unless the user is an owner, of the server of a GPU
\* first and then of the resource.
CanFree(g, u) == /\ g.res \in Gpu => owns(srvOwners[g.res], u)
                 /\ owns(infoTable[g.res].owners, u)

FreeOne(g) ==
    /\ phase = "free" /\ g \in held[cur] /\ CanFree(g, user[cur])
    /\ srvOwners' = IF g.res \in Gpu
                    THEN [srvOwners EXCEPT ![g.res] = removeOwner(@, user[cur])]
                    ELSE srvOwners
    /\ infoTable' = [infoTable EXCEPT ![g.res] = deallocate(@, user[cur])]
    /\ held' = [held EXCEPT ![cur] = @ \ {g}]
    /\ UNCHANGED <<live, user, jobs, cur, phase, picks, matching, schedPos>>

\* The launchers give their reservations back last, in the order of SchedList.
GiveBack(kept) ==
    /\ phase = "free" /\ held[cur] = {}
    /\ jobs' = [jobs EXCEPT ![cur] = kept]
    /\ Finish
    /\ UNCHANGED <<ledger, live, user, matching>>

FreeDone == GiveBack({})

\* One raises, when scancel cannot be started: it and those after it keep theirs.
FreeRaise ==
    /\ phase = "free"
    /\ \E i \in DOMAIN SchedList :
          /\ SchedList[i] \in jobs[cur] \cap MayFail
          /\ GiveBack({SchedList[j] : j \in i..Len(SchedList)} \cap jobs[cur])

Step == \/ \E s \in Slot, r \in Res : Pick(s, r)
        \/ \E s \in Slot, h \in Host : PickNode(s, h)
        \/ \E s \in Slot, r \in Res : Trial(s, r)
        \/ MatchFail
        \/ Mark
        \/ SchedAllocate
        \/ SchedFail
        \/ SchedDone
        \/ \E g \in picks : Commit(g)
        \/ \E g \in picks : CommitRaise(g)
        \/ CommitDone
        \/ \E g \in Grant : FreeOne(g)
        \/ FreeDone
        \/ FreeRaise

Next == \/ \E c \in Call, u \in Uid, q \in Requests, d \in SUBSET Host :
             Begin(c, u, q, d)
        \/ \E c \in Call : BeginFree(c)
        \/ Step

Spec == Init /\ [][Next]_vars
-----------------------------------------------------------------------------
\* Everything that is held, as pairs of a call and a grant.
Holdings == {t \in Call \X Grant : t[2] \in held[t[1]]}
On(r) == {t \in Holdings : t[2].res = r}
Of(r, u) == {t \in On(r) : user[t[1]] = u}

\* An exclusively allocated resource is held by nobody else, through any
\* sequence of allocations, failures and releases.
Exclusive ==
    \A t1, t2 \in Holdings :
        t1[2].res = t2[2].res /\ ~t1[2].shared => t1 = t2

\* A resource is never shared by more than its share limit allows.
WithinLimit == \A r \in Res : Cardinality(On(r)) <= ShareLimit[r]

\* The owner list of a resource, and that of a GPU's shared X server, name
\* every user exactly as often as allocations hold the resource for them.
OwnersMatch ==
    \A r \in Res, u \in Uid :
        /\ infoTable[r].owners[u] = Cardinality(Of(r, u))
        /\ r \in Gpu => srvOwners[r][u] = Cardinality(Of(r, u))

\* A release finds every owner entry it has to remove, so it never raises
\* half-way through an allocation.
ReleaseNeverRaises ==
    phase = "free" => \A g \in held[cur] : CanFree(g, user[cur])

\* Matching and the table agree: Mark, the check right after matching, finds no chosen
\* resource busy, and the commit can take all that was chosen, several shares of a resource
\* included.  A request that mixes items with an index only and items with a node only is
\* the exception to the second: what Trial chose was not set aside.
Mixed == {1, 2} \subseteq {req[s].step : s \in DOMAIN req}

ChoicesStand ==
    phase = "match" => \A g \in picks :
        LET rivals == {k \in picks : k.res = g.res}
        IN  /\ Free(g.res)
            /\ ~Mixed => CanCommit(g)
            /\ ~Mixed /\ Cardinality(rivals) > 1 =>
                 /\ g.shared
                 /\ NumOwners(infoTable[g.res].owners) + Cardinality(rivals) <= ShareLimit[g.res]

\* While a GPU is held, a scheduler that manages its node has a reservation.
GpuHasReservation ==
    \A c \in live, g \in Grant :
        /\ g \in held[c] /\ g.res \in Gpu
        /\ \E s \in Sched : HostOf[g.res] \in SchedNodes[s]
        => \E s \in jobs[c] : HostOf[g.res] \in SchedNodes[s]

\* Whoever asked for a node has all of it that weighs anything, whatever is matched, shared
\* and released meanwhile.  A node is chosen by the sum of its weights, and a thing of
\* index 0 without a bias weighs nothing: it may be missing.
WholeIn(grants) ==
    \A g \in grants : g.whole =>
        \A r \in OnHost(HostOf[g.res]) : Weight[r] # 0 =>
            \E k \in grants : k.slot = g.slot /\ k.res = r

NodeIsWhole == \A c \in live : WholeIn(held[c])

\* Whoever asked for a node has all of it: the code does not keep to this.
NothingMissing ==
    \A c \in live : \A g \in held[c] :
        g.whole => \A r \in OnHost(HostOf[g.res]) :
                      \E k \in held[c] : k.slot = g.slot /\ k.res = r

\* A call that has ended has no reservation unless its allocation is in force: the code
\* does not keep to this when a scheduler refuses after another has granted, or raises.
NothingLeaks == \A c \in Call \ (live \cup {cur}) : jobs[c] = {}

(***************************************************************************)
(* The inductive invariant behind these.  A call is in progress exactly    *)
(* outside phase "idle", and its grants reach the table in phase "commit"; *)
(* a resource has one owner entry per grant in force, the grants on it     *)
(* are all of its own mode, and it has no more owners than that mode has   *)
(* room for.                                                               *)
(***************************************************************************)
Control ==
    /\ cur = NoCall <=> phase = "idle"
    /\ cur \notin live
    /\ phase \in {"match", "sched"} => held[cur] = {}

Accounted(r) ==
    /\ IsFiniteSet(On(r))
    /\ IsFiniteSet(Entries(infoTable[r].owners))
    /\ NumOwners(infoTable[r].owners) = Cardinality(On(r))
    /\ \A u \in Uid : infoTable[r].owners[u] = Cardinality(Of(r, u))

OneMode(r) == \A t \in On(r) : t[2].shared = infoTable[r].shared

WithinMode(r) ==
    /\ NumOwners(infoTable[r].owners) <= maxUsers(r, infoTable[r])
    /\ r \in Gpu => srvOwners[r] = infoTable[r].owners

\* A resource is in shared use only if its limit allows two users.
ModeAllowed(r) == infoTable[r].shared => isSharable(r)

Accounts ==
    /\ TypeOK
    /\ Control
    /\ \A r \in Res : Accounted(r) /\ OneMode(r) /\ WithinMode(r)

(***************************************************************************)
(* The part about a call in progress.  A copy that matching allocates from *)
(* keeps the limits of the resource.  Unless a trial went by, what matching *)
(* chose on a resource is either all of it, which nobody has, or entered    *)
(* into its copy, grant by grant.                                          *)
(***************************************************************************)
Chosen(r) == {g \in picks : g.res = r}

CopyInLimits(r) ==
    /\ IsFiniteSet(Entries(pool[r].owners))
    /\ NumOwners(pool[r].owners) <= maxUsers(r, pool[r])
    /\ pool[r].shared => isSharable(r)

TakenWhole(r) ==
    /\ r \notin avail
    /\ \E g \in Grant : Chosen(r) = {g} /\ ~g.shared
    /\ NumOwners(infoTable[r].owners) = 0 /\ ~infoTable[r].shared

TakenFromCopy(r) ==
    /\ NumOwners(pool[r].owners) =
         NumOwners(infoTable[r].owners) + Cardinality(Chosen(r))
    /\ \A g \in Chosen(r) : g.shared = pool[r].shared
    /\ infoTable[r].shared => pool[r].shared

SetAside(r) ==
    /\ r \in avail => Free(r) /\ isFree(r, pool[r])
    /\ Chosen(r) # {} => Free(r)
    /\ IsFiniteSet(Chosen(r))
    /\ ~Mixed => TakenWhole(r) \/ TakenFromCopy(r)

Selection ==
    /\ phase \in {"idle", "free"} => picks = {}
    /\ \A r \in Res : ModeAllowed(r) /\ CopyInLimits(r)
    /\ phase = "match" => /\ \A g \in picks : g.slot \notin todo
                          /\ \A r \in Res : SetAside(r)

\* Every scheduler asked so far has reserved the nodes it manages.
Reservations ==
    /\ phase = "match" => jobs[cur] = {}
    /\ phase \notin {"sched", "commit"} => schedPos = 1
    /\ schedPos = 1 /\ phase = "sched" => jobs[cur] = {}
    /\ phase = "commit" => schedPos > Len(SchedList) /\ held[cur] \subseteq picks
    /\ phase \in {"sched", "commit"} =>
         \A i \in 1..(schedPos - 1) :
            SchedNodes[SchedList[i]] \cap NodesToAlloc # {}
              => SchedList[i] \in jobs[cur]

\* The same of what has been chosen.
Nodes == WholeIn(picks) /\ NodeIsWhole

IInv == Accounts /\ Selection /\ Reservations /\ Nodes /\ GpuHasReservation

\* The abstract resource pool, of which this is an implementation.
Pool == INSTANCE ResourcePool WITH granted <- Holdings, Holder <- Call
PoolSpec == Pool!Spec
=============================================================================
