# VizStack in TLA+

VizStack shares the GPUs and X servers of visualization nodes among users. A
daemon, the System State Manager (SSM), owns the state of the whole system:
which resources are allocated to whom, how each X server is configured, which
X servers run. Users' scripts talk to it through `python/vsapi.py`; X servers
are started through a SUID wrapper, `vs-X`, that talks to it as well. A
metascheduler inside the SSM chooses resources and reserves their nodes with
SLURM, SSH or local schedulers.

This directory holds TLA+ modules of that core and of the client library, the
TLC configurations that check them on small instances, and proofs of what
matters most for instances of any size. Paths below are relative to the repository's root.

## 1. Inventory

### Components

| component | source | state it keeps | operations |
|---|---|---|---|
| allocator | `python/metascheduler.py`, `VizResource` and its subclasses in `python/vsapi.py` | owner list and mode of every resource, weight of every node, allocations in force and the reservations behind them | `allocate`, `deallocate` |
| schedulers | `python/{local,ssh,slurm}scheduler.py`, `slurmlauncher.py` | the reservations they have made, by reference; SLURM's jobs | `allocate`, `deallocate`, `run`, copies, serialisation, destructors |
| SSM main loop | `sbin/vs-ssm` `mainLoop`, `processMessage` | `client_info` (socket, kind, pending reply, allocations to clean up), `allocations` with `used_x_servers`, `x_server_users`, `x_server_avail` | accept, read, reply, disconnect; attach, allocate, deallocate, stop_x_server, wait_x_state, update_x_avail, queries |
| X server configurations | `sbin/vs-ssm` `processUpdateServerConfigMessage` | `x_server_config`, one `Server` per X server | set by the owner, read by vs-X, cleared at allocation |
| pending replies | `sbin/vs-ssm` `handleWaitXState` and the `select()` of `mainLoop` | deadline of every WaitXState | evaluate, sleep, wake up |
| daemon control | `sbin/vs-ssm` class `Daemon`, `ssm_body` | pid file, process | start, stop, cleanup at exit |
| X server wrapper | `src/vs-X.cpp` | parent and SUID child (or daemon), X server, node lock, display lock, local socket, connected clients | start, share, let in, refuse, stop, clean up |
| client library | `python/vsapi.py` `ResourceAccess`, `Allocation` | one connection, one request at a time; the X server processes it has started | the requests above, `startViz`, `stopViz`, `setupViz`, `stop`, `start` |
| other wrappers | `src/vs-Xv.cpp`, `vs-GDMlauncher.cpp`, `vs-aew.cpp`, `vs-Xkill.cpp`, `vs-wait-x.cpp` | child processes, signals | start, forward signals, kill after a timeout |
| X configuration | `src/vs-generate-xconfig.cpp`, `vsdomparser.cpp` | none: XML in, xorg.conf out | one pass |
| tiled displays | `TiledDisplay`, `ResourceGroup` in `vsapi.py`, `sbin/vs-manage-tiled-displays` | parameters of the display, screens of the X servers, layout matrices; XML files | `setParam`, `doValidate`, `setupXServers` |
| frame lock | `python/vsutil.py` `enableFrameLock` and its helpers | none: what the GPUs are set to | enable, disable, query |
| session scripts | `bin/viz-*`, `bin/vs-vncserver` | none beyond the library's | allocate, configure, start X servers, wait, run, stop |
| configuration tools | `sbin/vs-configure-*`, `vs-generate-node-config`, `vs-test-gpus` | files in `/etc/vizstack` | one pass |

### How they interact

* A script sends one request over a TCP or local socket and blocks for the
  reply. The SSM is a single thread around `select()`: it answers what is
  pending, then reads one message from each readable socket, then accepts.
  Peers close their end at any time, and the SSM notices when it next writes
  to or reads from the socket.
* `WaitXState` is answered later, when the X servers are up or down, its
  timeout is over or its allocation is gone.
* `vs-X` connects to the SSM as an X client of an allocation, and holds that
  connection as long as its X server runs. The SSM tells it to stop by shutting
  the connection down; there is no other way to stop an X server.
* For a sharable GPU the first `vs-X` leaves a daemon behind, and later ones
  connect to it over `/var/run/vizstack/socket-:n`. The daemon asks the SSM for
  the list of owners before it lets anyone in.
* All `vs-X` of a node use one `flock()` for starting and stopping X servers,
  and one for each display.
* The allocator is called by the SSM, and calls schedulers; all three raise
  exceptions, and nothing between them and the main loop undoes anything.
* A reservation travels with the resources that carry it: it is copied with
  them, serialised to clients and decoded there. Which of these objects gives
  the nodes back is decided by marks and by destructors.
* A client that decodes an allocation sets up its resource groups at once: the
  handler of a tiled display puts screens on the X servers of the allocation,
  and `setupViz` does so again after parameters have changed. `startViz` then
  runs one `vs-X` per X server and asks the SSM to wait for all of them.

### What is hard, and what makes each component correct

The `hazards` of `PROJECT.json` list the places line by line. In short:

| component | hard behaviour | correct when |
|---|---|---|
| allocator | exceptions half-way, matching on copies, shared and exclusive users of one GPU | nobody else has what is exclusive, share limits hold, owner lists equal grants, GPUs in use have their nodes reserved, whole nodes are whole |
| SSM | clients that vanish at any point, X clients that outlive allocations, several owners of one X server | every allocation has somebody who cleans it up, tables count the X clients there are and miss nothing |
| configurations | copies instead of the table, several updates | nobody drives another's GPU, no GPU in two X servers |
| timers | several deadlines in one `select()` | every request with a timeout is answered |
| schedulers | copies and decoded objects with destructors, reference cycles, `salloc` that says more than it should | a job runs on while its original is there, and the tables know every job |
| client library | replies that are late, garbled or never come, ^C at any wait, X servers as processes of its own | replies match requests, calls return, no X server is left to itself, none outlives the connection |
| tiled displays | rotation, bezels, clipping and groups at once, parameters changed after the setup | displays are straight over block borders, areas tile, clients draw on what is shown |
| frame lock | many commands of which nobody reads the result | a reported success is one, whatever went wrong before |
| vs-X | two locks, three processes, signals through a pipe, sleeps, a socket file that survives crashes | X servers start and stop one at a time, a display has one, they end with their last user |

## 2. Modules

| module | models | extends or composes |
|---|---|---|
| `VizResource` | ownership of one resource: owners, mode, `isFree`, `canAllocate`, `doAllocate`, `deallocate` | |
| `Metascheduler` | the allocator and its schedulers, a call as a sequence of steps | `VizResource`; refines `ResourcePool` |
| `ResourcePool` | what an allocator promises: grants, exclusive or up to a share limit | |
| `MetaschedulerProofs` | theorems about the allocator | `Metascheduler`, `NumberLemmas`, TLAPS |
| `SSM` | the main loop with its clients, X clients, requests and cleanup | |
| `SSMProofs` | theorems about the SSM | `SSM`, TLAPS |
| `ServerConfig` | the table of X server configurations | |
| `WaitTimers` | deadlines and the sleep in `select()` | |
| `VsX` | vs-X processes of a node, their X servers and locks, and what the SSM does to them | |
| `VsXProofs` | theorems about vs-X | `VsX`, TLAPS |
| `Reservations` | reservation objects, their copies and destructors, SLURM's jobs | |
| `SSMPartsProofs` | theorems about configurations, deadlines and reservations, a section each | `ServerConfig`, `WaitTimers`, `Reservations`, `NumberLemmas`, TLAPS |
| `Session` | a script with the client library against an SSM and X servers | |
| `SessionProofs` | theorems about the client library | `Session`, TLAPS |
| `TiledDisplay` | parameters, validation and layout of a tiled display | |
| `TiledDisplayProofs` | theorems about that layout | `TiledDisplay`, `NumberLemmas`, TLAPS |
| `FrameLock` | frame lock, command by command | |
| `FrameLockProofs` | theorems about frame lock | `FrameLock`, TLAPS |
| `NumberLemmas` | lemmas about induction, sums, largest elements and division that proofs of several components use | TLAPS |
| `MC*` | instances for TLC | the module each is named after |

`SSMPartsProofs` extends three models that have nothing to do with each other, and so
the specification, the initial states and the like of these carry a prefix: `ConfigSpec`,
`TimersSpec`, `ReservationSpec`.

### VizResource, Metascheduler, ResourcePool

`infoTable` is the table of resources, with the owner list as a bag (`owners[u]`
is how often `u` is in it) and the mode; `srvOwners` the owner list of a GPU's
shared X server; `held`, `jobs` and `live` are grants, reservations and
allocations. A call of `allocate()` runs `Begin` (copies of the free
resources), `Pick` and `PickNode` (matching, one item at a time), `Trial` (the
marks a failed trial leaves on copies), `Mark` (the check against the table),
`SchedAllocate`, `SchedFail`, `SchedDone` (each scheduler in turn; SLURM may
refuse, or raise after `salloc` has granted the job, which is left behind), then
`Commit` of one resource at a time or `CommitRaise`, and
`CommitDone`. `deallocate()` runs `BeginFree`, `FreeOne`, and gives the reservations
back with `FreeDone`, or with `FreeRaise` when one cannot be given back, which keeps it
and those after it. The steps
are separate because each may raise, and the prefix that was done stays; other
calls do not interleave, as the SSM has one thread (`cur` is the only call in
progress). What a call that raised leaves in `jobs` stays until a later call has its
number; nothing in the code refers to it either.

The search of `allocate()` tries candidates in the order of weights and degrees
of freedom. The model lets any candidate be chosen that the request matches and
that a copy can be allocated to; this allows more than the code does, so
safety carries over. `Candidates` and `Fits` are the conditions of the code.

### SSM

`clients` is `client_info` in order, `conn` the `ClientInfo` of each
connection, `live`, `user`, `used`, `users`, `avail` the parts of
`ssmState["allocations"]`. `gone` are the peers that have closed their end: the
SSM reads it only when it writes to or reads from the socket. `Turn` is the
first half of an iteration (pending replies, the pruning of clients that could
not be answered, `select()`), `Serve` one message of a readable client, with a
disjunct for each request, `Eof` its end of file with the cleanup,
`AcceptClient` and `AcceptX` the new connections, `EndTurn` the end of the
iteration. Exceptions that reach `ssm_body` run `Exit`, which removes all
allocations. `status` tells them apart: `missed` when the SSM has looked for an entry of its own
tables that is not there, `raised` for all others (`AcceptCrash`, for one, is an X client
that names a display the SSM has not, which `mainLoop` looks up unguarded). A handler is one action, and what an exception leaves undone is
part of it.

`TcpPeers`, `Polls`, `Strangers`, `LateDeaths` and `LeaveAlive` switch
behaviours of the clients on. They exist because each can end the SSM (section
6), which small counterexamples show one at a time. The two passing runs have the first
three on; only deaths with a response pending are off, and `ssm_orphan` is about these.

### ServerConfig

`config` is `x_server_config`, `gpus` and `servers` what allocations hold.
`Update` is the whole handler, with the two checks as the code makes them:
against the allocation's own GPUs, and against GPUs named twice. The second
check looks at copies that no update fills, so the model compares the servers
of one request only. `Start` and `Stop` are vs-X's.

### WaitTimers

Time is in seconds, bounded by `MaxTime`. `Evaluate` answers what is due or has
the state waited for, `Sleep` is the deadline that the code computes, `Tick`
passes time while `select()` sleeps, `OtherMessage` wakes it up early.

### VsX

An invocation `v` has a `parent` (`look`: connect to a wrapper; `knock`: wait
for its answer; `lock`: wait for the display's lock; `nap`: the sleep before
it connects to its own wrapper; `admitted`; `wait`: the loop of
`parentWaitTillSUIDExits`) and a `child` (`lock`: wait for the node's lock;
`main`: the loop; `stop` and `nap`: `take_lock_once`, the signal and the sleep
inside that loop; `reap`: `waitChildExit` before an early exit). The child does
nothing else while it waits for a lock or sleeps, and the model keeps that.
`signals` is the pipe of signals, `heeded` and `hangUp` remember what the loop
has closed or will close after its sleep. `ssm` is the connection as an X
client, `root` the one of the daemon as an ordinary client. `owned` stands for
the allocations in the SSM: the owner list that `getServerConfig` returns has
one entry for each invocation in it, and `HasConfig` fails when no allocation
has the X server any more.

`Mortal`, `Unstable`, `ShortNaps` and `SsmMayEnd` say whose parents are killed,
whose X server crashes, whether eleven seconds may be too short, whether the
SSM ends. `Boot` joins the steps from `take_lock()` to the `fork()` of the X
server, which happen under the lock.

### Reservations

`obj[o]` is a reservation object: how it came to be (granted, copied by
`__getstate__` and `__setstate__`, decoded from XML), its scheduler, its job,
and whether its `sched` attribute still points to the scheduler. `program`,
`tracked` (`allocations` or `allocationInfo` of each scheduler), `launcher` and
`owned` are the references between these, and `Collected` runs the destructors
that follow when references have gone: of objects that nothing refers to, and of
schedulers, as reference counting does. `SlurmAllocate` has
`SlurmUnreadable` beside it (a job was granted, its number could not be read),
`SlurmDeallocate` the choice of a `scancel` that fails without being noticed.
`lost` collects the jobs of these two.

### Session

`step` says in which request of which call the script is: `startViz` and
`stopViz` consist of several. `Send` and `Receive` are the halves of
`__sendAndRecvMessage`, with a lost message, an end of file and a reply that
cannot be read; `Raise` says where each exception leads. `Interrupt` is ^C.
`xprocs` are the processes that `startViz` has started, `Kill` takes them one
by one as `__emptyXprocs` does. Such a process is a local one: `ssh`, `srun`, or `vs-aew`
on the script's own node. `kill()` waits for it to end; the X server, or the `vs-X`
that is still to start one, ends when the other side notices. So `Kill` does not end an X
server, it makes it one that is to end (`killed`), and nothing says that it does. On the other side `Serve`, `Evaluate`,
`SeeClosed` and `SsmDies` are what one client sees of the SSM, with the one
slot for a deferred WaitXState, and `XConnects`, `XComesUp`, `XEnds` what it sees of
a vs-X and its X server. Modules `SSM` and `VsX` have these two in full; here they
may do at any time what they may do at some time there. `RemovedByOther` is another
session of the user. `abandoned` and `byStartx` are history.

### TiledDisplay

`params` are the attributes of the handler; a pair is the code's list of
columns and rows. `Validation` is `doValidate` with its errors in order of
occurrence, of two kinds where an exception is not the `ValueError` callers
expect. `Rects`, `Framebuffer`, `Scanouts`, `Position` are the arithmetic of
`setupXServers` over blocks, with bezels per line of displays (`Line`),
rotation (`Edges`) and clipping (`Clip`, with the code's comparison).
`Effective` is `effectiveLayoutMatrix`, `Combined` is `getCombinedScreen`.
`DecodeAllocation` is the setup that hands the allocation out, `Change` any
`setParam`, `SetupViz` the setup after it. A setup that fails leaves screens and
matrices as they were, because these are written last.

`ParamType` has the types that `doValidate` tests for; `TiledDisplayAssumption` says that
the displays of the configuration have parameters of these types, that users give values of
these types, and that sizes and bezels of modes are not negative. Values of the right type
that make no sense, sizes of zero for instance, are left to `Validation`, as in the code.

The properties are stated over positions on the wall, and do not mention the
definitions that compute them: `PanelsInPlace` says where every display must be,
`BlocksTile` that areas cover the whole without overlap.

### FrameLock

A call is a check of what nvidia-settings reports (`MayEnable`, `MayDisable`),
a list of commands (`EnablePlan`, `DisablePlan`), and a second look (`Verified`).
The GPUs with their cables are external: `Reached` says whom a master's signal
reaches, `SyncRate` what a GPU then reports, `Applied` what a command does. The sync rate
is asked for without naming a GPU (`vsutil.py:365`; the query at line 374 names one), so
each X server answers for its first (`Answering`), and `ReadSyncRate` is what the code sees.
`Lost`, `Breaks`, `RestartX` and `ChangeRate` may happen between any two commands;
`disturbed` remembers the first three, since the call in progress began or the last one did.

## 3. Runs

All runs that pass explore their whole state space.

| run | question | instance | distinct states |
|---|---|---|---|
| `allocator` | Is what is granted exclusive, within limits, accounted for and reserved, can matching choose what cannot be committed, is a whole node whole, and does all of it implement `ResourcePool`? | 2 nodes, 3 GPUs (one sharable by 2) and a keyboard that weighs nothing, 2 calls with 3 items, requests whose commit can raise, 2 users, 2 SLURM partitions that may each refuse, raise after a grant, or fail to cancel | 18,680 |
| `ssm_live` | Are allocations removed on behalf of the right user, on every path and on the way to any exception? Are waiters released, departed clients cleaned up after, dead X clients forgotten? | 2 users (one is root), 1 shared X server, 2 connections, 2 allocations, TCP peers, polls, strangers | 20,004 |
| `ssm_shared` | Do tables, signals and cleanup agree for a shared X server, and does the loop find in its tables what it looks for? | 2 allocations that share 1 X server, 3 connections, TCP peers, polls, strangers, no death while waiting | 445,422 |
| `config` | Whose GPUs may a job configure? | 2 GPUs, 2 X servers, 2 allocations, mistaken requests included | 5,392 |
| `timers` | Is every request with a timeout answered? | 3 clients, timeouts of 1, 3 and 5 seconds or none, 8 seconds in all | 8,406 |
| `xserver` | Do starts and stops exclude each other, and does everything end that should? | a shared and an unshared X server of a node, the parent of one may be killed, the X server of the other may crash | 70,250 |
| `xserver_shared` | Has a display one X server, and do only owners get in, whatever dies? | 3 invocations by 2 users for 1 shared X server, everything may die, `maxClients` 2 | 528,111 |
| `reservations` | Do the tables know every job, and does one run on as long as its original is there? | a SLURM and a local scheduler, 3 objects, 2 jobs | 254,808 |
| `session` | Do replies stay in step, do calls return, is an X server ever forgotten, and do X servers outlive the connection? | 1 X server, 4 calls in any order, ^C at any wait, an SSM that may die | 320,279 |
| `tiled` | Do blocks tile walls that are turned or clipped, is the picture straight on those that are neither, and is what is drawn shown? | walls of 2, 3 and 4 GPUs with 1 or 2 displays each, 14 walls as allocated, 2 changes of any parameters | 24,231 |
| `framelock` | Is a success that is reported one, after whatever calls and failures? | 3 GPUs of 2 X servers with 1 or 2 outputs, 2 refresh rates, cables and stereo that may be missing, lost commands, 3 calls | 469,536 |

`Conn`, `Call` and `V` bound what exists at a time or in all; connections and
calls are used again after they end, `MaxAllocs` ids and vs-X invocations are
not. Two allocations are what it takes for one to be mistaken for the other,
two connections of one client kind and a third for a second sharer; the
hazards of section 1 need no more actors. A shared GPU with limit 2 and two
calls of up to three items has all of empty, shared, full and refused. Four calls of a script
reach `startViz` after `allocate` and `setupViz`, and one more call after it. Two
changes of parameters give every pair of them on every wall; a third only
matters to checks that involve three, which `AllDisplays` starts with. Three
objects are an original, a copy and a decoded reservation at a time, two jobs what it takes
to cancel the wrong one. Three GPUs are a first, a middle and a last of a chain, and two X
servers give a GPU that nobody asks about.

`CHECK_DEADLOCK FALSE` is set in the runs of vs-X, where everything ends when
each invocation has exited, and in those of `Session`, `TiledDisplay` and
`FrameLock`, where the user may stop calling and the bounds on calls
end the behaviour, and of `Reservations`, where each job number is given once. In the
others the end is a stuttering step (`Down`) or does not exist.

Each module has a `TypeOK` (`ConfigTypeOK`, `TimersTypeOK`, `ReservationTypeOK`) that documents its
variables; it holds in each of these
instances, but only that of the allocator is part of a run, within `IInv`.

### Fairness

* SSM: the loop runs (`Turn`, `Serve`, `EndTurn`), as nothing in it blocks but
  `select()`, which is level-triggered, and a peer that stops in the middle of a
  message, for which `readMessageFromSocket` would wait; such peers are left out. A peer that
  has closed its end has sent finitely many messages, so its end of file comes (`SF` of
  `Eof`). Nothing is assumed of peers: they may stay for ever, and an X client that is
  told to exit need not. Whether it does is a question to `VsX`, which shows that one that has got
  as far as waiting for the end hears of it (`WaitersHear`), and that one blocked in
  `flock()` does not (`AllHear`, section 6).
* Timers: the loop runs, `select()` returns after its timeout, the clock goes
  on.
* vs-X: processes run (weak fairness of the parent and the child), `flock()`
  lets everybody in who waits (strong fairness of the three steps that take a
  lock, as the lock comes and goes), an X server comes up or ends, and it ends
  after SIGTERM. The last one is the assumption of the code itself: there is no
  SIGKILL after it (`vs-X.cpp:1686-1695`).
* Session: the script goes on with a call it has begun (weak fairness of `Send`,
  `Receive` and `Kill`; it need not begin another), the SSM's loop runs, and an
  X server asks for its configuration and ends when the SSM tells it to. Nothing makes
  the SSM die, the user press ^C, an X server come up, or one end whose process at the
  script was killed: calls
  return without these, because a deferred WaitXState has its timeout (which
  `Evaluate` does not count, and `WaitTimers` does). The library lets a script ask
  for no timeout; none of the scripts does.

## 4. Proofs

`MetaschedulerProofs` proves for any resources, users, nodes, schedulers, share
limits and requests. The assumption `MetaschedulerAssumption` gives types of
constants and what `process_master_config` and `vs-configure-system` see to: GPUs
are the only sharable resources, weights are not negative, and a node is managed by at
most one scheduler of the list.

| theorem | says |
|---|---|
| `TypeCorrect` | `Spec => []TypeOK` |
| `Invariance` | `Spec => []IInv`, the inductive invariant |
| `ExclusiveGrants` | a resource granted exclusively has one grant |
| `ShareLimitKept` | a resource has at most `ShareLimit` grants |
| `OwnerLists` | owner lists of resources and shared X servers count the grants of each user |
| `ReleaseSucceeds` | `deallocate()` finds every entry it removes |
| `ImplementsPool` | `Spec => PoolSpec`: the allocator implements `ResourcePool` |
| `ChoicesHold` | `Spec => []ChoicesStand`: what matching chooses is free in the table, and, unless the request is mixed, the commit can take all of it |
| `GpusAreReserved` | `Spec => []GpuHasReservation`: whoever holds a GPU of a managed node has a reservation of the node |
| `WholeNodes` | `Spec => []NodeIsWhole`: whoever asked for a node has all of it that weighs anything |

`Exclusive` and `WithinLimit` are about grants, but the code decides by the
owner list and the mode of a resource; so `IInv` ties the two: for each
resource the list has as many entries as there are grants, one per user and
grant (`Accounted`), all grants are of the resource's mode (`OneMode`) and there
are no more of them than the mode allows (`WithinMode`). `Control` says where
the program is: a call is in progress outside phase `idle` only, and has
granted nothing before phase `commit`. All this survives failures, because a
commit that raises has changed whole resources or none.

The proof of the step goes by kinds of steps: those that leave the table and
the grants alone (`QuietKeeps`), a commit (`CommitEffect`, `CommitKeeps`) and
the release of one grant (`FreeEffect`, `FreeKeeps`), over three lemmas on owner
lists. TLC checks `IInv` in `allocator`. In the refinement, a commit is
`Acquire`, a release is `Drop`, all else stutters.

The rest is about calls in progress. The first part of `IInv`, `Accounts`, is inductive by
itself; `Selection`, `Reservations` and `Nodes` stand on it. Matching works on copies,
so `ChoicesStand` needs what ties a copy to the table (`SetAside`): what was
chosen on a resource is in its copy, grant by grant, or it is all of a resource that
nobody has; and no copy is beyond its limits (`CopyInLimits`). A whole node is the case
where the code compares sums of weights only, so it needs a lemma about sums: if each
summand is at most its counterpart and the sums are equal, then so are the summands
(`EqualSums`). With it (`WholeNode`), a node that weighs what it weighs while free has
all that weighs anything, and none of its GPUs is in shared use, as that makes it
lighter. What weighs nothing may be missing (`MCMetaschedulerNode.cfg`, section 6), as things of index 0
may without a bias (`vsapi.py:436-445`), so `NodeIsWhole` is about the others, for any weights.
`Reservations` says that every scheduler asked so far whose nodes are needed has reserved; the
list is all there is, so the scheduler of a node is among them when the commit begins. It does not
say that all reservations are needed: those of calls that raise are left behind (section 6).

`EqualSums` is in `NumberLemmas`. A sum is a fold over a set, whose recursive function has
to be shown to exist first (`SumUnfolds`). The induction for that is over a set of natural
numbers (`NatSetInduction`, from the well-foundedness of `<`), since the library's theorems
with an operator parameter cannot be used here. The same induction over subsets of a finite
set (`SubsetInduction`) gives that a sum does not depend on the order in which the fold takes its elements
(`SumRemoves`), and so the sums over intervals (`SumNext`, `SumGrows`), and the largest and
smallest elements of finite sets (`MaxProperties`, `MinProperties`). `DivisionUnique` is what
numbering rows and columns needs.

`SSMPartsProofs` has a section for each of three models. Of `Reservations` it proves for any
objects, jobs and schedulers (assumption
`ReservationsAssumption`: SLURM is among the schedulers, and `None` none of
the rest):

| theorem | says |
|---|---|
| `ReservationsInvariance` | `ReservationSpec => []ReservationIInv`, the inductive invariant |
| `TablesExact` | `ReservationSpec => []Accounted`: schedulers track what was not given back, and jobs that are not lost can be cancelled through their tables |
| `OriginalsKeepJobs` | `ReservationSpec => OriginalKeepsJob`: while the original of a reservation is there, its job does not end because other references go |

`Accounted` speaks of originals that point to their scheduler; that is not enough,
since a destructor looks at the job. `Marked` adds that only originals point to a
scheduler, and that those that have a job do. From this, `CollectKeeps` shows that
running the destructors cancels nothing: an original with a job points to its
scheduler and so keeps it alive, and is in its table and so kept alive by it. (This is the
reference cycle for which the jobs also outlive a program that ends, section 6. What is promised,
and stated as a theorem, is only that a job outlives everything but its original.)
A step that changes references runs the destructors on a state that has `ReservationIInv`
(`CollectInv`); the lemmas on single actions show that.

Of `ServerConfig` it proves for any GPUs, X servers, allocations and grants
(assumption `ServerConfigAssumption`: types of constants, and finitely many X servers):

| theorem | says |
|---|---|
| `ConfigInvariance` | `ConfigSpec => []ConfigIInv`, the inductive invariant |
| `OwnGpusOnly` | `ConfigSpec => []ConfiguredIsOwn`: what a job has configured is its own |
| `UpdatesKeepApart` | `ConfigSpec => UpdateKeepsApart`: one update puts a GPU in one X server of a node |

The SSM checks an update against the GPUs of its own allocation, when it
arrives, and writes a table with one entry for each X server. That the entry
stays right needs `Apart`: X servers and GPUs are granted to one allocation at a
time, so nobody else writes it. `UpdatesKeepApart` is about requests of any
size: the X servers that use a GPU have more than one number if two of them differ
(`RequestKeepsApart`, over finite sets).

Of `WaitTimers` it proves for any clients, timeouts and bound on time (assumption
`WaitTimersAssumption`):

| theorem | says |
|---|---|
| `WaitTimersInvariance` | `TimersSpec => []TimersIInv`, the inductive invariant |
| `LoopLooksInTime` | `TimersSpec => []LatestInTime`: the loop looks at its requests again by the latest of their deadlines |

While `select()` sleeps, `wake` is the latest of the deadlines that stand
(`SleepsInTime`). A new request wakes it up, and one that is answered is answered before
the sleep is computed. A set of times is finite (`TimesFinite`), so it has a latest one
(`MaxProperties`). That the latest and not the
first deadline counts is what `WaitTimersEach.cfg` shows (section 6).

`SSMProofs` proves for any users, X servers, connections, requests and kinds of
peers (assumption `SSMAssumption`: types of constants, and that there is a user):

| theorem | says |
|---|---|
| `SsmInvariance` | `Spec => []IInv`, the inductive invariant |
| `TypeCorrect` | `Spec => []TypeOK`: `client_info` lists each connection once |
| `ExitIsTold` | `Spec => []XClientsToldToExit`: no X client outlives its allocation without having been told to exit |
| `NobodyOrphaned` | `Spec => []NoOrphan` if no client dies with a response pending (`~LateDeaths`): each allocation has a client that cleans it up |
| `OnlyOnBehalf` | `Spec => RemovedOnBehalfOf`: allocations go away for root, their user, or the client that cleans them up |
| `CountingInvariance` | `Spec => []Counting`, the inductive invariant of the count, given `IInv` |
| `TablesAreExact` | `Spec => []TablesCountXClients`: tables count the X clients of each allocation, and those whose server runs |
| `TablesSuffice` | `Spec => []EntriesFound`: whatever allocation the loop removes is in force, and whatever running X server goes down is counted |

A handler of the SSM is a function on its tables, one inside another: a
disconnection forgets the X client, removes allocations, pops the entry. `Sound`
says of tables that they are well formed (`Good`), that X clients without allocation have
been told to exit (`Told`), and, without late deaths, that allocations have an
owner (`Owned`) and nobody who is gone waits for a response (`Present`). The last
is why pending replies do not fail, and what `ssm_orphan` shows to be
needed. The lemmas say what each function returns (`RemoveEffect`, `DropEffect`,
`DisconnectEffect`) and that sound tables stay sound (`RemoveSound`,
`DisconnectSound`, `EntriesSound`); a step is one of these followed by the reply
(`ReplyKeeps`), which may turn into a disconnection, or into the end of the SSM. The action
property goes along: `Rightful` says what a handler may have removed before
the reply, and the disconnection adds what is on that client's list.

`TablesCountXClients` speaks of allocations in force. An id is given to an allocation
with tables that exist already, so `Counting` adds that tables of all other ids are empty
(`Counts`) and that no X client has an id that was not given yet (`Early`). Handlers that
leave X clients what they are leave the count (`SameX`, `SameCount`); what remains is
a connection, a change of availability, and the end of a connection, where the table
of a live allocation and the list lose the same client (`DisconnectXCounts`).
`TablesSuffice` goes through the places that take something out of the tables: an X server
that goes down is counted, by `Counting`, so `x_server_avail` has it; what a client has
to clean up is there (`Clean`). It holds with every switch of the model on. That the loop goes on it
does not say: it looks up what a peer has sent, and meets sockets that are gone, outside any `try`,
and section 6 has a counterexample for each.

`VsXProofs` proves for any invocations, displays, users and owner lists, whoever may
be killed and whatever may crash (assumption `VsXAssumption`: types of constants, and
finitely many invocations):

| theorem | says |
|---|---|
| `VsXInvariance` | `Spec => []IInv`, the inductive invariant |
| `OneXServerEach` | `Spec => []OneXServer`: a display has one X server |
| `StopsOneByOne` | `Spec => StopsAlone`: an X server that was up is stopped with the lock of the node |
| `AdmittedHaveShares` | `Spec => AdmittedWithinShares`: who is let in has a place within its user's shares and `MaxClients` |

An X server outlives the processes that have started it, so a lock that ends with
its process cannot be the whole argument. `Keepers` says what keeps a display: the lock
of the child as long as there is one, and for a shared X server the wrapper's
socket, which stays when the wrapper has crashed, until the X server has gone. Two X
servers of one display would have one keeper, and so be one. For clients, `Queues` says
that who waits for an answer waits at one wrapper, that of its display, and
`ParentsPlace` that the place of the wrapper's own parent is kept until it is taken; `Within`
bounds the list. The lemmas `TypeKept` to `HangsUpKept` take one part each through all steps.

`SessionProofs` proves for any X servers, with cleanup at disconnection or without
(assumption `SessionAssumption`: finitely many X servers):

| theorem | says |
|---|---|
| `SessionInvariance` | `Spec => []IInv`, the inductive invariant |
| `RepliesMatch` | `Spec => []RepliesInStep`: the message taken for an answer is the answer |
| `StopVizKills` | `Spec => []StopMeansKilled`: when `stopViz` returns without an exception, each X server that `startViz` has started has ended, or its process has been killed |

`__sendAndRecvMessage` takes the next message for the reply, without a number to
compare. That it is the reply rests on `InStep`: on a connection that is open, and until a wait
is given up (`abandoned`), the script's one request is in one place, on its way,
deferred as the pending WaitXState, or answered, or it is lost; and there is
nothing when it waits for nothing. `Line` carries this over reconnections: what was under
way when the socket was closed is gone with it. `Owned` says that an X server is that
of a process in `xprocs`, of one that was killed, or of `startx`, so that an empty `xprocs` means
that none is left to itself. That X servers have gone when `stopViz` returns is not so
(section 6). The proof goes by halves: what the script does, and what the SSM and X
servers do, of which the lemmas say that they move the request one place on or lose it.

`FrameLockProofs` proves for chains of any length, outputs and refresh rates
(assumption `FrameLockAssumption`: types of constants, a chain that is not empty,
finitely many outputs, at least one for each GPU):

| theorem | says |
|---|---|
| `FrameLockInvariance` | `Spec => []IInv`, the inductive invariant |
| `SuccessIsReal` | `Spec => SuccessMeansLocked`: enabling succeeds only with one master, to which the first GPU of each X server is locked, disabling only with none left; and with nothing lost in that call, all GPUs are on, or off and reset |

A plan is many commands, and between any two of them refresh rates may change. In a call,
each setting that it is to make has been made or is still in the plan (`Locking`,
`Unlocking`), unless one was lost or undone (`disturbed`), so when the plan is empty all of them
have been made. This is about the call alone: what calls before it have left is read and
checked when it begins. The rest of `SuccessMeansLocked` does not need it, and so holds after anything.
No GPU but the first ever is a master, and `Verified` has found a signal at the first GPU of each X
server, or none: the signal is that of the first GPU, or that is no master. It says nothing of
the other GPUs of an X server, about which the code does not ask (`FrameLockWedge.cfg`, section 6).
The plans are sequences over the chain; `InTurn` gives them without a fold, so that what is
in a plan, and that nothing else is, can be proved.

`TiledDisplayProofs` proves for displays of any number of blocks and X servers, any modes, bezels,
values of parameters and number of changes (assumption `TiledDisplayAssumption`, section 2):

| theorem | says |
|---|---|
| `TiledInvariance` | `Spec => []IInv`, the inductive invariant |
| `TiledTypes` | `Spec => []TypeOK`: a resource group is handed out with screens on all its X servers |
| `TiledScanoutsApart` | `Spec => []ScanoutsApart`: the displays of a GPU show different parts of its framebuffer, and ports exist |
| `TiledBlocksTile` | `Spec => []BlocksTile`: on walls that are turned to portrait or clipped, but not both, areas of blocks cover the whole without overlap |
| `TiledPanelsInPlace` | `Spec => []PanelsInPlace`: on walls that are neither rotated nor clipped, every display is where its row and column say, in each mode of bezels |
| `TiledDrawnWhole` | `Spec => []DrawnWhole`: without groups, or with those in row order, the layout matrix has the sizes of the screens (under Xinerama the widths), and screens are apart unless groups are rotated and clipped |

The invariant is short: `LaidOut` says that after a setup the parameters are valid, and that blocks,
screens and matrices are what `Rects`, `Screens` and `Effective` give of them. A change of a parameter
makes this false, and with it `Done`; what has to be shown is that a setup that fills `clip_last_block`
with its own values (`ClipFilled`) has computed with the same ones before (`FilledLayout`). The rest
is arithmetic on a state:

* Along a line of displays, `LineProps` gives that each ends before the next begins, from sums that grow,
  so the scanouts of a block are apart (`ScanoutsOfBlockApart`).
* The code adds up widths of a row and heights of a column. Where blocks of a column
  are equally wide and those of a row equally high, which is so unless they are both clipped and
  rotated (`SameColumn`, `SameRow`), areas are cells of a grid (`GridRects`): two of them differ in column or row
  and so are apart, and the sum of the areas is a sum of rows (`AreasAddUp`).
* With groups, the GPUs of an X server are one group (`GroupOfServer`, from `GroupOfBlock` and
  `GroupsBefore`), so its screens, which are placed relative to the first block of the group, are as far
  apart as the areas (`ScreensApartHold`), and their bounding box is that of the group (`CombinedWidth`).
* On a wall that is not rotated or clipped, every display takes what the pitch says, whatever the mode of bezels
  does at the edges (`LinePlace`, `EvenSums`), and each display of a block has an output (`CellsUsed`).

`DrawnWhole` once said that screens are always apart. That could not be proved, because it is not so when
groups are rotated and clipped (section 6); the instance now has the group of 2 by 2 blocks that
the proof led to.

Only model-checked, because it is out of the proof system's reach: liveness
(`WaitersReleased` and its like of `ssm_live`, `TimedAnswered`, `CallsReturn` and `CleanedUp` of `Session`,
the ends of vs-X). Every safety and action property of the runs is a theorem.

## 5. What is not modelled

* The order of the search in `allocate()`, its weights and biases of GPUs.
* `run()` of the schedulers and `VizProcess`, which start processes, and
  `getUnusableNodes` and `expandHosts`, which parse what `sinfo` prints.
* Messages as text, authentication, logging, the content of configurations
  beyond the GPUs they use.
* vs-X on standalone systems, for everybody (owner -1), SIGHUP, errors while
  files are written before the X server starts, `fopen()` failing for the xuser
  file (which ends the child and leaves the X server), `xhost`.
* Requests of the SSM that only read.
* Of tiled displays: mosaic mode and quadroplex beyond the exception that every
  such block ends in; that the group's own GPU objects, apart from those of screens, have
  their scanouts cleared; `vs-manage-tiled-displays`, which edits an XML file.
* The test signal of frame lock.
* Daemon control (a pid file, one `kill()`), `vs-aew` (one process that forwards signals to one
  child), `vs-Xv` and `vs-GDMlauncher` (relatives of vs-X without sharing and
  locks), the PAM module: they share no state with the rest.
* The generator of X configurations, the configuration tools, remote
  access, samples: one pass from input to output, or data.

## 6. What does not hold

One run shows what a comment of the code promises and the code does not do:

| run | property | what happens |
|---|---|---|
| `ssm_orphan` | `NoOrphan` | a client dies while its WaitXState is pending; the reply that fails drops it without cleanup (`vs-ssm:1545-1569`), and its allocations stay |

More configurations show counterexamples, each with its properties in the last
lines of the file (`tlc -config <file> <module>`, with the `MC` module of that name).
Where a file has several, TLC stops at the first that fails: leave one of them in to see
its counterexample.

| file | property | what happens |
|---|---|---|
| `SSMPrune.cfg` | `SsmStaysUp` | clients are popped from the list the loop counts through: `IndexError` (`vs-ssm:1566`) |
| `SSMStranger.cfg` | `SsmStaysUp` | WaitXState for a server of somebody else: `KeyError`, where `IndexError` is caught (`vs-ssm:1215`); with `Polls = TRUE` instead of `Strangers`, WaitXState with timeout 0: three values for two `%d` (`vs-ssm:1250`) |
| `SSMStranger.cfg` | `SsmStaysUp` | an X client names a display that `x_server_config` has not: `KeyError` (`vs-ssm:1799`), or root a user that is no number (`vs-ssm:1855`); this one TLC finds first |
| `SSMTcp.cfg` | `SsmStaysUp` | an unguarded `shutdown()` of a TCP socket whose peer has gone (`vs-ssm:146`) |
| `SSMTwoX.cfg` | `OneXClient` | two X clients for one unshared server, of a user other than root (`vs-ssm:1882`) |
| `SSMShares.cfg` | `ClientsWithinShares` | connections counted in one allocation, shares over all (`vs-ssm:1888`) |
| `SSMPrune.cfg` | `NoReadWhilePending` | the list of sockets to read is overwritten (`vs-ssm:1582`) |
| `ServerConfigKept.cfg` | `ClearedWhenAllocated` | `clearConfig()` of copies (`vs-ssm:422`) |
| `ServerConfigKept.cfg` | `FixedWhileRunning` | updates of a running X server are accepted (`vs-ssm:806`) |
| `ServerConfigForeign.cfg` | `SsmStaysUp` | the refusal of a foreign GPU raises (`vs-ssm:714`) |
| `ServerConfigKept.cfg` | `NoGpuTwice` | a second update uses a GPU that another X server of the allocation is configured with: the check at `vs-ssm:746-787` looks at copies |
| `WaitTimersEach.cfg` | `EachInTime` | `select()` sleeps until the latest deadline (`vs-ssm:1577`) |
| `MCMetaschedulerNode.cfg` | `NothingMissing` | the weight test takes a node for free whose allocated resource weighs nothing (`metascheduler.py:591`) |
| `VsXDeaf.cfg` | `AllHear` | a vs-X in `flock()` does not hear the SSM (`vs-X.cpp:1062`) |
| `VsXStop.cfg` | `StopsWithLock` | SIGUSR1 gives up the lock of a stop that came early (`vs-X.cpp:2121`) |
| `VsXIdle.cfg` | `UnwantedEnds` | a parent ends before it connects to its wrapper; its place in `connectedClients` (`vs-X.cpp:1620`) is never given up, and the X server stays |
| `TiledDisplayGroups.cfg` | `ScreensApart` | GPUs are put on blocks row by row (`vsapi.py:3498-3510`), so groups side by side of more than one row, as in `config/samples/resource_group_config.xml:443` and `admin_guide.txt:1848-1852`, have screens on top of each other |
| `TiledDisplayGroups.cfg` | `GapsInBlocks` | on a wall that hangs upside down (`inverted_landscape`) with the bezels of a desktop, a display takes the bezels of the wrong end of its line (`vsapi.py:3664-3679`), and the picture jumps between two displays of one block |
| `SessionStart.cfg` | `AllGo` | X servers that fail to come up are stopped, but not killed when the wait for it fails with another exception than `VizError` (`vsapi.py:4107-4114`: "they all have to GO!") |
| `SessionInterrupted.cfg` | `StopStopsStartx` | ^C leaves the reply to a WaitXState on the connection, which then answers the next request: `stopViz` returns while X servers run (`bin/viz-desktop:278`: "Pressing ^C does the job too") |
| `SessionInterrupted.cfg` | `StopMeansStopped` | `stopViz` returns when the processes of the script have ended (`localscheduler.py:72-79`), while an X server started over `ssh` that has not come up yet, or for whose end the wait has failed, is still there |
| `ReservationsEnd.cfg` | `SchedulerEndsJobs` | a scheduler and the reservations it tracks refer to each other, so that its destructor, which is to end the jobs, never runs (`slurmscheduler.py:64-71`) |
| `ReservationsEnd.cfg` | `DecodedCancelsNothing` | a decoded reservation is not marked as a copy, and its `deallocate()` cancels the job (`slurmlauncher.py:56-58`) |
| `FrameLockWedge.cfg` | `SuccessMeansAllLocked` | a GPU that no signal reaches goes unseen when it is not the first of its X server (`vsutil.py:365`), and success is reported |
| `FrameLockWedge.cfg` | `WayOut` | once frame lock is on for some GPUs only, enabling refuses because of these and disabling because of the others |
| `FrameLockPorts.cfg` | `EnableWorks` | the first GPU is made master with the outputs of the GPU that was read last (`vsutil.py:216`) |

Not properties of a state, but met while modelling:

* `getCombinedScreen` computes the height of the combined screen from the widths
  of the screens (`Combined`), which is why `DrawnWhole` asks for the width only
  with Xinerama.
* `setupXServers` raises `UnboundLocalError` for every quadroplex block, and
  `IndexError` for a mode given as `[width, height, refresh]`.
* The last block is found by comparing its column and row with those of the
  displays of a block (`SubCols`, `SubRows`), so another block may be clipped.
* `combineScreens(True)` is never taken back when `combine_displays` is set to
  false between two setups (`vsapi.py:3855`, `CombinedAsAsked` of `TiledDisplay`).
* `setParam("framelock", v)` sets the bezels (`SetParam`).
* Passive stereo with remapped outputs is never valid (`ValidRemap`): one check asks for
  two outputs, the other for one.

`ChoicesStand` excepts requests that mix items with an index only and items
with a node only (`Mixed`): what the trial for these chose is not set aside, and the
commit may raise half-way.

`NothingLeaks` of `Metascheduler`, that reservations belong to allocations in force, is stated
and not kept: a scheduler that refuses leaves the reservations of those before it
(`metascheduler.py:676`), one that raises after `salloc` its own as well
(`slurmscheduler.py:103`), and a `scancel` that cannot be started those that were still to be
given back (`metascheduler.py:84-85`). Checked as an invariant of `allocator` it fails after one call.

One more was met in a proof, and no configuration shows it: an X server with a group of 2 by 2
blocks (`num_blocks` and `group_blocks` [2, 2]) of 2 by 1 displays, rotated to portrait and clipped to `[1, None]`,
has screens that overlap. Clipping makes the framebuffers of the last column narrower, which
rotation turns into lower areas, and a row begins where the last block of the row above ends
(`vsapi.py:3807-3821`), while the other blocks of that row go on. `DrawnWhole` leaves
groups that are both rotated and clipped out, as `BlocksTile` does with all walls.

## 7. Plan

In this order:

1. The search of `allocate()` as a module of its own, as a function of the
   request and the ledger, shown to choose among `Candidates` of `Metascheduler`.
2. Composition of `SSM`, `Session` and `VsX`: that what `Session` assumes of the
   SSM and of X servers is what these two do; what `ssm-protocol.txt:311` promises of
   WaitXState after StopXServer, and what `vs-ssm:1049-1053` says of exits.
3. `vs-Xv`, `vs-GDMlauncher`, `vs-aew`, and daemon control with pid files.
