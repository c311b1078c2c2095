-------------------------------- MODULE VsX --------------------------------
(***************************************************************************)
(* The X server wrapper, src/vs-X.cpp.  Every invocation of vs-X is an X   *)
(* client of the SSM.  It starts the X server of its display through an    *)
(* SUID child, which forks the X server, looks after it and exits after    *)
(* it; the invocation itself is the parent and waits.  For a shared X      *)
(* server the child is a daemon, the wrapper, that further invocations     *)
(* connect to: the X server ends when the last of them is gone.            *)
(*                                                                         *)
(* One lock serializes the start and stop of all X servers of a node,      *)
(* another lets one invocation at a time start the X server of a display.  *)
(* A child that waits for a lock, or sleeps, does nothing else; a parent   *)
(* watches its connections only once it waits for the end.                 *)
(***************************************************************************)
EXTENDS Integers, FiniteSets

CONSTANTS
    V,          \* the invocations; one vs-X process each
    Server,     \* the displays
    SrvOf,      \* the display of each invocation
    Shared,     \* the displays of sharable GPUs
    UidOf,      \* who runs each invocation
    MaxClients, \* maxShareCount of the shared X servers
    None,       \* nobody
    Mortal,     \* the invocations whose parent may be killed at any time
    ShortNaps,  \* may eleven seconds pass before the wrapper listens?
    Unstable,   \* those whose X server may end by itself
    SsmMayEnd   \* does the SSM end?

ASSUME VsXAssumption ==
    /\ IsFiniteSet(V) /\ SrvOf \in [V -> Server]
    /\ Shared \subseteq Server
    /\ MaxClients \in Nat \ {0}
    /\ None \notin V
    /\ Mortal \subseteq V /\ Unstable \subseteq V
    /\ {ShortNaps, SsmMayEnd} \subseteq BOOLEAN

VARIABLES
    parent,     \* where the invoked process is
    child,      \* where its SUID child is
    x,          \* the X server that the child forked
    termed,     \* the children that have sent it SIGTERM
    signals,    \* what is in g_signotify_pipe, USR1 before CHLD
    inited,     \* the children that have handled SIGUSR1: xInitDone
    heeded,     \* the children that have closed origParentPipe
    hangUp,     \* those that will close ssmSocket after their sleep
    lock,       \* holder of /var/lock/vs-X
    perServer,  \* the child that holds the lock of each display
    socket,     \* the child whose socket-:n is in /var/run/vizstack
    queue,      \* connections that a wrapper has not accepted yet
    members,    \* connectedClients of a wrapper, those with an fd
    awaited,    \* wrappers that keep a place for their parent, without an fd
    ssm,        \* the connection as an X client
    root,       \* the wrapper's own connection, as an ordinary client
    avail,      \* those for whom the SSM counts the X server as available
    owned,      \* those whose allocation is in force: the ACL
    ssmUp

locks == <<lock, perServer>>
sharing == <<queue, members, awaited>>
xserver == <<x, termed, signals>>
book == <<inited, heeded, hangUp>>
conns == <<ssm, root, avail>>
env == <<owned, ssmUp>>
vars == <<parent, child, xserver, book, locks, socket, sharing, conns, env>>

IsShared(v) == SrvOf[v] \in Shared

TypeOK ==
    /\ parent \in [V -> {"idle", "look", "knock", "lock", "nap", "admitted", "wait", "exited"}]
    /\ child \in [V -> {"none", "lock", "main", "stop", "nap", "reap", "exited"}]
    /\ x \in [V -> {"none", "init", "up", "dead"}]
    /\ signals \in [V -> SUBSET {"usr1", "chld", "term"}]
    /\ termed \subseteq V /\ inited \subseteq V /\ heeded \subseteq V /\ hangUp \subseteq V
    /\ lock \in V \cup {None}
    /\ perServer \in [Server -> V \cup {None}]
    /\ socket \in [Server -> V \cup {None}]
    /\ queue \in [V -> SUBSET V] /\ members \in [V -> SUBSET V]
    /\ awaited \subseteq V
    /\ ssm \in [V -> {"none", "open", "eof", "closed"}]
    /\ root \in [V -> {"none", "open", "eof", "closed"}]
    /\ \A v \in V : ssm[v] = "none" <=> parent[v] = "idle"
    /\ avail \subseteq V /\ owned \subseteq V
    /\ ssmUp \in BOOLEAN

Init ==
    /\ parent = [v \in V |-> "idle"] /\ child = [v \in V |-> "none"]
    /\ x = [v \in V |-> "none"] /\ termed = {} /\ signals = [v \in V |-> {}]
    /\ inited = {} /\ heeded = {} /\ hangUp = {}
    /\ lock = None /\ perServer = [s \in Server |-> None]
    /\ socket = [s \in Server |-> None]
    /\ queue = [v \in V |-> {}] /\ members = [v \in V |-> {}] /\ awaited = {}
    /\ ssm = [v \in V |-> "none"] /\ root = [v \in V |-> "none"]
    /\ avail = {} /\ owned = V /\ ssmUp = TRUE

-----------------------------------------------------------------------------
(***************************************************************************)
(* The parent.                                                             *)
(***************************************************************************)
GoTo(v, place) == parent' = [parent EXCEPT ![v] = place]

\* The process ends, and its connections with it.  The SSM's one is open as long
\* as the child has it, too.
ParentExits(v) ==
    /\ GoTo(v, "exited")
    /\ IF child[v] = "none" \/ (IsShared(v) /\ child[v] # "lock")
       THEN /\ ssm' = [ssm EXCEPT ![v] = "closed"]
            /\ avail' = avail \ {v}
       ELSE UNCHANGED <<ssm, avail>>
    /\ queue' = [w \in V |-> queue[w] \ {v}]
    /\ UNCHANGED <<child, xserver, book, locks, socket, members, awaited, root, env>>

Invoke(v) ==
    /\ parent[v] = "idle" /\ v \in owned /\ ssmUp
    /\ ssm' = [ssm EXCEPT ![v] = "open"]
    /\ GoTo(v, IF IsShared(v) THEN "look" ELSE "lock")
    /\ UNCHANGED <<child, xserver, book, locks, socket, sharing, root, avail, env>>

\* connect() succeeds as soon as a wrapper listens; the answer comes later.
Knock(v, w) ==
    /\ socket[SrvOf[v]] = w /\ child[w] # "exited"
    /\ GoTo(v, "knock")
    /\ queue' = [queue EXCEPT ![w] = @ \cup {v}]
    /\ UNCHANGED <<child, xserver, book, locks, socket, members, awaited, conns, env>>

NoWrapper(v) == \A w \in V : socket[SrvOf[v]] = w => child[w] = "exited"

Look(v) ==
    /\ parent[v] = "look"
    /\ \/ \E w \in V : Knock(v, w)
       \/ /\ NoWrapper(v)
          /\ GoTo(v, "lock")
          /\ UNCHANGED <<child, xserver, book, locks, socket, sharing, conns, env>>

\* The wrapper ended without an answer.  An invocation that would share the X
\* server starts it then; the one that had started it gives up.
Unanswered(v) ==
    /\ parent[v] = "knock" /\ \A w \in V : v \notin queue[w]
    /\ IF child[v] = "none"
       THEN /\ GoTo(v, "lock")
            /\ UNCHANGED <<child, xserver, book, locks, socket, sharing, conns, env>>
       ELSE ParentExits(v)

\* The lock of the display passes to the child that is forked.
Fork(v) ==
    /\ parent[v] = "lock" /\ perServer[SrvOf[v]] = None
    /\ perServer' = [perServer EXCEPT ![SrvOf[v]] = v]
    /\ child' = [child EXCEPT ![v] = "lock"]
    /\ GoTo(v, IF IsShared(v) THEN "nap" ELSE "wait")
    /\ UNCHANGED <<xserver, book, lock, socket, sharing, conns, env>>

\* The parent of a wrapper connects to it after a sleep, and exits when it
\* cannot.
NapDone(v) ==
    /\ parent[v] = "nap"
    /\ \/ Knock(v, v)
       \/ /\ child[v] = "exited" \/ (ShortNaps /\ socket[SrvOf[v]] # v)
          /\ ParentExits(v)

\* SUCCESSFULLY_CONNECTED: the SSM is told that the X server is available.
LetIn(v) ==
    /\ parent[v] = "admitted"
    /\ IF ssmUp
       THEN /\ GoTo(v, "wait")
            /\ avail' = avail \cup ({v} \cap owned)
            /\ UNCHANGED <<child, xserver, book, locks, socket, sharing, ssm, root, env>>
       ELSE ParentExits(v)

Unconnected(v) == \A w \in V : v \notin members[w]

Over_SsmIgnored(v) == IF IsShared(v) THEN Unconnected(v) ELSE child[v] = "exited"
Over_WrapperIgnored(v) == IF IsShared(v) THEN ssm[v] = "eof" ELSE child[v] = "exited"

\* The SSM or the wrapper has closed the connection, or the child has exited.
Over(v) == IF IsShared(v) THEN ssm[v] = "eof" \/ Unconnected(v) ELSE child[v] = "exited"

WaitOver(v) == parent[v] = "wait" /\ Over(v) /\ ParentExits(v)

\* SIGTERM or SIGINT: passed on, unless the X server is shared.  In the pipe of
\* the child it does not matter any more after SIGCHLD.
ParentTerm(v) ==
    /\ parent[v] = "wait"
    /\ IF IsShared(v) THEN ParentExits(v)
       ELSE /\ child[v] \notin {"none", "exited"}
            /\ signals[v] \cap {"term", "chld"} = {}
            /\ signals' = [signals EXCEPT ![v] = @ \cup {"term"}]
            /\ UNCHANGED <<parent, child, x, termed, book, locks, socket, sharing, conns, env>>

\* Before it waits, a signal ends the parent; SIGKILL does at any time.
ParentDies(v) ==
    /\ v \in Mortal /\ parent[v] \notin {"idle", "exited"}
    /\ ParentExits(v)

-----------------------------------------------------------------------------
(***************************************************************************)
(* The child.                                                              *)
(***************************************************************************)
ChildGoesTo(v, place) == child' = [child EXCEPT ![v] = place]

\* The child ends; its locks and connections go with it.
ChildExits(v) ==
    /\ ChildGoesTo(v, "exited")
    /\ lock' = IF lock = v THEN None ELSE lock
    /\ perServer' = [s \in Server |-> IF perServer[s] = v THEN None ELSE perServer[s]]
    /\ signals' = [signals EXCEPT ![v] = {}]
    /\ inited' = inited \ {v} /\ heeded' = heeded \ {v} /\ hangUp' = hangUp \ {v}
    /\ queue' = [queue EXCEPT ![v] = {}]
    /\ members' = [members EXCEPT ![v] = {}]
    /\ awaited' = awaited \ {v}
    /\ root' = [root EXCEPT ![v] = IF IsShared(v) THEN "closed" ELSE @]
    /\ IF IsShared(v) /\ (child[v] # "lock" \/ parent[v] # "exited")
       THEN UNCHANGED <<ssm, avail>>
       ELSE ssm' = [ssm EXCEPT ![v] = "closed"] /\ avail' = avail \ {v}

UnlinkSocket(v) ==
    socket' = [s \in Server |-> IF socket[s] = v THEN None ELSE socket[s]]

CanBind_AfterUnlink(v) == TRUE

\* bind() fails while a socket of that name is there.
CanBind(v) == IsShared(v) => socket[SrvOf[v]] = None

BindFails(v) ==
    /\ child[v] = "lock" /\ lock = None /\ ~CanBind(v)
    /\ ChildExits(v)
    /\ UNCHANGED <<parent, x, termed, socket, env>>

MayStart(v) == lock = None

\* The configuration is written, in files named after the display, and the X
\* server forked.  A wrapper lets its
\* connection go to the parent and connects to the SSM as an ordinary client.
Boot(v) ==
    /\ child[v] = "lock" /\ MayStart(v)
    /\ CanBind(v)
    /\ lock' = v
    /\ socket' = IF IsShared(v) THEN [socket EXCEPT ![SrvOf[v]] = v] ELSE socket
    /\ x' = [x EXCEPT ![v] = "init"]
    /\ IF IsShared(v) /\ ~ssmUp
       THEN ChildGoesTo(v, "reap") /\ termed' = termed \cup {v} /\ UNCHANGED <<root, awaited>>
       ELSE /\ ChildGoesTo(v, "main")
            /\ root' = [root EXCEPT ![v] = IF IsShared(v) THEN "open" ELSE @]
            /\ awaited' = IF IsShared(v) THEN awaited \cup {v} ELSE awaited
            /\ UNCHANGED termed
    /\ ssm' = [ssm EXCEPT ![v] = IF IsShared(v) /\ parent[v] = "exited" THEN "closed" ELSE @]
    /\ UNCHANGED <<parent, signals, book, perServer, queue, members, avail, env>>

Stop(v) == ChildGoesTo(v, "stop")

\* The SSM shut the connection down: told to exit, deallocated, or it ended.
SsmEof(v) ==
    /\ child[v] = "main"
    /\ (IF IsShared(v) THEN root[v] ELSE ssm[v]) = "eof"
    /\ Stop(v)
    /\ hangUp' = hangUp \cup {v}
    /\ UNCHANGED <<parent, xserver, inited, heeded, locks, socket, sharing, conns, env>>

\* All clients have disconnected.  (The loop comes here again as long as the X
\* server has not ended, and sends the signal again.)
NobodyLeft(v) ==
    /\ child[v] = "main" /\ IsShared(v)
    /\ members[v] = {} /\ v \notin awaited /\ v \notin termed
    /\ Stop(v)
    /\ hangUp' = hangUp \cup {v}
    /\ UNCHANGED <<parent, xserver, inited, heeded, locks, socket, sharing, conns, env>>

\* The end of its parent does not matter to a wrapper.
ParentGone(v) ==
    /\ child[v] = "main" /\ parent[v] = "exited"
    /\ ~IsShared(v) /\ v \notin heeded
    /\ heeded' = heeded \cup {v}
    /\ Stop(v)
    /\ UNCHANGED <<parent, xserver, inited, hangUp, locks, socket, sharing, conns, env>>

Term(v) ==
    /\ child[v] = "main" /\ "term" \in signals[v]
    /\ signals' = [signals EXCEPT ![v] = @ \ {"term"}]
    /\ Stop(v)
    /\ UNCHANGED <<parent, x, termed, book, locks, socket, sharing, conns, env>>

MayStop_AnyTime(v) == TRUE

\* take_lock_once.
MayStop(v) == lock \in {None, v}

\* The X server is sent SIGTERM.
Kill(v) ==
    /\ child[v] = "stop" /\ MayStop(v)
    /\ lock' = v
    /\ termed' = termed \cup {v}
    /\ ChildGoesTo(v, "nap")
    /\ UNCHANGED <<parent, x, signals, book, perServer, socket, sharing, conns, env>>

\* XSERVER_LOCK_DELAY later ssmSocket is closed, whether the X server has
\* ended or not.
NapOver(v) ==
    /\ child[v] = "nap"
    /\ ChildGoesTo(v, "main")
    /\ hangUp' = hangUp \ {v}
    /\ IF v \notin hangUp THEN UNCHANGED conns
       ELSE IF IsShared(v)
       THEN root' = [root EXCEPT ![v] = "closed"] /\ UNCHANGED <<ssm, avail>>
       ELSE /\ ssm' = [ssm EXCEPT ![v] = "closed"]
            /\ avail' = avail \ {v}
            /\ UNCHANGED root
    /\ UNCHANGED <<parent, xserver, inited, heeded, locks, socket, sharing, env>>

\* The first SIGUSR1: a while later the lock is given up and the SSM told that
\* the X server is available.  When that fails the X server is killed.
Ready(v) ==
    /\ child[v] = "main" /\ "usr1" \in signals[v]
    /\ signals' = [signals EXCEPT ![v] = @ \ {"usr1"}]
    /\ inited' = inited \cup {v}
    /\ lock' = IF lock = v THEN None ELSE lock
    /\ IF IsShared(v) \/ ssm[v] = "closed"
       THEN UNCHANGED <<child, termed, avail>>
       ELSE IF ssmUp
       THEN avail' = avail \cup ({v} \cap owned) /\ UNCHANGED <<child, termed>>
       ELSE termed' = termed \cup {v} /\ ChildGoesTo(v, "reap") /\ UNCHANGED avail
    /\ UNCHANGED <<parent, x, heeded, hangUp, perServer, socket, sharing, ssm, root, env>>

\* waitChildExit, and exit.
Reap(v) ==
    /\ child[v] = "reap" /\ x[v] = "dead"
    /\ ChildExits(v) /\ UnlinkSocket(v)
    /\ UNCHANGED <<parent, x, termed, env>>

\* SIGCHLD: the X server has ended, and the child cleans up after it.
XEnded(v) ==
    /\ child[v] = "main" /\ "chld" \in signals[v] /\ "usr1" \notin signals[v]
    /\ ChildExits(v) /\ UnlinkSocket(v)
    /\ UNCHANGED <<parent, x, termed, env>>

-----------------------------------------------------------------------------
(***************************************************************************)
(* The clients of a wrapper.                                               *)
(***************************************************************************)
Entries(w) == members[w] \cup (awaited \cap {w})
EntriesOf(w, u) == {v \in Entries(w) : UidOf[v] = u}
ACL(s, u) == {v \in owned : SrvOf[v] = s /\ UidOf[v] = u}

Accepting(w, v) ==
    /\ child[w] = "main" /\ w \in inited /\ v \in queue[w]
    /\ root[w] # "closed"

\* getServerConfig gets the X server of any allocation that has it.
HasConfig(w) == ssmUp /\ \E v \in owned : SrvOf[v] = SrvOf[w]

\* Without a configuration the X server is killed, and without the lock.
AcceptFails(w, v) ==
    /\ Accepting(w, v) /\ ~HasConfig(w)
    /\ termed' = termed \cup {w}
    /\ ChildGoesTo(w, "reap")
    /\ UNCHANGED <<parent, x, signals, book, locks, socket, sharing, conns, env>>

Answer(w, v, place) ==
    /\ GoTo(v, place)
    /\ queue' = [queue EXCEPT ![w] = @ \ {v}]
    /\ UNCHANGED <<child, xserver, book, locks, socket, root, env>>

AcceptParent_SecondEntry(w) ==
    /\ Accepting(w, w) /\ HasConfig(w)
    /\ members' = [members EXCEPT ![w] = @ \cup {w}]
    /\ Answer(w, w, "admitted")
    /\ UNCHANGED <<awaited, ssm, avail>>

\* The parent's place has been kept.
AcceptParent(w) ==
    /\ Accepting(w, w) /\ HasConfig(w)
    /\ members' = [members EXCEPT ![w] = @ \cup {w}]
    /\ awaited' = awaited \ {w}
    /\ Answer(w, w, "admitted")
    /\ UNCHANGED <<ssm, avail>>

HasShareLeft_Listed(w, u) == ACL(SrvOf[w], u) # {}

\* A user may connect as often as the X server's owner list names him.
HasShareLeft(w, u) == Cardinality(EntriesOf(w, u)) < Cardinality(ACL(SrvOf[w], u))

\* Every connected client is taken off a copy of the owner list.  The entry of
\* one whose allocation is gone is not found there, and erase(end()) crashes.
EraseCrashes(w) ==
    \E u \in {UidOf[v] : v \in V} :
        Cardinality(EntriesOf(w, u)) > Cardinality(ACL(SrvOf[w], u))

Room(w) == Cardinality(Entries(w)) # MaxClients

Accept(w, v) ==
    /\ Accepting(w, v) /\ HasConfig(w) /\ v # w
    /\ Room(w) /\ ACL(SrvOf[w], UidOf[v]) # {}
    /\ ~EraseCrashes(w) /\ HasShareLeft(w, UidOf[v])
    /\ members' = [members EXCEPT ![w] = @ \cup {v}]
    /\ Answer(w, v, "admitted")
    /\ UNCHANGED <<awaited, ssm, avail>>

\* SHARE_LIMIT_REACHED, CONNECTION_DENIED or ALREADY_CONNECTED.
Refuse(w, v) ==
    /\ Accepting(w, v) /\ HasConfig(w) /\ v # w
    /\ ~Room(w) \/ ACL(SrvOf[w], UidOf[v]) = {}
         \/ (~EraseCrashes(w) /\ ~HasShareLeft(w, UidOf[v]))
    /\ Answer(w, v, "exited")
    /\ ssm' = [ssm EXCEPT ![v] = "closed"]
    /\ avail' = avail \ {v}
    /\ UNCHANGED <<members, awaited>>

\* The wrapper dies and leaves the X server and the socket behind.
AcceptCrashes(w, v) ==
    /\ Accepting(w, v) /\ HasConfig(w) /\ v # w
    /\ Room(w) /\ ACL(SrvOf[w], UidOf[v]) # {} /\ EraseCrashes(w)
    /\ ChildExits(w)
    /\ UNCHANGED <<parent, x, termed, socket, env>>

\* A client has gone.
Disconnected(w, v) ==
    /\ child[w] = "main" /\ w \in inited
    /\ v \in members[w] /\ parent[v] = "exited"
    /\ members' = [members EXCEPT ![w] = @ \ {v}]
    /\ UNCHANGED <<parent, child, xserver, book, locks, socket, queue, awaited, conns, env>>

-----------------------------------------------------------------------------
(***************************************************************************)
(* The X server, and the SSM.                                              *)
(***************************************************************************)
XUp(v) ==
    /\ x[v] = "init"
    /\ x' = [x EXCEPT ![v] = "up"]
    /\ signals' = [signals EXCEPT ![v] = @ \cup {"usr1"}]
    /\ UNCHANGED <<parent, child, termed, book, locks, socket, sharing, conns, env>>

XDies(v) ==
    /\ x[v] \in {"init", "up"} /\ v \in Unstable \cup termed
    /\ x' = [x EXCEPT ![v] = "dead"]
    /\ signals' = [signals EXCEPT ![v] = @ \cup {"chld"}]
    /\ UNCHANGED <<parent, child, termed, book, locks, socket, sharing, conns, env>>

Shut(v) == ssm' = [ssm EXCEPT ![v] = IF @ = "open" THEN "eof" ELSE @]

StopXServer(v) ==
    /\ ssmUp /\ ssm[v] = "open"
    /\ Shut(v)
    /\ UNCHANGED <<parent, child, xserver, book, locks, socket, sharing, root, avail, env>>

Deallocate(v) ==
    /\ ssmUp /\ v \in owned
    /\ owned' = owned \ {v}
    /\ avail' = avail \ {v}
    /\ Shut(v)
    /\ UNCHANGED <<parent, child, xserver, book, locks, socket, sharing, root, ssmUp>>

SsmEnds ==
    /\ SsmMayEnd /\ ssmUp
    /\ ssmUp' = FALSE /\ owned' = {} /\ avail' = {}
    /\ ssm' = [v \in V |-> IF ssm[v] = "open" THEN "eof" ELSE ssm[v]]
    /\ root' = [v \in V |-> IF root[v] = "open" THEN "eof" ELSE root[v]]
    /\ UNCHANGED <<parent, child, xserver, book, locks, socket, sharing>>

-----------------------------------------------------------------------------
Parent(v) == \/ Look(v) \/ Unanswered(v) \/ Fork(v) \/ NapDone(v)
             \/ LetIn(v) \/ WaitOver(v)

Child(v) == \/ BindFails(v) \/ Boot(v)
            \/ SsmEof(v) \/ NobodyLeft(v) \/ ParentGone(v) \/ Term(v)
            \/ Kill(v) \/ NapOver(v) \/ Ready(v) \/ Reap(v) \/ XEnded(v)
            \/ AcceptParent(v)
            \/ \E u \in V : \/ Accept(v, u) \/ Refuse(v, u) \/ AcceptFails(v, u)
                            \/ AcceptCrashes(v, u) \/ Disconnected(v, u)

Outside(v) == \/ Invoke(v) \/ ParentTerm(v) \/ ParentDies(v)
              \/ StopXServer(v) \/ Deallocate(v)

Next == \/ \E v \in V : Parent(v) \/ Child(v) \/ Outside(v) \/ XUp(v) \/ XDies(v)
        \/ SsmEnds

Spec == Init /\ [][Next]_vars

(***************************************************************************)
(* Fairness.  Processes run, flock() lets everyone who waits have a lock   *)
(* in turn, an X server comes up or ends, and ends after SIGTERM.          *)
(***************************************************************************)
Locks(v) == Fork(v) \/ Boot(v) \/ Kill(v)

LiveSpec ==
    /\ Spec
    /\ \A v \in V : /\ WF_vars(Parent(v)) /\ WF_vars(Child(v)) /\ SF_vars(Locks(v))
                    /\ WF_vars(XUp(v)) /\ WF_vars(v \in termed /\ XDies(v))
-----------------------------------------------------------------------------
Alive(v) == x[v] \in {"init", "up"}

\* An X server that was up is stopped with the lock, unless its child gives up
\* on an error; the lock lasts until the X server has ended or its SIGUSR1 is
\* handled (vs-X.cpp:1633, 1720, 2019, 2121 and 2194).
StopsAlone ==
    [][\A v \in termed' : (Alive(v) /\ child[v] # "reap")' /\ lock' # v =>
           v \in termed /\ (lock # v \/ "usr1" \in signals[v])]_vars

\* The lock is released after the stop is complete (the comment at
\* vs-X.cpp:68-70).
StopsWithLock == \A v \in termed : Alive(v) /\ child[v] # "reap" => lock = v

\* A display has one X server, whoever invokes vs-X, gets killed or crashes
\* (vs-X.cpp:1057-1062, 1300-1303).
OneXServer ==
    \A s \in Server : Cardinality({v \in V : SrvOf[v] = s /\ Alive(v)}) <= 1

\* A client let in has a place on the owner list besides those of its user's
\* other clients, and there is room for it (vs-X.cpp:1900-1955).
AdmittedWithinShares ==
    [][\A w \in V : \A v \in members'[w] \ (members[w] \cup {w}) :
           /\ Cardinality(EntriesOf(w, UidOf[v])') <= Cardinality(ACL(SrvOf[v], UidOf[v]))
           /\ Cardinality(Entries(w)') <= MaxClients]_vars

\* An X server that nobody has invoked vs-X for any more ends (the comments at
\* vs-X.cpp:1629 and 2013).
Unwanted(w) ==
    /\ Alive(w)
    /\ \A v \in V : SrvOf[v] = SrvOf[w] => parent[v] \in {"idle", "exited"}

UnwantedEnds == \A w \in V : Unwanted(w) ~> ~Unwanted(w)

\* What the SSM counts as available is not for long without an X server.
Stale(v) == v \in avail /\ \A w \in V : SrvOf[w] = SrvOf[v] => ~Alive(w)

AvailEnds == \A v \in V : Stale(v) ~> ~Stale(v)

\* An invocation that waits for the end and is told to exit by the SSM closes
\* its connection (vs-X.cpp:49 and 269).
WaitersHear ==
    \A v \in V : (ssm[v] = "eof" /\ parent[v] = "wait") ~> ssm[v] = "closed"

\* So does every other one.
AllHear == \A v \in V : ssm[v] = "eof" ~> ssm[v] = "closed"
=============================================================================
