----------------------------- MODULE VsXProofs -----------------------------
(***************************************************************************)
(* Theorems about VsX, for any invocations, displays and users, whoever is *)
(* killed and whatever crashes: a display has one X server, X servers are  *)
(* stopped one at a time, and a wrapper lets nobody in beyond the shares   *)
(* of its user.                                                            *)
(*                                                                         *)
(* The invariant says who has a display: the child that holds its lock, or *)
(* the wrapper whose socket lies there, for as long as the X server runs.  *)
(* Three lemmas say which steps change what it is about at all, and then   *)
(* each part of it has a lemma, with a case for each kind of step.         *)
(***************************************************************************)
EXTENDS VsX, FiniteSetTheorems, TLAPS

USE VsXAssumption DEF locks, sharing, xserver, book, conns, env

Place == {"idle", "look", "knock", "lock", "nap", "admitted", "wait", "exited"}
ConnState == {"none", "open", "eof", "closed"}

\* An invocation forks once, and no X server or client comes before that.
Processes ==
    \A v \in V :
        /\ parent[v] \in {"idle", "look", "lock"} => child[v] = "none"
        /\ child[v] \in {"none", "lock"} => x[v] = "none" /\ v \notin termed
        /\ child[v] \in {"none", "lock", "exited"} => members[v] = {}
        /\ "chld" \in signals[v] => x[v] = "dead"
        /\ "term" \in signals[v] => ~IsShared(v)

\* The lock of a display goes with the child; the X server of a wrapper has the socket,
\* also when the wrapper has crashed, and any other X server has its child.
Keepers ==
    \A v \in V :
        /\ child[v] \notin {"none", "exited"} => perServer[SrvOf[v]] = v
        /\ Alive(v) => IF IsShared(v) THEN socket[SrvOf[v]] = v
                       ELSE child[v] \notin {"none", "exited"}

Sockets ==
    \A s \in Server : \A w \in V : socket[s] = w =>
        IsShared(w) /\ SrvOf[w] = s /\ child[w] \notin {"none", "lock"}

\* Who has knocked waits for one answer, of the wrapper of its display.
Queues ==
    \A w \in V : \A v \in queue[w] :
        /\ IsShared(w) /\ SrvOf[w] = SrvOf[v]
        /\ parent[v] = "knock"
        /\ \A u \in V : v \in queue[u] => u = w

Within == \A w \in V : Cardinality(Entries(w)) <= MaxClients

\* The place of a wrapper's parent is kept until the parent takes it.
ParentsPlace ==
    \A w \in V :
        IsShared(w) /\ child[w] \in {"main", "stop", "nap"} /\ (parent[w] = "nap" \/ w \in queue[w])
            => w \in awaited

\* A wrapper that stops its X server lets nobody in any more.
HangsUp ==
    \A v \in V : IsShared(v) =>
        /\ child[v] \in {"stop", "nap"} => v \in hangUp
        /\ child[v] = "main" /\ v \in termed => root[v] = "closed"

IInv ==
    /\ TypeOK /\ Processes /\ Keepers /\ Sockets /\ Queues
    /\ Within /\ ParentsPlace /\ HangsUp

LEMMA InitInv == Init => IInv
<1> SUFFICES ASSUME Init PROVE IInv
  OBVIOUS
<1>1. TypeOK
  BY DEF Init, TypeOK
<1>2. Processes /\ Keepers /\ Sockets /\ Queues /\ ParentsPlace /\ HangsUp
  BY DEF Init, Processes, Keepers, Alive, Sockets, Queues, ParentsPlace, HangsUp
<1>3. Within
  <2>1. \A w \in V : Entries(w) = {}
    BY DEF Init, Entries
  <2> QED
    BY <2>1, FS_EmptySet DEF Within
<1> QED
  BY <1>1, <1>2, <1>3 DEF IInv
-----------------------------------------------------------------------------
(***************************************************************************)
(* The steps that change some of the variables.                            *)
(***************************************************************************)

\* Knocking and answering.
LEMMA QueueSteps ==
    ASSUME [Next]_vars
    PROVE  \/ UNCHANGED <<parent, queue>>
           \/ \E v \in V : \/ Look(v) \/ NapDone(v) \/ Unanswered(v) \/ Fork(v) \/ LetIn(v)
                           \/ Invoke(v) \/ WaitOver(v) \/ ParentTerm(v) \/ ParentDies(v)
                           \/ BindFails(v) \/ Reap(v) \/ XEnded(v) \/ AcceptParent(v)
           \/ \E w, v \in V : Accept(w, v) \/ Refuse(w, v) \/ AcceptCrashes(w, v)
<1>1. ASSUME NEW v \in V, NEW u \in V,
             \/ Boot(v) \/ SsmEof(v) \/ NobodyLeft(v) \/ ParentGone(v) \/ Term(v) \/ Kill(v)
             \/ NapOver(v) \/ Ready(v) \/ Disconnected(v, u) \/ AcceptFails(v, u)
             \/ XUp(v) \/ XDies(v) \/ StopXServer(v) \/ Deallocate(v)
      PROVE  UNCHANGED <<parent, queue>>
  BY <1>1 DEF Boot, SsmEof, NobodyLeft, ParentGone, Term, Kill, NapOver, Ready, Disconnected,
              AcceptFails, XUp, XDies, StopXServer, Deallocate
<1>2. SsmEnds \/ UNCHANGED vars => UNCHANGED <<parent, queue>>
  BY DEF SsmEnds, vars
<1> QED
  BY <1>1, <1>2 DEF Next, Parent, Child, Outside

\* The clients of a wrapper.
LEMMA ClientSteps ==
    ASSUME [Next]_vars
    PROVE  \/ UNCHANGED <<members, awaited>>
           \/ \E v \in V : Boot(v) \/ BindFails(v) \/ Reap(v) \/ XEnded(v) \/ AcceptParent(v)
           \/ \E w, v \in V : Accept(w, v) \/ AcceptCrashes(w, v) \/ Disconnected(w, v)
<1>1. ASSUME NEW v \in V, Parent(v) \/ Outside(v) \/ XUp(v) \/ XDies(v)
      PROVE  UNCHANGED <<members, awaited>>
  BY <1>1 DEF Parent, Look, Knock, Unanswered, Fork, NapDone, LetIn, WaitOver, Outside, Invoke,
              ParentTerm, ParentDies, StopXServer, Deallocate, ParentExits, XUp, XDies
<1>2. ASSUME NEW v \in V, NEW u \in V,
             \/ SsmEof(v) \/ NobodyLeft(v) \/ ParentGone(v) \/ Term(v) \/ Kill(v) \/ NapOver(v)
             \/ Ready(v) \/ Refuse(v, u) \/ AcceptFails(v, u)
      PROVE  UNCHANGED <<members, awaited>>
  BY <1>2 DEF SsmEof, NobodyLeft, ParentGone, Term, Kill, NapOver, Ready, Refuse, AcceptFails
<1>3. SsmEnds \/ UNCHANGED vars => UNCHANGED <<members, awaited>>
  BY DEF SsmEnds, vars
<1> QED
  BY <1>1, <1>2, <1>3 DEF Next, Child

\* The lock of the node, and who has been sent SIGTERM.
LEMMA StopSteps ==
    ASSUME [Next]_vars
    PROVE  \/ UNCHANGED <<termed, lock>>
           \/ \E v \in V : \/ Boot(v) \/ Kill(v) \/ Ready(v)
                           \/ BindFails(v) \/ Reap(v) \/ XEnded(v)
           \/ \E w, v \in V : AcceptFails(w, v) \/ AcceptCrashes(w, v)
<1>1. ASSUME NEW v \in V, Parent(v) \/ Outside(v) \/ XUp(v) \/ XDies(v)
      PROVE  UNCHANGED <<termed, lock>>
  BY <1>1 DEF Parent, Look, Knock, Unanswered, Fork, NapDone, LetIn, WaitOver, Outside, Invoke,
              ParentTerm, ParentDies, StopXServer, Deallocate, ParentExits, XUp, XDies
<1>2. ASSUME NEW v \in V, NEW u \in V,
             \/ SsmEof(v) \/ NobodyLeft(v) \/ ParentGone(v) \/ Term(v) \/ NapOver(v)
             \/ AcceptParent(v) \/ Accept(v, u) \/ Refuse(v, u) \/ Disconnected(v, u)
      PROVE  UNCHANGED <<termed, lock>>
  BY <1>2 DEF SsmEof, NobodyLeft, ParentGone, Term, NapOver, AcceptParent, Accept, Refuse,
              Answer, Disconnected
<1>3. SsmEnds \/ UNCHANGED vars => UNCHANGED <<termed, lock>>
  BY DEF SsmEnds, vars
<1> QED
  BY <1>1, <1>2, <1>3 DEF Next, Child
-----------------------------------------------------------------------------
(***************************************************************************)
(* Types.                                                                  *)
(***************************************************************************)

\* The end of the invoked process.
LEMMA ParentExitsTypes ==
    ASSUME TypeOK, NEW v \in V, parent[v] # "idle", ParentExits(v)
    PROVE  TypeOK'
<1>1. queue' \in [V -> SUBSET V]
  BY DEF ParentExits, TypeOK
<1> QED
  BY <1>1 DEF ParentExits, GoTo, TypeOK

\* The end of its child.
LEMMA ChildExitsTypes ==
    ASSUME TypeOK, Processes, NEW v \in V, child[v] # "none", ChildExits(v),
           UNCHANGED <<parent, x, termed, env>>, socket' \in [Server -> V \cup {None}]
    PROVE  TypeOK'
<1>1. perServer' \in [Server -> V \cup {None}] /\ lock' \in V \cup {None}
  BY DEF ChildExits, TypeOK
<1>2. ssm' \in [V -> ConnState] /\ root' \in [V -> ConnState]
  BY DEF ChildExits, TypeOK, ConnState
<1>3. \A u \in V : ssm'[u] = "none" <=> parent'[u] = "idle"
  BY DEF ChildExits, TypeOK, Processes
<1>4. /\ queue' \in [V -> SUBSET V] /\ members' \in [V -> SUBSET V]
      /\ awaited' \subseteq V /\ avail' \subseteq V
  BY DEF ChildExits, TypeOK
<1>5. /\ child' \in [V -> {"none", "lock", "main", "stop", "nap", "reap", "exited"}]
      /\ signals' \in [V -> SUBSET {"usr1", "chld", "term"}]
  BY DEF ChildExits, ChildGoesTo, TypeOK
<1>6. inited' \subseteq V /\ heeded' \subseteq V /\ hangUp' \subseteq V
  BY DEF ChildExits, TypeOK
<1> QED
  BY <1>1, <1>2, <1>3, <1>4, <1>5, <1>6 DEF TypeOK, ConnState

\* The answer of a wrapper.
LEMMA AnswerTypes ==
    ASSUME TypeOK, Queues, NEW w \in V, NEW v \in V, Accepting(w, v),
           NEW place \in {"admitted", "exited"}, Answer(w, v, place)
    PROVE  /\ queue' \in [V -> SUBSET V] /\ parent' \in [V -> Place]
           /\ parent[v] = "knock"
           /\ \A u \in V : parent'[u] = "idle" <=> parent[u] = "idle"
BY DEF Accepting, Answer, GoTo, TypeOK, Queues, Place

LEMMA TypeKept ==
    ASSUME TypeOK, Processes, Queues, [Next]_vars
    PROVE  TypeOK'
<1>1. ASSUME NEW v \in V, Look(v) \/ Fork(v) \/ Invoke(v) PROVE TypeOK'
  BY <1>1 DEF Look, Knock, NoWrapper, Fork, Invoke, GoTo, TypeOK
<1>2. ASSUME NEW v \in V, Unanswered(v) \/ NapDone(v) PROVE TypeOK'
  BY <1>2, ParentExitsTypes DEF Unanswered, NapDone, Knock, GoTo, TypeOK
<1>3. ASSUME NEW v \in V, LetIn(v) \/ WaitOver(v) PROVE TypeOK'
  BY <1>3, ParentExitsTypes DEF LetIn, WaitOver, GoTo, TypeOK
<1>4. ASSUME NEW v \in V, ParentTerm(v) \/ ParentDies(v) PROVE TypeOK'
  BY <1>4, ParentExitsTypes DEF ParentTerm, ParentDies, TypeOK
<1>5. ASSUME NEW v \in V, BindFails(v) \/ Reap(v) \/ XEnded(v) PROVE TypeOK'
  <2>1. socket' \in [Server -> V \cup {None}]
    BY <1>5 DEF BindFails, Reap, XEnded, UnlinkSocket, TypeOK
  <2> QED
    BY <1>5, <2>1, ChildExitsTypes DEF BindFails, Reap, XEnded
<1>6. ASSUME NEW v \in V, Boot(v) PROVE TypeOK'
  BY <1>6 DEF Boot, CanBind, ChildGoesTo, TypeOK, Processes
<1>7. ASSUME NEW v \in V, SsmEof(v) \/ NobodyLeft(v) \/ ParentGone(v) \/ Term(v) PROVE TypeOK'
  BY <1>7 DEF SsmEof, NobodyLeft, ParentGone, Term, Stop, ChildGoesTo, TypeOK
<1>8. ASSUME NEW v \in V, Kill(v) \/ Ready(v) PROVE TypeOK'
  BY <1>8 DEF Kill, Ready, ChildGoesTo, TypeOK
<1>9. ASSUME NEW v \in V, NapOver(v) PROVE TypeOK'
  BY <1>9 DEF NapOver, ChildGoesTo, TypeOK, Processes
<1>10. ASSUME NEW w \in V, AcceptParent(w) PROVE TypeOK'
  <2>1. members' \in [V -> SUBSET V] /\ awaited' \subseteq V
    BY <1>10 DEF AcceptParent, TypeOK
  <2> QED
    BY <1>10, <2>1, AnswerTypes DEF AcceptParent, Answer, TypeOK, Place
<1>11. ASSUME NEW w \in V, NEW v \in V, Accept(w, v) PROVE TypeOK'
  <2>1. members' \in [V -> SUBSET V]
    BY <1>11 DEF Accept, TypeOK
  <2> QED
    BY <1>11, <2>1, AnswerTypes DEF Accept, Answer, TypeOK, Place
<1>12. ASSUME NEW w \in V, NEW v \in V, Refuse(w, v) PROVE TypeOK'
  <2>1. /\ ssm' \in [V -> ConnState] /\ avail' \subseteq V
        /\ \A u \in V : ssm'[u] = "none" <=> parent'[u] = "idle"
    BY <1>12, AnswerTypes DEF Refuse, TypeOK, ConnState
  <2> QED
    BY <1>12, <2>1, AnswerTypes DEF Refuse, Answer, TypeOK, Place, ConnState
<1>13. ASSUME NEW w \in V, NEW v \in V, AcceptFails(w, v) \/ Disconnected(w, v) PROVE TypeOK'
  BY <1>13 DEF AcceptFails, Disconnected, ChildGoesTo, TypeOK
<1>14. ASSUME NEW w \in V, NEW v \in V, AcceptCrashes(w, v) PROVE TypeOK'
  BY <1>14, ChildExitsTypes DEF AcceptCrashes, Accepting, TypeOK
<1>15. ASSUME NEW v \in V, XUp(v) \/ XDies(v) \/ StopXServer(v) \/ Deallocate(v) PROVE TypeOK'
  BY <1>15 DEF XUp, XDies, StopXServer, Deallocate, Shut, TypeOK
<1>16. CASE SsmEnds
  BY <1>16 DEF SsmEnds, TypeOK
<1>17. CASE UNCHANGED vars
  BY <1>17 DEF vars, TypeOK
<1> QED
  BY <1>1, <1>2, <1>3, <1>4, <1>5, <1>6, <1>7, <1>8, <1>9, <1>10, <1>11, <1>12, <1>13, <1>14,
     <1>15, <1>16, <1>17 DEF Next, Parent, Child, Outside
-----------------------------------------------------------------------------
(***************************************************************************)
(* Processes, the X servers they run, and what shows that a display is     *)
(* taken.                                                                  *)
(***************************************************************************)

LEMMA ProcessesKept ==
    ASSUME Processes, TypeOK, Queues, [Next]_vars
    PROVE  Processes'
<1>1. ASSUME NEW v \in V, Parent(v) PROVE Processes'
  BY <1>1 DEF Parent, Look, Knock, NoWrapper, Unanswered, Fork, NapDone, LetIn, WaitOver,
              ParentExits, GoTo, Processes, TypeOK, Queues, IsShared
<1>2. ASSUME NEW v \in V, BindFails(v) \/ Reap(v) \/ XEnded(v) PROVE Processes'
  BY <1>2 DEF BindFails, Reap, XEnded, ChildExits, UnlinkSocket, ChildGoesTo, Processes, TypeOK,
              Queues, IsShared
<1>3. ASSUME NEW v \in V, Boot(v) PROVE Processes'
  BY <1>3 DEF Boot, CanBind, ChildGoesTo, Processes, TypeOK, Queues, IsShared
<1>4. ASSUME NEW v \in V, SsmEof(v) \/ NobodyLeft(v) \/ ParentGone(v) \/ Term(v) PROVE Processes'
  BY <1>4 DEF SsmEof, NobodyLeft, ParentGone, Term, Stop, ChildGoesTo, Processes, TypeOK, Queues,
              IsShared
<1>5. ASSUME NEW v \in V, Kill(v) \/ NapOver(v) \/ Ready(v) PROVE Processes'
  BY <1>5 DEF Kill, NapOver, Ready, ChildGoesTo, Processes, TypeOK, Queues, IsShared
<1>6. ASSUME NEW w \in V, NEW v \in V,
             AcceptParent(w) \/ Accept(w, v) \/ Refuse(w, v) \/ Disconnected(w, v)
      PROVE  Processes'
  BY <1>6 DEF AcceptParent, Accept, Refuse, Disconnected, Accepting, Answer, GoTo, Processes,
              TypeOK, Queues, IsShared
<1>7. ASSUME NEW w \in V, NEW v \in V, AcceptFails(w, v) \/ AcceptCrashes(w, v) PROVE Processes'
  BY <1>7 DEF AcceptFails, AcceptCrashes, Accepting, ChildExits, ChildGoesTo, Processes, TypeOK,
              Queues, IsShared
<1>8. ASSUME NEW v \in V, Outside(v) PROVE Processes'
  BY <1>8 DEF Outside, Invoke, ParentTerm, ParentDies, StopXServer, Deallocate, Shut, ParentExits,
              GoTo, Processes, TypeOK, Queues, IsShared
<1>9. ASSUME NEW v \in V, XUp(v) \/ XDies(v) PROVE Processes'
  BY <1>9 DEF XUp, XDies, Processes, TypeOK, Queues, IsShared
<1>10. CASE SsmEnds \/ UNCHANGED vars
  BY <1>10 DEF SsmEnds, vars, Processes, TypeOK, Queues, IsShared
<1> QED
  BY <1>1, <1>2, <1>3, <1>4, <1>5, <1>6, <1>7, <1>8, <1>9, <1>10 DEF Next, Child

LEMMA SocketsKept ==
    ASSUME Sockets, TypeOK, Processes, [Next]_vars
    PROVE  Sockets'
<1>1. ASSUME NEW v \in V, Parent(v) PROVE Sockets'
  BY <1>1 DEF Parent, Look, Knock, NoWrapper, Unanswered, Fork, NapDone, LetIn, WaitOver,
              ParentExits, GoTo, Sockets, TypeOK, Processes, IsShared
<1>2. ASSUME NEW v \in V, BindFails(v) \/ Reap(v) \/ XEnded(v) PROVE Sockets'
  BY <1>2 DEF BindFails, Reap, XEnded, ChildExits, UnlinkSocket, ChildGoesTo, Sockets, TypeOK,
              Processes, IsShared
<1>3. ASSUME NEW v \in V, Boot(v) PROVE Sockets'
  BY <1>3 DEF Boot, CanBind, ChildGoesTo, Sockets, TypeOK, Processes, IsShared
<1>4. ASSUME NEW v \in V, SsmEof(v) \/ NobodyLeft(v) \/ ParentGone(v) \/ Term(v) PROVE Sockets'
  BY <1>4 DEF SsmEof, NobodyLeft, ParentGone, Term, Stop, ChildGoesTo, Sockets, TypeOK, Processes,
              IsShared
<1>5. ASSUME NEW v \in V, Kill(v) \/ NapOver(v) \/ Ready(v) PROVE Sockets'
  BY <1>5 DEF Kill, NapOver, Ready, ChildGoesTo, Sockets, TypeOK, Processes, IsShared
<1>6. ASSUME NEW w \in V, NEW v \in V,
             AcceptParent(w) \/ Accept(w, v) \/ Refuse(w, v) \/ Disconnected(w, v)
      PROVE  Sockets'
  BY <1>6 DEF AcceptParent, Accept, Refuse, Disconnected, Accepting, Answer, GoTo, Sockets,
              TypeOK, Processes, IsShared
<1>7. ASSUME NEW w \in V, NEW v \in V, AcceptFails(w, v) \/ AcceptCrashes(w, v) PROVE Sockets'
  BY <1>7 DEF AcceptFails, AcceptCrashes, Accepting, ChildExits, ChildGoesTo, Sockets, TypeOK,
              Processes, IsShared
<1>8. ASSUME NEW v \in V, Outside(v) PROVE Sockets'
  BY <1>8 DEF Outside, Invoke, ParentTerm, ParentDies, StopXServer, Deallocate, Shut, ParentExits,
              GoTo, Sockets, TypeOK, Processes, IsShared
<1>9. ASSUME NEW v \in V, XUp(v) \/ XDies(v) PROVE Sockets'
  BY <1>9 DEF XUp, XDies, Sockets, TypeOK, Processes, IsShared
<1>10. CASE SsmEnds \/ UNCHANGED vars
  BY <1>10 DEF SsmEnds, vars, Sockets, TypeOK, Processes, IsShared
<1> QED
  BY <1>1, <1>2, <1>3, <1>4, <1>5, <1>6, <1>7, <1>8, <1>9, <1>10 DEF Next, Child

LEMMA KeepersKept ==
    ASSUME Keepers, TypeOK, Processes, Sockets, Queues, [Next]_vars
    PROVE  Keepers'
<1>1. ASSUME NEW v \in V, Parent(v) PROVE Keepers'
  BY <1>1 DEF Parent, Look, Knock, NoWrapper, Unanswered, Fork, NapDone, LetIn, WaitOver,
              ParentExits, GoTo, Keepers, TypeOK, Processes, Sockets, Queues, Alive, IsShared
<1>2. ASSUME NEW v \in V, BindFails(v) \/ Reap(v) \/ XEnded(v) PROVE Keepers'
  BY <1>2 DEF BindFails, Reap, XEnded, ChildExits, UnlinkSocket, ChildGoesTo, Keepers, TypeOK,
              Processes, Sockets, Queues, Alive, IsShared
<1>3. ASSUME NEW v \in V, Boot(v) PROVE Keepers'
  BY <1>3 DEF Boot, CanBind, ChildGoesTo, Keepers, TypeOK, Processes, Sockets, Queues, Alive,
              IsShared
<1>4. ASSUME NEW v \in V, SsmEof(v) \/ NobodyLeft(v) \/ ParentGone(v) \/ Term(v) PROVE Keepers'
  BY <1>4 DEF SsmEof, NobodyLeft, ParentGone, Term, Stop, ChildGoesTo, Keepers, TypeOK, Processes,
              Sockets, Queues, Alive, IsShared
<1>5. ASSUME NEW v \in V, Kill(v) \/ NapOver(v) \/ Ready(v) PROVE Keepers'
  BY <1>5 DEF Kill, NapOver, Ready, ChildGoesTo, Keepers, TypeOK, Processes, Sockets, Queues,
              Alive, IsShared
<1>6. ASSUME NEW w \in V, NEW v \in V,
             AcceptParent(w) \/ Accept(w, v) \/ Refuse(w, v) \/ Disconnected(w, v)
      PROVE  Keepers'
  BY <1>6 DEF AcceptParent, Accept, Refuse, Disconnected, Accepting, Answer, GoTo, Keepers,
              TypeOK, Processes, Sockets, Queues, Alive, IsShared
<1>7. ASSUME NEW w \in V, NEW v \in V, AcceptFails(w, v) \/ AcceptCrashes(w, v) PROVE Keepers'
  BY <1>7 DEF AcceptFails, AcceptCrashes, Accepting, ChildExits, ChildGoesTo, Keepers, TypeOK,
              Processes, Sockets, Queues, Alive, IsShared
<1>8. ASSUME NEW v \in V, Outside(v) PROVE Keepers'
  BY <1>8 DEF Outside, Invoke, ParentTerm, ParentDies, StopXServer, Deallocate, Shut, ParentExits,
              GoTo, Keepers, TypeOK, Processes, Sockets, Queues, Alive, IsShared
<1>9. ASSUME NEW v \in V, XUp(v) \/ XDies(v) PROVE Keepers'
  BY <1>9 DEF XUp, XDies, Keepers, TypeOK, Processes, Sockets, Queues, Alive, IsShared
<1>10. CASE SsmEnds \/ UNCHANGED vars
  BY <1>10 DEF SsmEnds, vars, Keepers, TypeOK, Processes, Sockets, Queues, Alive, IsShared
<1> QED
  BY <1>1, <1>2, <1>3, <1>4, <1>5, <1>6, <1>7, <1>8, <1>9, <1>10 DEF Next, Child

LEMMA HangsUpKept ==
    ASSUME HangsUp, TypeOK, Processes, Queues, [Next]_vars
    PROVE  HangsUp'
<1>1. ASSUME NEW v \in V, Parent(v) PROVE HangsUp'
  BY <1>1 DEF Parent, Look, Knock, NoWrapper, Unanswered, Fork, NapDone, LetIn, WaitOver,
              ParentExits, GoTo, HangsUp, TypeOK, Processes, Queues, IsShared
<1>2. ASSUME NEW v \in V, BindFails(v) \/ Reap(v) \/ XEnded(v) PROVE HangsUp'
  BY <1>2 DEF BindFails, Reap, XEnded, ChildExits, UnlinkSocket, ChildGoesTo, HangsUp, TypeOK,
              Processes, Queues, IsShared
<1>3. ASSUME NEW v \in V, Boot(v) PROVE HangsUp'
  BY <1>3 DEF Boot, CanBind, ChildGoesTo, HangsUp, TypeOK, Processes, Queues, IsShared
<1>4. ASSUME NEW v \in V, SsmEof(v) \/ NobodyLeft(v) \/ ParentGone(v) \/ Term(v) PROVE HangsUp'
  BY <1>4 DEF SsmEof, NobodyLeft, ParentGone, Term, Stop, ChildGoesTo, HangsUp, TypeOK, Processes,
              Queues, IsShared
<1>5. ASSUME NEW v \in V, Kill(v) \/ NapOver(v) \/ Ready(v) PROVE HangsUp'
  BY <1>5 DEF Kill, NapOver, Ready, ChildGoesTo, HangsUp, TypeOK, Processes, Queues, IsShared
<1>6. ASSUME NEW w \in V, NEW v \in V,
             AcceptParent(w) \/ Accept(w, v) \/ Refuse(w, v) \/ Disconnected(w, v)
      PROVE  HangsUp'
  BY <1>6 DEF AcceptParent, Accept, Refuse, Disconnected, Accepting, Answer, GoTo, HangsUp,
              TypeOK, Processes, Queues, IsShared
<1>7. ASSUME NEW w \in V, NEW v \in V, AcceptFails(w, v) \/ AcceptCrashes(w, v) PROVE HangsUp'
  BY <1>7 DEF AcceptFails, AcceptCrashes, Accepting, ChildExits, ChildGoesTo, HangsUp, TypeOK,
              Processes, Queues, IsShared
<1>8. ASSUME NEW v \in V, Outside(v) PROVE HangsUp'
  BY <1>8 DEF Outside, Invoke, ParentTerm, ParentDies, StopXServer, Deallocate, Shut, ParentExits,
              GoTo, HangsUp, TypeOK, Processes, Queues, IsShared
<1>9. ASSUME NEW v \in V, XUp(v) \/ XDies(v) PROVE HangsUp'
  BY <1>9 DEF XUp, XDies, HangsUp, TypeOK, Processes, Queues, IsShared
<1>10. CASE SsmEnds \/ UNCHANGED vars
  BY <1>10 DEF SsmEnds, vars, HangsUp, TypeOK, Processes, Queues, IsShared
<1> QED
  BY <1>1, <1>2, <1>3, <1>4, <1>5, <1>6, <1>7, <1>8, <1>9, <1>10 DEF Next, Child
-----------------------------------------------------------------------------
(***************************************************************************)
(* Parents that knock, and clients that have been let in.                  *)
(***************************************************************************)

LEMMA QueuesKept ==
    ASSUME TypeOK, Sockets, Queues, [Next]_vars
    PROVE  Queues'
<1>1. ASSUME NEW v \in V, NEW w \in V, Look(v) \/ NapDone(v), Knock(v, w) PROVE Queues'
  BY <1>1 DEF Look, NapDone, Knock, GoTo, TypeOK, Sockets, Queues, IsShared
<1>2. ASSUME NEW v \in V, \A w \in V : v \notin queue[w], GoTo(v, "lock"), UNCHANGED queue
      PROVE  Queues'
  BY <1>2 DEF GoTo, TypeOK, Queues
<1>3. ASSUME NEW v \in V, ParentExits(v) PROVE Queues'
  BY <1>3 DEF ParentExits, GoTo, TypeOK, Queues
<1>4. ASSUME NEW v \in V, ChildExits(v), UNCHANGED parent PROVE Queues'
  BY <1>4 DEF ChildExits, TypeOK, Queues
<1>5. ASSUME NEW w \in V, NEW v \in V, Accepting(w, v), NEW place, Answer(w, v, place)
      PROVE  Queues'
  BY <1>5 DEF Accepting, Answer, GoTo, TypeOK, Queues
<1>6. CASE UNCHANGED <<parent, queue>>
  BY <1>6 DEF Queues
<1>7. ASSUME NEW v \in V, Look(v) \/ NapDone(v) PROVE Queues'
  BY <1>1, <1>2, <1>3, <1>7 DEF Look, NapDone, Queues
<1>8. ASSUME NEW v \in V, Unanswered(v) PROVE Queues'
  BY <1>2, <1>3, <1>8 DEF Unanswered
<1>9. ASSUME NEW v \in V, Fork(v) \/ LetIn(v) \/ Invoke(v) PROVE Queues'
  BY <1>3, <1>9 DEF Fork, LetIn, Invoke, GoTo, TypeOK, Queues
<1>10. ASSUME NEW v \in V, WaitOver(v) \/ ParentTerm(v) \/ ParentDies(v) PROVE Queues'
  BY <1>3, <1>6, <1>10 DEF WaitOver, ParentTerm, ParentDies
<1>11. ASSUME NEW w \in V, NEW v \in V, BindFails(w) \/ Reap(w) \/ XEnded(w) \/ AcceptCrashes(w, v)
       PROVE  Queues'
  BY <1>4, <1>11 DEF BindFails, Reap, XEnded, AcceptCrashes
<1>12. ASSUME NEW w \in V, NEW v \in V, AcceptParent(w) \/ Accept(w, v) \/ Refuse(w, v)
       PROVE  Queues'
  BY <1>5, <1>12 DEF AcceptParent, Accept, Refuse
<1> QED
  BY <1>6, <1>7, <1>8, <1>9, <1>10, <1>11, <1>12, QueueSteps

LEMMA ParentsPlaceKept ==
    ASSUME TypeOK, Processes, Sockets, Queues, ParentsPlace, [Next]_vars
    PROVE  ParentsPlace'
<1>1. ASSUME NEW v \in V, Look(v) \/ Fork(v) \/ LetIn(v) \/ WaitOver(v) PROVE ParentsPlace'
  BY <1>1 DEF Look, Knock, NoWrapper, Fork, LetIn, WaitOver, ParentExits, GoTo,
              TypeOK, Processes, Sockets, ParentsPlace
<1>2. ASSUME NEW v \in V, Unanswered(v) \/ NapDone(v) PROVE ParentsPlace'
  BY <1>2 DEF Unanswered, NapDone, Knock, ParentExits, GoTo, TypeOK, Processes, ParentsPlace, Queues
<1>3. ASSUME NEW v \in V, Outside(v) \/ XUp(v) \/ XDies(v) PROVE ParentsPlace'
  BY <1>3 DEF Outside, Invoke, ParentTerm, ParentDies, StopXServer, Deallocate, XUp, XDies,
              ParentExits, GoTo, TypeOK, ParentsPlace
<1>4. ASSUME NEW v \in V, BindFails(v) \/ Reap(v) \/ XEnded(v) PROVE ParentsPlace'
  BY <1>4 DEF BindFails, Reap, XEnded, ChildExits, ChildGoesTo, TypeOK, ParentsPlace
<1>5. ASSUME NEW v \in V, Boot(v) PROVE ParentsPlace'
  BY <1>5 DEF Boot, ChildGoesTo, TypeOK, ParentsPlace
<1>6. ASSUME NEW v \in V, SsmEof(v) \/ NobodyLeft(v) \/ ParentGone(v) \/ Term(v) PROVE ParentsPlace'
  BY <1>6 DEF SsmEof, NobodyLeft, ParentGone, Term, Stop, ChildGoesTo, TypeOK, ParentsPlace
<1>7. ASSUME NEW v \in V, Kill(v) \/ NapOver(v) \/ Ready(v) PROVE ParentsPlace'
  BY <1>7 DEF Kill, NapOver, Ready, ChildGoesTo, TypeOK, ParentsPlace
<1>8. ASSUME NEW w \in V, NEW v \in V,
             AcceptParent(w) \/ Accept(w, v) \/ Refuse(w, v) \/ Disconnected(w, v)
      PROVE  ParentsPlace'
  BY <1>8 DEF AcceptParent, Accept, Refuse, Accepting, Disconnected, Answer, GoTo,
              TypeOK, ParentsPlace, Queues
<1>9. ASSUME NEW w \in V, NEW v \in V, AcceptFails(w, v) \/ AcceptCrashes(w, v)
      PROVE  ParentsPlace'
  BY <1>9 DEF AcceptFails, AcceptCrashes, ChildExits, ChildGoesTo, TypeOK, ParentsPlace
<1>10. SsmEnds \/ UNCHANGED vars => ParentsPlace'
  BY DEF SsmEnds, vars, ParentsPlace
<1> QED
  BY <1>1, <1>2, <1>3, <1>4, <1>5, <1>6, <1>7, <1>8, <1>9, <1>10 DEF Next, Parent, Child

\* A wrapper with fewer clients has no more than before.
LEMMA Fewer ==
    ASSUME TypeOK, Within, NEW w \in V, Entries(w)' \subseteq Entries(w)
    PROVE  Cardinality(Entries(w)') <= MaxClients
<1>1. IsFiniteSet(Entries(w))
  BY FS_Subset DEF Entries, TypeOK
<1> QED
  BY <1>1, FS_Subset, FS_CardinalityType DEF Within

LEMMA WithinKept ==
    ASSUME TypeOK, Processes, Queues, Within, ParentsPlace, [Next]_vars
    PROVE  Within'
<1>1. ASSUME NEW v \in V, Boot(v) PROVE Within'
  <2>1. Entries(v)' \subseteq {v}
    BY <1>1 DEF Boot, TypeOK, Processes, Entries
  <2>2. Cardinality(Entries(v)') <= MaxClients
    <3>1. IsFiniteSet({v}) /\ Cardinality({v}) = 1
      BY FS_Singleton
    <3>2. IsFiniteSet(Entries(v)') /\ Cardinality(Entries(v)') <= 1
      BY <2>1, <3>1, FS_Subset
    <3> QED
      BY <3>2, FS_CardinalityType
  <2>3. ASSUME NEW w \in V \ {v} PROVE Entries(w)' \subseteq Entries(w)
    BY <1>1 DEF Boot, Entries
  <2> QED
    BY <2>2, <2>3, Fewer DEF Within
<1>2. ASSUME NEW w \in V, NEW v \in V, Accept(w, v) PROVE Within'
  <2>1. Entries(w)' = Entries(w) \cup {v} /\ \A u \in V \ {w} : Entries(u)' = Entries(u)
    BY <1>2 DEF Accept, TypeOK, Entries, Answer
  <2>2. IsFiniteSet(Entries(w))
    BY FS_Subset DEF Entries, TypeOK
  <2>3. Cardinality(Entries(w)) < MaxClients
    BY <1>2, <2>2, FS_CardinalityType DEF Accept, Room, Within
  <2>4. Cardinality(Entries(w)') \in {Cardinality(Entries(w)), Cardinality(Entries(w)) + 1}
    BY <2>1, <2>2, FS_AddElement
  <2>5. Cardinality(Entries(w)') <= MaxClients
    BY <2>2, <2>3, <2>4, FS_CardinalityType
  <2>6. \A u \in V \ {w} : Cardinality(Entries(u)') <= MaxClients
    BY <2>1 DEF Within
  <2> QED
    BY <2>5, <2>6 DEF Within
<1>3. ASSUME NEW w \in V, AcceptParent(w) PROVE Within'
  <2>1. w \in awaited
    BY <1>3 DEF AcceptParent, Accepting, ParentsPlace, Queues
  <2>2. \A u \in V : Entries(u)' \subseteq Entries(u)
    BY <1>3, <2>1 DEF AcceptParent, TypeOK, Entries, Answer
  <2> QED
    BY <2>2, Fewer DEF Within
<1>4. ASSUME NEW w \in V, NEW v \in V,
             BindFails(w) \/ Reap(w) \/ XEnded(w) \/ AcceptCrashes(w, v) \/ Disconnected(w, v)
      PROVE  Within'
  <2>1. \A u \in V : Entries(u)' \subseteq Entries(u)
    BY <1>4 DEF BindFails, Reap, XEnded, AcceptCrashes, Disconnected, ChildExits, TypeOK, Entries
  <2> QED
    BY <2>1, Fewer DEF Within
<1>5. CASE UNCHANGED <<members, awaited>>
  BY <1>5 DEF Within, Entries
<1> QED
  BY <1>1, <1>2, <1>3, <1>4, <1>5, ClientSteps
-----------------------------------------------------------------------------
(***************************************************************************)
(* The theorems.                                                           *)
(***************************************************************************)

LEMMA NextKeeps == IInv /\ [Next]_vars => IInv'
<1> SUFFICES ASSUME IInv, [Next]_vars PROVE IInv'
  OBVIOUS
<1>1. TypeOK' /\ Processes' /\ Sockets' /\ Keepers'
  BY TypeKept, ProcessesKept, SocketsKept, KeepersKept DEF IInv
<1>2. Queues' /\ ParentsPlace' /\ Within' /\ HangsUp'
  BY QueuesKept, ParentsPlaceKept, WithinKept, HangsUpKept DEF IInv
<1> QED
  BY <1>1, <1>2 DEF IInv

\* The inductive invariant: who has a display, who waits for it and who has been let in.
THEOREM VsXInvariance == Spec => []IInv
  BY InitInv, NextKeeps, PTL DEF Spec

\* A display has one X server, whoever invokes vs-X, gets killed or crashes
\* (vs-X.cpp:1057-1062, 1300-1303).
THEOREM OneXServerEach == Spec => []OneXServer
<1>1. ASSUME IInv PROVE OneXServer
  <2>1. ASSUME NEW s \in Server
        PROVE  Cardinality({v \in V : SrvOf[v] = s /\ Alive(v)}) <= 1
    <3> DEFINE running == {v \in V : SrvOf[v] = s /\ Alive(v)}
    <3>1. \A v, w \in running : v = w
      BY <1>1 DEF IInv, Keepers, IsShared
    <3>2. CASE running = {}
      BY <3>2, FS_EmptySet
    <3>3. ASSUME NEW v \in running PROVE Cardinality(running) <= 1
      <4>1. running = {v}
        BY <3>1
      <4> QED
        BY <4>1, FS_Singleton
    <3> QED
      BY <3>2, <3>3
  <2> QED
    BY <2>1 DEF OneXServer
<1> QED
  BY VsXInvariance, <1>1, PTL

\* An X server that was up is stopped with the lock of the node, which lasts until it has
\* ended or its SIGUSR1 is handled (vs-X.cpp:1633, 1720, 2019, 2121 and 2194).
THEOREM StopsOneByOne == Spec => StopsAlone
<1>1. ASSUME IInv, [Next]_vars, NEW v \in termed', (Alive(v) /\ child[v] # "reap")', lock' # v
      PROVE  v \in termed /\ (lock # v \/ "usr1" \in signals[v])
  <2> DEFINE Goal == v \in termed /\ (lock # v \/ "usr1" \in signals[v])
  <2>1. TypeOK /\ Processes /\ Queues /\ HangsUp /\ v \in V
    BY <1>1, TypeKept DEF IInv, TypeOK
  <2>2. ASSUME NEW w \in V, Boot(w) \/ Kill(w) PROVE Goal
    BY <1>1, <2>1, <2>2 DEF Boot, Kill, MayStart, MayStop, ChildGoesTo, TypeOK
  <2>3. ASSUME NEW w \in V, Ready(w) PROVE Goal
    BY <1>1, <2>1, <2>3 DEF Ready, ChildGoesTo, TypeOK
  <2>4. ASSUME NEW w \in V, NEW u \in V, AcceptFails(w, u) PROVE Goal
    BY <1>1, <2>1, <2>4 DEF AcceptFails, ChildGoesTo, TypeOK
  <2>5. ASSUME NEW w \in V, BindFails(w) \/ Reap(w) \/ XEnded(w) PROVE Goal
    BY <1>1, <2>1, <2>5 DEF BindFails, Reap, XEnded, ChildExits, Alive, TypeOK, Processes
  <2>6. ASSUME NEW w \in V, NEW u \in V, AcceptCrashes(w, u) PROVE Goal
    BY <1>1, <2>1, <2>6 DEF AcceptCrashes, Accepting, ChildExits, TypeOK, Queues, HangsUp
  <2>7. CASE UNCHANGED <<termed, lock>>
    BY <1>1, <2>1, <2>7
  <2> QED
    BY <1>1, <2>2, <2>3, <2>4, <2>5, <2>6, <2>7, StopSteps
<1>2. IInv /\ [Next]_vars =>
        [\A v \in termed' : (Alive(v) /\ child[v] # "reap")' /\ lock' # v =>
             v \in termed /\ (lock # v \/ "usr1" \in signals[v])]_vars
  BY <1>1
<1> QED
  BY VsXInvariance, <1>2, PTL DEF Spec, StopsAlone

\* A client let in has a place on the owner list besides those of its user's other
\* clients, and there is room for it (vs-X.cpp:1900-1955).
THEOREM AdmittedHaveShares == Spec => AdmittedWithinShares
<1>1. ASSUME IInv, [Next]_vars, NEW w \in V, NEW v \in members'[w] \ (members[w] \cup {w})
      PROVE  /\ Cardinality(EntriesOf(w, UidOf[v])') <= Cardinality(ACL(SrvOf[v], UidOf[v]))
             /\ Cardinality(Entries(w)') <= MaxClients
  <2>1. TypeOK /\ Queues /\ Within' /\ v \in V
    BY <1>1, TypeKept, WithinKept DEF IInv, TypeOK
  <2>2. Accept(w, v)
    <3>1. ASSUME NEW y \in V, NEW u \in V, Accept(y, u) PROVE y = w /\ u = v
      BY <1>1, <2>1, <3>1 DEF Accept, TypeOK
    <3>2. ASSUME NEW y \in V, AcceptParent(y) PROVE FALSE
      BY <1>1, <2>1, <3>2 DEF AcceptParent, TypeOK
    <3>3. ASSUME NEW y \in V, NEW u \in V,
                 \/ Boot(y) \/ BindFails(y) \/ Reap(y) \/ XEnded(y)
                 \/ AcceptCrashes(y, u) \/ Disconnected(y, u)
          PROVE  FALSE
      BY <1>1, <2>1, <3>3
         DEF Boot, BindFails, Reap, XEnded, AcceptCrashes, Disconnected, ChildExits, TypeOK
    <3> QED
      BY <1>1, <2>1, <3>1, <3>2, <3>3, ClientSteps
  <2> DEFINE u == UidOf[v]
  <2>3. EntriesOf(w, u)' = EntriesOf(w, u) \cup {v} /\ SrvOf[w] = SrvOf[v]
    BY <2>1, <2>2 DEF Accept, Accepting, Answer, TypeOK, EntriesOf, Entries, Queues
  <2>4. IsFiniteSet(EntriesOf(w, u)) /\ IsFiniteSet(ACL(SrvOf[v], u))
    BY <2>1, FS_Subset DEF EntriesOf, Entries, ACL, TypeOK
  <2>5. Cardinality(EntriesOf(w, u)) < Cardinality(ACL(SrvOf[v], u))
    BY <2>2, <2>3 DEF Accept, HasShareLeft
  <2>6. Cardinality(EntriesOf(w, u)')
            \in {Cardinality(EntriesOf(w, u)), Cardinality(EntriesOf(w, u)) + 1}
    BY <2>3, <2>4, FS_AddElement
  <2>7. Cardinality(EntriesOf(w, u)') <= Cardinality(ACL(SrvOf[v], u))
    BY <2>4, <2>5, <2>6, FS_CardinalityType
  <2> QED
    BY <2>1, <2>7 DEF Within
<1>2. IInv /\ [Next]_vars =>
        [\A w \in V : \A v \in members'[w] \ (members[w] \cup {w}) :
             /\ Cardinality(EntriesOf(w, UidOf[v])') <= Cardinality(ACL(SrvOf[v], UidOf[v]))
             /\ Cardinality(Entries(w)') <= MaxClients]_vars
  BY <1>1
<1> QED
  BY VsXInvariance, <1>2, PTL DEF Spec, AdmittedWithinShares
=============================================================================
