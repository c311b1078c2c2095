-------------------------------- MODULE SSM --------------------------------
(***************************************************************************)
(* The main loop of the System State Manager, sbin/vs-ssm: its table of    *)
(* connected clients, the allocations they made, and for each allocation   *)
(* the X servers that have connected for it and that are available.        *)
(*                                                                         *)
(* The loop is single-threaded.  A turn answers the pending WaitXState     *)
(* requests, selects the sockets that can be read, serves one message from *)
(* each of them and accepts a new connection.  What makes it hard is what  *)
(* the peers do meanwhile: a peer can close its end between any two steps  *)
(* of a turn, and the SSM finds out only when it writes to or reads from   *)
(* that socket.  Which resources an allocation gets is the business of     *)
(* module Metascheduler; here an allocation has the X servers of its GPUs. *)
(***************************************************************************)
EXTENDS Integers, Sequences, FiniteSets, SequencesExt

CONSTANTS
    Uid, Root,      \* the users that connect; Root may be one of them
    Server,         \* the X servers
    SharedServer,   \* those that belong to sharable GPUs
    ShareLimit,     \* how many allocations may use each of them
    Conn,           \* connections, 1..n: room for n clients at a time
    MaxAllocs,      \* bound on the allocations that are made
    NoWait,         \* no response is pending
    Wishes,         \* the sets of X servers that clients allocate
    TcpPeers,       \* are clients connected over TCP?
    Polls,          \* do clients use WaitXState with timeout 0?
    Strangers,      \* do peers name X servers that their allocation, or the SSM, has not?
    LateDeaths,     \* may a peer go away while it waits for a response?
    LeaveAlive      \* do clients connect with cleanupOnDisconnect = 0?

ASSUME SSMAssumption ==
    /\ Uid # {}
    /\ SharedServer \subseteq Server
    /\ ShareLimit \in [Server -> Nat \ {0}]
    /\ Conn \subseteq Nat
    /\ MaxAllocs \in Nat
    /\ Wishes \subseteq SUBSET Server
    /\ {TcpPeers, Polls, Strangers, LateDeaths, LeaveAlive} \subseteq BOOLEAN

AllocId == 1..MaxAllocs

VARIABLES
    status,     \* "up", "interrupted" by ^C, or ended by an exception: "missed", when the
                \* SSM did not find its own entry in its tables, or "raised", any other
    phase,      \* "loop": before a turn, "serve": working on one
    clients,    \* client_info, the connected clients in order of arrival
    conn,       \* the ClientInfo of every connection
    gone,       \* the connections whose peer has closed its end
    ready,      \* ready_to_read, what is left of it in this turn
    lastId,     \* lastReservationId
    live,       \* the ids of the allocations in force
    user,       \* userInfo of each allocation
    used,       \* used_x_servers of each allocation
    users,      \* x_server_users: how often each user's X server connected
    avail       \* x_server_avail: ... and how often it is available

vars == <<status, phase, clients, conn, gone, ready, lastId, live, user, used,
          users, avail>>

Wait == [alloc : AllocId, servers : (SUBSET Server) \ {{}}, state : 0..1, timed : BOOLEAN]
NoConn == [kind |-> "none"]
ClientConn ==
    [kind : {"client"}, uid : Uid, cleanup : BOOLEAN,
     toClean : SUBSET AllocId, wait : Wait \cup {NoWait}]
XConn == [kind : {"x"}, uid : Uid, srv : Server, alloc : AllocId,
          running : BOOLEAN, shut : BOOLEAN]
Tally == [AllocId -> [Server -> [Uid -> Nat]]]

TypeOK ==
    /\ status \in {"up", "missed", "raised", "interrupted"}
    /\ phase \in {"loop", "serve"}
    /\ clients \in Seq(Conn) /\ IsInjective(clients)
    /\ conn \in [Conn -> {NoConn} \cup ClientConn \cup XConn]
    /\ ToSet(clients) = {c \in Conn : conn[c] # NoConn}
    /\ gone \subseteq ToSet(clients)
    /\ ready \subseteq ToSet(clients)
    /\ lastId \in 0..MaxAllocs
    /\ live \subseteq 1..lastId
    /\ user \in [AllocId -> Uid]
    /\ used \in [AllocId -> SUBSET Server]
    /\ users \in Tally /\ avail \in Tally

Nobody == [s \in Server |-> [u \in Uid |-> 0]]

Init ==
    /\ status = "up" /\ phase = "loop"
    /\ clients = <<>> /\ conn = [c \in Conn |-> NoConn]
    /\ gone = {} /\ ready = {}
    /\ lastId = 0 /\ live = {}
    /\ user \in [AllocId -> {CHOOSE u \in Uid : TRUE}]
    /\ used = [a \in AllocId |-> {}]
    /\ users = [a \in AllocId |-> Nobody] /\ avail = [a \in AllocId |-> Nobody]

IsX(c) == conn[c].kind = "x"
IsClient(c) == conn[c].kind = "client"
Pending(c) == IsClient(c) /\ conn[c].wait # NoWait

\* Owners of an X server: those of the allocations that use it.
OwnerCount(s, u) == Cardinality({a \in live : s \in used[a] /\ user[a] = u})

-----------------------------------------------------------------------------
(***************************************************************************)
(* The handlers change several tables at once, and one uses another, so    *)
(* they are functions on the tables.                                       *)
(***************************************************************************)
Tables == [clients |-> clients, conn |-> conn, live |-> live,
           users |-> users, avail |-> avail]

Become(t) == /\ clients' = t.clients
             /\ conn' = t.conn
             /\ live' = t.live
             /\ users' = t.users
             /\ avail' = t.avail
             /\ gone' = gone \cap ToSet(t.clients)

Less(n) == IF n = 0 THEN 0 ELSE n - 1

XClientsOf_StopsAtFirst(t, as) ==
    LET found == {c \in ToSet(t.clients) :
                      t.conn[c].kind = "x" /\ t.conn[c].alloc \in as}
    IN  IF found = {} THEN {} ELSE {CHOOSE c \in found : TRUE}

\* The X clients that the removal of these allocations tells to exit.
XClientsOf(t, as) ==
    {c \in ToSet(t.clients) : t.conn[c].kind = "x" /\ t.conn[c].alloc \in as}

AfterRemoval_ListsKept(t, as, c) ==
    IF c \in XClientsOf(t, as) THEN [t.conn[c] EXCEPT !.shut = TRUE] ELSE t.conn[c]

\* removeAllocation, for each of as: its X clients are told to exit, no client
\* has to clean it up any more, ...
AfterRemoval(t, as, c) ==
    CASE c \in XClientsOf(t, as) -> [t.conn[c] EXCEPT !.shut = TRUE]
      [] t.conn[c].kind = "client" -> [t.conn[c] EXCEPT !.toClean = @ \ as]
      [] OTHER -> t.conn[c]

\* ... and it is taken off the list of active ones.
RemoveAllocations(t, as) ==
    [t EXCEPT !.conn = [c \in Conn |-> AfterRemoval(t, as, c)],
              !.live = @ \ as,
              !.users = [a \in AllocId |-> IF a \in as THEN Nobody ELSE @[a]],
              !.avail = [a \in AllocId |-> IF a \in as THEN Nobody ELSE @[a]]]

\* The removal raises when an allocation is not there, and, over TCP, when it
\* shuts down a socket that both ends have shut down.
RemovalMisses(t, as) == ~(as \subseteq t.live)
ShutdownRaises(t, as) ==
    TcpPeers /\ \E c \in XClientsOf(t, as) : t.conn[c].shut /\ c \in gone

ForgetX_StaysAvailable(t, c) ==
    LET x == t.conn[c]
    IN  IF x.alloc \notin t.live THEN t
        ELSE [t EXCEPT !.users[x.alloc][x.srv][x.uid] = Less(@)]

\* An X client's entries in the tables of its allocation, if that still is.
ForgetX(t, c) ==
    LET x == t.conn[c]
    IN  IF x.alloc \notin t.live THEN t
        ELSE [t EXCEPT !.users[x.alloc][x.srv][x.uid] = Less(@),
                       !.avail[x.alloc][x.srv][x.uid] =
                           IF x.running THEN Less(@) ELSE @]

ToCleanUp_SkipsSecond(t, c) ==
    IF t.conn[c].kind = "client" /\ t.conn[c].cleanup
    THEN {a \in t.conn[c].toClean :
              Cardinality({b \in t.conn[c].toClean : b < a}) % 2 = 0}
    ELSE {}

\* What a client leaves to be cleaned up when it disconnects.
ToCleanUp(t, c) == IF t.conn[c].kind = "client" /\ t.conn[c].cleanup
                   THEN t.conn[c].toClean ELSE {}

\* Its entry is popped from client_info.
Dropped(t, c) ==
    [t EXCEPT !.clients = RemoveAt(@, CHOOSE i \in DOMAIN @ : @[i] = c),
              !.conn[c] = NoConn]

Disconnect_DeadAllocationKept(t, c) ==
    IF t.conn[c].kind = "x" /\ t.conn[c].alloc \notin t.live THEN t
    ELSE Dropped(RemoveAllocations(IF t.conn[c].kind = "x" THEN ForgetX(t, c) ELSE t,
                                   ToCleanUp(t, c)), c)

Disconnect(t, c) ==
    LET known == IF t.conn[c].kind = "x" THEN ForgetX(t, c) ELSE t
    IN  Dropped(RemoveAllocations(known, ToCleanUp(t, c)), c)

\* The SSM ends: it closes the sockets that are left and removes every
\* allocation.
Exit(how) ==
    /\ status' = how
    /\ phase' = "loop"
    /\ ready' = {}
    /\ Become([RemoveAllocations(Tables, live) EXCEPT
                  !.clients = <<>>, !.conn = [c \in Conn |-> NoConn]])

\* The next ready socket's turn.
Proceed(c, t) == /\ ready' = ready \ {c}
                 /\ Become(t)
                 /\ UNCHANGED <<status, phase>>

Drop(c, t) == CASE RemovalMisses(t, ToCleanUp(t, c)) -> Exit("missed")
                [] ShutdownRaises(t, ToCleanUp(t, c)) -> Exit("raised")
                [] OTHER -> Proceed(c, Disconnect(t, c))

\* A handler returned and its reply is sent.  A peer that is not there to take
\* it is disconnected, if the SSM finds out; over TCP it may learn it later.
Reply(c, t) == \/ (c \in gone => TcpPeers) /\ Proceed(c, t)
               \/ c \in gone /\ Drop(c, t)

-----------------------------------------------------------------------------
(***************************************************************************)
(* The start of a turn: answers to pending requests, and select.           *)
(***************************************************************************)
InState(w, u) ==
    \A s \in w.servers : (avail[w.alloc][s][u] > 0) <=> (w.state = 1)

Answered_RemovalUnseen(c, expired) ==
    InState(conn[c].wait, conn[c].uid) \/ c \in expired

\* handleWaitXState has an answer: the allocation went away, every server is
\* in the state waited for, or the timeout has passed.
Answered(c, expired) ==
    LET w == conn[c].wait
    IN  w.alloc \notin live \/ InState(w, conn[c].uid) \/ c \in expired

\* A client sends nothing while it waits for a response: vsapi blocks there.
Sends(t, c) == t.conn[c].kind = "client" => t.conn[c].wait = NoWait

\* Turn: the answers go out.  A peer that is not there any more is taken off
\* the list by a loop over indices, which works for the last client only.
\* select() then reports all that can be read, closed sockets in any case.
Turn ==
    /\ status = "up" /\ phase = "loop"
    /\ \E expired \in SUBSET {c \in ToSet(clients) : Pending(c) /\ conn[c].wait.timed} :
       LET answered == {c \in ToSet(clients) : Pending(c) /\ Answered(c, expired)}
           t == [Tables EXCEPT !.conn = [c \in Conn |->
                    IF c \in answered THEN [conn[c] EXCEPT !.wait = NoWait] ELSE conn[c]]]
       IN  \E failed \in SUBSET (answered \cap gone) :
             /\ TcpPeers \/ failed = answered \cap gone
             /\ IF \A c \in failed : c = Last(clients)
                THEN /\ Become(IF failed = {} THEN t ELSE Dropped(t, Last(clients)))
                     /\ \E batch \in SUBSET {c \in ToSet(clients) : Sends(t, c)} :
                            ready' = (batch \cup gone) \ failed
                     /\ phase' = "serve"
                     /\ UNCHANGED status
                ELSE Exit("raised")
    /\ UNCHANGED <<lastId, user, used>>

\* The sockets are served in the order of client_info.
Serving(c) ==
    /\ status = "up" /\ phase = "serve"
    /\ c \in ready
    /\ c = SelectSeq(clients, LAMBDA d : d \in ready)[1]

-----------------------------------------------------------------------------
(***************************************************************************)
(* Messages of ordinary clients.                                           *)
(***************************************************************************)
Asks(c) == Serving(c) /\ IsClient(c) /\ ~Pending(c)

\* What Metascheduler grants: servers that nobody has, or shared ones with
\* room for one more.
Grantable(wish) ==
    \A s \in wish : Cardinality({a \in live : s \in used[a]}) <
                        (IF s \in SharedServer THEN ShareLimit[s] ELSE 1)

Allocate(c, wish) ==
    /\ Asks(c)
    /\ Grantable(wish) /\ lastId < MaxAllocs
    /\ LET a == lastId + 1
       IN  /\ lastId' = a
           /\ user' = [user EXCEPT ![a] = conn[c].uid]
           /\ used' = [used EXCEPT ![a] = wish]
           /\ Reply(c, [Tables EXCEPT !.live = live \cup {a},
                                      !.conn = [conn EXCEPT ![c].toClean = @ \cup {a}]])

MayControl_Anyone(c, a) == a \in live

MayControl(c, a) == a \in live /\ conn[c].uid \in {Root, user[a]}

Deallocate(c, a) ==
    /\ Asks(c) /\ MayControl(c, a)
    /\ IF ShutdownRaises(Tables, {a}) THEN Exit("raised")
       ELSE Reply(c, RemoveAllocations(Tables, {a}))
    /\ UNCHANGED <<lastId, user, used>>

\* StopXServer: the write end of the X clients' sockets is shut down.
StopXServer(c, a, servers) ==
    /\ Asks(c) /\ MayControl(c, a)
    /\ Reply(c, [Tables EXCEPT !.conn = [d \in Conn |->
                    IF d \in XClientsOf(Tables, {a}) /\ conn[d].srv \in servers
                    THEN [conn[d] EXCEPT !.shut = TRUE] ELSE conn[d]]])
    /\ UNCHANGED <<lastId, user, used>>

\* WaitXState, when the state does not match: the response is deferred.
WaitXState(c, w) ==
    /\ Asks(c)
    /\ w.alloc \in live /\ w.servers \subseteq used[w.alloc]
    /\ ~InState(w, conn[c].uid)
    /\ LateDeaths \/ c \notin gone
    /\ Proceed(c, [Tables EXCEPT !.conn = [conn EXCEPT ![c].wait = w]])
    /\ UNCHANGED <<lastId, user, used>>

\* WaitXState, when it matches: an answer at once.  Queries, attach and
\* refused requests change nothing either.
Answer(c) ==
    /\ Asks(c)
    /\ Reply(c, Tables)
    /\ UNCHANGED <<lastId, user, used>>

\* The look-up of a server that the allocation does not have, and the answer
\* to a poll that finds a server in another state, raise.
WaitCrash(c, w) ==
    /\ Asks(c) /\ w.alloc \in live
    /\ \/ Strangers /\ ~(w.servers \subseteq used[w.alloc])
       \/ /\ Polls /\ w.timed
          /\ w.servers \subseteq used[w.alloc] /\ ~InState(w, conn[c].uid)
    /\ Exit("raised")
    /\ UNCHANGED <<lastId, user, used>>

-----------------------------------------------------------------------------
(***************************************************************************)
(* X clients: the update of their availability.  vs-X announces a server   *)
(* once when it comes up and once when it has gone down.  No reply is sent *)
(* unless the allocation is gone.                                          *)
(***************************************************************************)
UpdateXAvail(c) ==
    /\ Serving(c) /\ IsX(c)
    /\ LET x == conn[c]
       IN  IF x.alloc \notin live THEN Reply(c, Tables)
           ELSE IF x.running /\ avail[x.alloc][x.srv][x.uid] = 0 THEN Exit("missed")
           ELSE Proceed(c, [Tables EXCEPT
                    !.avail = [avail EXCEPT ![x.alloc][x.srv][x.uid] =
                                   IF x.running THEN Less(@) ELSE @ + 1],
                    !.conn = [conn EXCEPT ![c].running = ~@]])
    /\ UNCHANGED <<lastId, user, used>>

-----------------------------------------------------------------------------
\* A disconnected socket, or a message that is none: the client is dropped.
Eof(c) ==
    /\ Serving(c) /\ c \in gone
    /\ Drop(c, Tables)
    /\ UNCHANGED <<lastId, user, used>>

-----------------------------------------------------------------------------
(***************************************************************************)
(* New connections end a turn, at most one on each listening socket.       *)
(***************************************************************************)
Slot(c) == c \notin ToSet(clients) /\ \A d \in Conn : d < c => d \in ToSet(clients)

Admit(c, record) ==
    /\ status = "up" /\ phase = "serve" /\ ready = {} /\ Slot(c)
    /\ clients' = Append(clients, c)
    /\ conn' = [conn EXCEPT ![c] = record]
    /\ UNCHANGED <<status, phase, gone, ready, lastId, live, user, used, avail>>

AcceptClient(c, u, cleanup) ==
    /\ cleanup \/ LeaveAlive
    /\ Admit(c, [kind |-> "client", uid |-> u, cleanup |-> cleanup,
                 toClean |-> {}, wait |-> NoWait])
    /\ UNCHANGED users

\* An X client connects for a server of an allocation.  Only root may not
\* have two for an unshared server; for a shared one, a user may have as many
\* in this allocation as it has shares.
MayConnect(s, a, u) ==
    /\ a \in live /\ s \in used[a]
    /\ OwnerCount(s, u) > 0
    /\ IF s \in SharedServer THEN users[a][s][u] < OwnerCount(s, u)
       ELSE u = Root => users[a][s][u] # 1

AcceptX(c, s, a, u) ==
    /\ MayConnect(s, a, u)
    /\ Admit(c, [kind |-> "x", uid |-> u, srv |-> s, alloc |-> a,
                 running |-> FALSE, shut |-> FALSE])
    /\ users' = [users EXCEPT ![a][s][u] = @ + 1]

\* The display that an X client names is looked up in x_server_config unguarded, and the
\* user that root names for it is made an integer: either may raise.
AcceptCrash ==
    /\ Strangers
    /\ status = "up" /\ phase = "serve" /\ ready = {}
    /\ Exit("raised")
    /\ UNCHANGED <<lastId, user, used>>

\* No connection is waiting, or those that are do not get in.
EndTurn ==
    /\ status = "up" /\ phase = "serve" /\ ready = {}
    /\ phase' = "loop"
    /\ UNCHANGED <<status, clients, conn, gone, ready, lastId, live, user, used,
                   users, avail>>

-----------------------------------------------------------------------------
\* The peers: a client or an X client closes its end, or dies.
Leave(c) ==
    /\ c \in ToSet(clients) \ gone
    /\ LateDeaths \/ ~Pending(c)
    /\ gone' = gone \cup {c}
    /\ UNCHANGED <<status, phase, clients, conn, ready, lastId, live, user, used,
                   users, avail>>

\* ^C, in the foreground.  Nothing happens any more once the SSM has ended.
Interrupt == /\ status = "up" /\ Exit("interrupted")
             /\ UNCHANGED <<lastId, user, used>>
Down == status # "up" /\ UNCHANGED vars

Serve(c) ==
    \/ \E wish \in Wishes : Allocate(c, wish)
    \/ \E a \in AllocId :
          \/ Deallocate(c, a)
          \/ \E servers \in (SUBSET used[a]) \ {{}} : StopXServer(c, a, servers)
    \/ \E w \in Wait : WaitXState(c, w) \/ WaitCrash(c, w)
    \/ Answer(c)
    \/ UpdateXAvail(c)
    \/ Eof(c)

Next ==
    \/ Turn
    \/ \E c \in Conn : Serve(c)
    \/ \E c \in Conn, u \in Uid, k \in BOOLEAN : AcceptClient(c, u, k)
    \/ \E c \in Conn, s \in Server, a \in AllocId, u \in Uid : AcceptX(c, s, a, u)
    \/ AcceptCrash
    \/ EndTurn
    \/ \E c \in Conn : Leave(c)
    \/ Interrupt
    \/ Down

Spec == Init /\ [][Next]_vars
-----------------------------------------------------------------------------
(***************************************************************************)
(* Fairness.  The loop runs, and select() is level-triggered, so a turn    *)
(* goes on as long as the SSM is up and no peer stops in the middle of a   *)
(* message, for which the loop would wait.  A closed socket holds finitely *)
(* many messages before its end of file.  Peers need not do anything.      *)
(***************************************************************************)
LiveSpec ==
    /\ Spec
    /\ WF_vars(Turn \/ EndTurn)
    /\ \A c \in Conn : WF_vars(Serve(c)) /\ SF_vars(Eof(c))

-----------------------------------------------------------------------------
XConns(a, s, u) ==
    {c \in ToSet(clients) : /\ IsX(c) /\ conn[c].alloc = a
                            /\ conn[c].srv = s /\ conn[c].uid = u}

\* Every X client whose allocation is gone has been told to exit: the scripts
\* rely on it for X servers not to outlive their allocation (vs-ssm:137-149).
XClientsToldToExit ==
    \A c \in ToSet(clients) :
        IsX(c) /\ conn[c].alloc \notin live => conn[c].shut

\* The tables of an allocation count its X clients and those that run, through
\* any order of connections, updates, shutdowns and disconnections
\* (vs-ssm:1340-1346, 1666-1670, 1899).
TablesCountXClients ==
    \A a \in live, s \in Server, u \in Uid :
        /\ users[a][s][u] = Cardinality(XConns(a, s, u))
        /\ avail[a][s][u] =
               Cardinality({c \in XConns(a, s, u) : conn[c].running})

\* When every client asks for cleanup, each allocation in force is on the list
\* of a client that is still connected (vs-ssm:463, 1682-1689; ResourceAccess
\* promises it, vsapi.py:4241).
NoOrphan ==
    ~LeaveAlive =>
        \A a \in live : \E c \in ToSet(clients) : IsClient(c) /\ a \in conn[c].toClean

\* What the loop takes out of its own tables is there, whoever leaves, stops or removes what
\* and however late a reply fails: removeAllocation pops an allocation that is in force, and
\* update_x_avail finds the entry of a running server (vs-ssm:163, 1342).  What peers send
\* and sockets report may end the loop all the same: that is status "raised".
EntriesFound == status # "missed"

\* "Only ^C ends the main loop": the code does not keep to this.
SsmStaysUp == status \notin {"missed", "raised"}

\* An allocation goes away only when the SSM serves root, its user, or the
\* client that has to clean it up, or when the SSM ends (vs-ssm:204-222, 1682).
RemovedOnBehalfOf ==
    [][\A a \in live \ live' :
           \/ status' # "up"
           \/ \E c \in ready \ ready' :
                  IsClient(c) /\ (\/ conn[c].uid \in {Root, user[a]}
                                  \/ a \in conn[c].toClean)]_vars

\* A WaitXState for an allocation that is gone is answered (vs-ssm:1464).
WaitersReleased ==
    \A c \in Conn : (Pending(c) /\ conn[c].wait.alloc \notin live) ~> ~Pending(c)

\* The allocations of a client that has gone away are removed (vs-ssm:1682).
DepartedCleanedUp ==
    \A c \in Conn, a \in AllocId :
        (IsClient(c) /\ c \in gone /\ conn[c].cleanup /\ a \in conn[c].toClean)
            ~> a \notin live

\* An X client that has closed its end is forgotten, its allocation gone or not, so that its
\* server can be used by the allocation that comes next (vs-ssm:1660-1701).
DeadXForgotten ==
    \A c \in Conn : (IsX(c) /\ c \in gone) ~> ~(IsX(c) /\ c \in gone)

\* A socket with a response pending is not read (the comment at vs-ssm:1571).
NoReadWhilePending == \A c \in ready : ~Pending(c)

\* One X client at a time for a server that is not shared (the comment at
\* vs-ssm:1662).
OneXClient ==
    \A s \in Server \ SharedServer :
        Cardinality({c \in ToSet(clients) :
            IsX(c) /\ conn[c].srv = s /\ conn[c].alloc \in live}) <= 1

\* No X client of a shared server gets in beyond the shares its user has of it
\* (the message at vs-ssm:1894).
SharedClients(s, u) ==
    {c \in ToSet(clients) :
        IsX(c) /\ conn[c].srv = s /\ conn[c].uid = u /\ conn[c].alloc \in live}

ClientsWithinShares ==
    [][\A s \in SharedServer, u \in Uid :
           Cardinality(SharedClients(s, u)') > Cardinality(SharedClients(s, u))
             => Cardinality(SharedClients(s, u)') <= OwnerCount(s, u)']_vars
=============================================================================
