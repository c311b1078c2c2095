------------------------------ MODULE Session ------------------------------
(***************************************************************************)
(* The client library: a script with a vsapi.ResourceAccess, which sends a *)
(* request to the SSM over a socket and blocks until a reply comes, and    *)
(* with an Allocation, whose startViz and stopViz start X servers as child *)
(* processes and wait for the SSM to see them come and go.                 *)
(*                                                                         *)
(* The script makes any calls in any order.  The SSM is reduced to what    *)
(* one client sees of it (module SSM has the rest), and an X server with   *)
(* its wrapper vs-X to one thing (module VsX has the two).  The process    *)
(* that the script starts is not it: it is ssh, srun or vs-aew, and ends   *)
(* when it is killed, while the X server on its node ends later.           *)
(***************************************************************************)
EXTENDS Naturals, Sequences, FiniteSets, SequencesExt

CONSTANTS
    Servers,      \* the X servers of an allocation
    Cleanup,      \* cleanupOnDisconnect
    MaxCalls      \* bound on the calls of the script

ASSUME SessionAssumption == IsFiniteSet(Servers) /\ Cleanup \in BOOLEAN

VARIABLES
    step,      \* where the script is: "idle", or in which request of which call
    sent,      \* the request of this step was sent
    sock,      \* ResourceAccess.sock: "open", or "none" when there is none
    held,      \* the script has an Allocation
    ready,     \* X servers that have screens: hasValidRuntimeConfig
    xprocs,    \* Allocation.xprocs, the processes that startViz has started
    result,    \* how the last call ended: <<call, "ok" or the exception>>
    calls,     \* counts the calls
    requests,  \* on the way to the SSM
    replies,   \* on the way back: [to, status]
    ssm,       \* the SSM is up
    stale,     \* the socket is closed and the SSM has not seen it yet
    pending,   \* the deferred WaitXState: "none", or the request
    alloc,     \* the allocation is in force
    cleaner,   \* the connection in whose cleanup list it is: "open", "stale", "none"
    config,    \* the X servers configured at the SSM
    x,         \* each X server: "off", "spawned", "connected" to the SSM, "up"
    told,      \* the X servers that the SSM has told to exit
    killed,    \* the X servers whose process at the script was killed
    abandoned, \* (history) the wait for a reply on this connection was given up with ^C
    byStartx   \* (history) the X servers that were last started by startx

client == <<step, sent, sock, held, ready, xprocs, result, calls>>
server == <<ssm, stale, pending, alloc, cleaner, config>>
history == <<abandoned, byStartx>>
xservers == <<x, told, killed>>
vars == <<client, requests, replies, server, xservers, history>>

\* The request that each step makes.
Request ==
    [allocate |-> "allocate", attach |-> "attach", query |-> "query",
     setupViz |-> "update", updateServerConfig |-> "update",
     waitXState |-> "up", stopXServers |-> "stop", deallocate |-> "deallocate",
     startWait |-> "up", startStop |-> "stop", startDrain |-> "down",
     stopStop |-> "stop", stopDrain |-> "down"]
Killing == {"startKill", "stopKill", "stopFailedKill"}

\* The call that each step belongs to.
CallOf(s) ==
    IF s \in {"startWait", "startStop", "startDrain", "startKill"} THEN "startViz"
    ELSE IF s \in {"stopStop", "stopDrain", "stopKill", "stopFailedKill"} THEN "stopViz"
    ELSE "other"

TypeOK ==
    /\ step \in {"idle"} \cup DOMAIN Request \cup Killing
    /\ sent \in BOOLEAN /\ held \in BOOLEAN /\ ssm \in BOOLEAN /\ stale \in BOOLEAN
    /\ alloc \in BOOLEAN /\ abandoned \in BOOLEAN /\ byStartx \subseteq Servers
    /\ sock \in {"open", "none"} /\ cleaner \in {"open", "stale", "none"}
    /\ ready \subseteq Servers /\ config \subseteq Servers
    /\ told \subseteq Servers /\ killed \subseteq Servers
    /\ xprocs \in Seq(Servers)
    /\ pending \in {"none", "up", "down"}
    /\ x \in [Servers -> {"off", "spawned", "connected", "up"}]

Init ==
    /\ step = "idle" /\ sent = FALSE /\ sock = "open" /\ held = FALSE
    /\ ready = {} /\ xprocs = <<>> /\ result = <<"other", "ok">> /\ calls = 0
    /\ requests = <<>> /\ replies = <<>>
    /\ ssm = TRUE /\ stale = FALSE /\ pending = "none"
    /\ alloc = FALSE /\ cleaner = "none" /\ config = {}
    /\ x = [s \in Servers |-> "off"] /\ told = {} /\ killed = {}
    /\ abandoned = FALSE /\ byStartx = {}
-----------------------------------------------------------------------------
(* The connection.                                                         *)

Disconnect_Reused == UNCHANGED <<sock, replies, requests, server>>

\* __endConnection.
Disconnect ==
    /\ sock' = "none"
    /\ stale' = ssm
    /\ replies' = <<>>
    /\ cleaner' = IF cleaner = "open" THEN "stale" ELSE cleaner
    /\ UNCHANGED <<requests, ssm, pending, alloc, config>>

NotDisconnected == UNCHANGED <<sock, replies, requests, server>>

\* A call ends.
Ends(how) ==
    /\ step' = "idle" /\ sent' = FALSE /\ result' = <<CallOf(step), how>>

\* ... or goes on.
GoesTo(next) ==
    /\ step' = next /\ sent' = FALSE /\ UNCHANGED result

\* An exception in the request of this step.  When startViz fails to see its X servers
\* come up, it stops them: but only a VizError on the way is kept from the script, and
\* the processes are killed only when it is the wait that has failed.
Raise(exception) ==
    \/ step = "startWait" /\ exception # "KeyboardInterrupt" /\ GoesTo("startStop")
    \/ step = "startDrain" /\ exception = "VizError" /\ GoesTo("startKill")
    \/ step = "stopDrain" /\ exception = "VizError" /\ GoesTo("stopFailedKill")
    \/ /\ step = "startWait" => exception = "KeyboardInterrupt"
       /\ step \in {"startDrain", "stopDrain"} => exception # "VizError"
       /\ Ends(exception)

\* __sendAndRecvMessage, first half.  On a socket whose other end is closed, the first
\* message is lost and the next raises socket.error, which nobody catches.
Send ==
    /\ step \in DOMAIN Request /\ ~sent
    /\ \/ sock = "none" /\ Raise("VizError") /\ UNCHANGED requests
       \/ sock = "open" /\ ~ssm /\ Raise("socket.error") /\ UNCHANGED requests
       \/ /\ sock = "open" /\ sent' = TRUE
          /\ requests' = IF ssm THEN Append(requests, Request[step]) ELSE requests
          /\ UNCHANGED <<step, result>>
    /\ UNCHANGED <<sock, held, ready, xprocs, calls, replies, server, xservers, history>>

\* __decodeAllocation may fail to set up a resource group: the script does not get its
\* allocation.  The X servers of a group that is set up have their screens.
DecodeAllocation ==
    \/ Ends("ok") /\ held' = TRUE /\ ready' \in {{}, Servers}
    \/ Ends("ValueError") /\ UNCHANGED <<held, ready>>

\* What the step makes of a reply that says success.
Follows ==
    \/ step = "startStop" /\ GoesTo("startDrain")
    \/ step = "startDrain" /\ GoesTo("startKill")
    \/ step = "stopStop" /\ GoesTo("stopDrain")
    \/ step = "stopDrain" /\ GoesTo("stopKill")
    \/ step \notin {"startStop", "startDrain", "stopStop", "stopDrain"} /\ Ends("ok")

Return ==
    \/ step \in {"allocate", "attach"} /\ DecodeAllocation
    \/ step \notin {"allocate", "attach"} /\ Follows /\ UNCHANGED <<held, ready>>

\* readMessageFromSocket: there is nothing more to read.
EndOfFile == replies = <<>> /\ ~ssm

\* __sendAndRecvMessage, second half: a status that is not 0 is raised to the script, and
\* an end of file or a reply that cannot be read ends the connection as well.
Receive ==
    /\ step \in DOMAIN Request /\ sent /\ sock = "open"
    /\ \/ /\ replies # <<>> /\ Head(replies).status = "ok"
          /\ Return
          /\ replies' = Tail(replies) /\ UNCHANGED <<sock, requests, server>>
       \/ /\ replies # <<>> /\ Head(replies).status = "error"
          /\ Raise("VizError") /\ UNCHANGED <<held, ready>>
          /\ replies' = Tail(replies) /\ UNCHANGED <<sock, requests, server>>
       \/ /\ IF replies = <<>> THEN EndOfFile ELSE Head(replies).status = "garbled"
          /\ Raise("VizError") /\ UNCHANGED <<held, ready>>
          /\ Disconnect
    /\ UNCHANGED <<xprocs, calls, xservers, history>>

\* ^C while the script waits for a reply: the connection stays, and so does the request.
Interrupt ==
    /\ step \in DOMAIN Request /\ sent
    /\ Raise("KeyboardInterrupt")
    /\ abandoned' = TRUE
    /\ NotDisconnected
    /\ UNCHANGED <<held, ready, xprocs, calls, xservers, byStartx>>
-----------------------------------------------------------------------------
(* The calls of the script.                                                *)

Idle == step = "idle" /\ calls < MaxCalls /\ calls' = calls + 1

\* Processes are started for X servers; one whose display has an X server still waits for
\* it in vs-X, and is not followed here.
Spawned(ss) == [s \in Servers |-> IF s \in ss /\ x[s] = "off" THEN "spawned" ELSE x[s]]

\* A call that begins with a request.
Call(s) ==
    /\ Idle /\ step' = s
    /\ UNCHANGED <<sent, result, held, xprocs, xservers, history>> /\ NotDisconnected

Allocate == ~held /\ Call("allocate") /\ UNCHANGED ready
Attach == ~held /\ Call("attach") /\ UNCHANGED ready

\* queryResources, getTemplates, getServerConfig, getAllocationList, createGPU ...
Query == Call("query") /\ UNCHANGED ready

\* setupViz sets the resource groups up and sends the configurations.
SetupViz == held /\ Call("setupViz") /\ ready' = Servers
UpdateServerConfig == held /\ Call("updateServerConfig") /\ UNCHANGED ready
WaitXState == held /\ Call("waitXState") /\ UNCHANGED ready
StopXServers == held /\ Call("stopXServers") /\ UNCHANGED ready
Deallocate == held /\ Call("deallocate") /\ UNCHANGED ready
StopViz == held /\ Call("stopStop") /\ UNCHANGED ready

\* startViz: X servers are started one by one, and each may fail to.
StartViz ==
    /\ Idle /\ held
    /\ \E started \in SUBSET ready :
        /\ xprocs' = xprocs \o SetToSeq(started)
        /\ x' = Spawned(started)
        /\ byStartx' = byStartx \ {s \in started : x[s] = "off"}
        /\ IF started = ready /\ ready # {}
           THEN step' = "startWait" /\ UNCHANGED result
           ELSE step' = "idle" /\ result' = <<"startViz", "error">>
    /\ UNCHANGED <<sent, held, ready, told, killed, abandoned>> /\ NotDisconnected

\* viz-desktop runs startx as a job of its own, and then waits with waitXState.
RunStartx ==
    /\ Idle /\ held /\ ready # {}
    /\ x' = Spawned(ready)
    /\ byStartx' = byStartx \cup {s \in ready : x[s] = "off"}
    /\ step' = "waitXState"
    /\ UNCHANGED <<sent, result, held, ready, xprocs, told, killed, abandoned>>
    /\ NotDisconnected

Kill_Forgotten ==
    /\ step \in Killing
    /\ xprocs' = <<>>
    /\ Ends(IF step = "stopKill" THEN "ok" ELSE "VizError")
    /\ UNCHANGED <<held, ready, calls, xservers, history>> /\ NotDisconnected

\* __emptyXprocs: the processes are killed one by one.  kill() waits for the process that
\* the script has started, and not for the X server: the other end of ssh sees it later.
Kill ==
    /\ step \in Killing
    /\ IF xprocs = <<>>
       THEN /\ Ends(IF step = "stopKill" THEN "ok" ELSE "VizError")
            /\ UNCHANGED <<xprocs, killed>>
       ELSE /\ xprocs' = Tail(xprocs)
            /\ killed' = killed \cup {s \in {Head(xprocs)} : x[s] # "off"}
            /\ UNCHANGED <<step, sent, result>>
    /\ UNCHANGED <<held, ready, calls, x, told, history>> /\ NotDisconnected

\* stop(), or the end of the script.
Stop ==
    /\ Idle /\ sock = "open"
    /\ Disconnect
    /\ UNCHANGED <<step, sent, held, ready, xprocs, result, xservers, history>>

\* start(): to connect again.
Start ==
    /\ Idle /\ sock = "none" /\ ssm /\ ~stale
    /\ sock' = "open" /\ abandoned' = FALSE
    /\ UNCHANGED <<step, sent, held, ready, xprocs, result, requests, replies, server>>
    /\ UNCHANGED <<xservers, byStartx>>
-----------------------------------------------------------------------------
(* The SSM, as far as this client and its allocation go.                   *)

Connected(s) == x[s] \in {"connected", "up"}
Matches(state) == \A s \in Servers : (x[s] = "up") = (state = "up")

Reply(to, status) ==
    replies' = IF stale THEN replies ELSE Append(replies, [to |-> to, status |-> status])

RemoveAllocation_NotTold ==
    alloc' = FALSE /\ cleaner' = "none" /\ config' = {} /\ UNCHANGED told

\* removeAllocation.
RemoveAllocation ==
    /\ alloc' = FALSE /\ cleaner' = "none" /\ config' = {}
    /\ told' = told \cup {s \in Servers : Connected(s)}

\* One message.  A message of 100000 bytes and more has a length that takes six places,
\* of which the reader takes five: the reply is garbled.
Serve ==
    /\ ssm /\ requests # <<>>
    /\ requests' = Tail(requests)
    /\ LET r == Head(requests) IN
       \/ /\ r = "query" \/ (r = "attach" /\ alloc)
          /\ \E status \in {"ok", "garbled"} : Reply(r, status)
          /\ UNCHANGED <<pending, alloc, cleaner, config, told>>
       \/ /\ r = "allocate" /\ ~alloc /\ \E status \in {"ok", "garbled"} : Reply(r, status)
          /\ alloc' = TRUE
          /\ cleaner' = IF ~Cleanup THEN "none" ELSE IF stale THEN "stale" ELSE "open"
          /\ UNCHANGED <<pending, config, told>>
       \/ /\ IF alloc THEN r = "allocate" ELSE r \notin {"allocate", "query"}
          /\ Reply(r, "error")
          /\ UNCHANGED <<pending, alloc, cleaner, config, told>>
       \/ /\ r = "update" /\ alloc /\ Reply(r, "ok")
          /\ config' = Servers
          /\ UNCHANGED <<pending, alloc, cleaner, told>>
       \/ /\ r = "deallocate" /\ alloc /\ Reply(r, "ok")
          /\ RemoveAllocation /\ UNCHANGED pending
       \/ /\ r = "stop" /\ alloc /\ Reply(r, "ok")
          /\ told' = told \cup {s \in Servers : Connected(s)}
          /\ UNCHANGED <<pending, alloc, cleaner, config>>
       \/ /\ r \in {"up", "down"} /\ alloc
          /\ IF Matches(r) THEN Reply(r, "ok") /\ UNCHANGED pending
             ELSE pending' = r /\ UNCHANGED replies
          /\ UNCHANGED <<alloc, cleaner, config, told>>
    /\ UNCHANGED <<client, ssm, stale, x, killed, history>>

Evaluate_WhileAllocated ==
    /\ ssm /\ pending # "none" /\ alloc
    /\ pending' = "none" /\ Reply(pending, IF Matches(pending) THEN "ok" ELSE "error")
    /\ UNCHANGED <<client, requests, ssm, stale, alloc, cleaner, config, xservers, history>>

\* A turn of the main loop answers a deferred WaitXState: the allocation has gone, or the
\* X servers are as awaited, or (at any time here) it is too late.  If the client has gone
\* and the SSM learns it here, then it is dropped, and nothing is cleaned up for it.
Evaluate ==
    /\ ssm /\ pending # "none"
    /\ pending' = "none"
    /\ \/ /\ Reply(pending, IF alloc /\ Matches(pending) THEN "ok" ELSE "error")
          /\ UNCHANGED <<requests, stale, cleaner>>
       \/ /\ stale /\ stale' = FALSE /\ requests' = <<>>
          /\ cleaner' = IF cleaner = "stale" THEN "none" ELSE cleaner
          /\ UNCHANGED replies
    /\ UNCHANGED <<client, ssm, alloc, config, xservers, history>>

\* The SSM reads the end of file of this client, after all it has sent.
SeeClosed ==
    /\ ssm /\ stale /\ requests = <<>>
    /\ stale' = FALSE /\ pending' = "none"
    /\ IF cleaner = "stale" THEN RemoveAllocation ELSE UNCHANGED <<alloc, cleaner, config, told>>
    /\ UNCHANGED <<client, requests, replies, ssm, x, killed, history>>

\* root, or another session of the user, deallocates.
RemovedByOther ==
    /\ ssm /\ alloc /\ RemoveAllocation
    /\ UNCHANGED <<client, requests, replies, ssm, stale, pending, x, killed, history>>

SsmDies ==
    /\ ssm /\ ssm' = FALSE
    /\ alloc' = FALSE /\ pending' = "none" /\ requests' = <<>> /\ stale' = FALSE
    /\ cleaner' = "none" /\ config' = {}
    /\ told' = told \cup {s \in Servers : Connected(s)}
    /\ UNCHANGED <<client, replies, x, killed, history>>
-----------------------------------------------------------------------------
(* An X server and its wrapper.                                            *)

\* It asks the SSM for its configuration and is refused without an allocation.
XConnects(s) ==
    /\ x[s] = "spawned"
    /\ x' = [x EXCEPT ![s] = IF ssm /\ alloc /\ s \in config THEN "connected" ELSE "off"]
    /\ killed' = IF x'[s] = "off" THEN killed \ {s} ELSE killed
    /\ UNCHANGED <<client, requests, replies, server, told, history>>

XComesUp(s) ==
    /\ x[s] = "connected" /\ s \notin told
    /\ x' = [x EXCEPT ![s] = "up"]
    /\ UNCHANGED <<client, requests, replies, server, told, killed, history>>

\* It ends when it is told or its process was killed, or crashes.
XEnds(s) ==
    /\ x[s] # "off" /\ (s \in killed \/ Connected(s))
    /\ x' = [x EXCEPT ![s] = "off"]
    /\ told' = told \ {s} /\ killed' = killed \ {s}
    /\ UNCHANGED <<client, requests, replies, server, history>>
-----------------------------------------------------------------------------
Next ==
    \/ Send \/ Receive \/ Interrupt \/ Stop \/ Start
    \/ Allocate \/ Attach \/ Query \/ SetupViz \/ UpdateServerConfig \/ WaitXState
    \/ StopXServers \/ Deallocate \/ StartViz \/ RunStartx \/ StopViz \/ Kill
    \/ Serve \/ Evaluate \/ SeeClosed \/ RemovedByOther \/ SsmDies
    \/ \E s \in Servers : XConnects(s) \/ XComesUp(s) \/ XEnds(s)

Spec == Init /\ [][Next]_vars

\* The script goes on with a call that it has begun, and the SSM with its loop; an X
\* server asks for its configuration, and ends when the SSM tells it to.  That it ends when
\* its process at the script is killed is not assumed.
Fairness ==
    /\ WF_vars(Send) /\ WF_vars(Receive) /\ WF_vars(Kill)
    /\ WF_vars(Serve) /\ WF_vars(Evaluate) /\ WF_vars(SeeClosed)
    /\ \A s \in Servers : WF_vars(XConnects(s)) /\ WF_vars(s \in told /\ XEnds(s))

FairSpec == Spec /\ Fairness
-----------------------------------------------------------------------------
(* Properties.                                                             *)

\* The reply that the script takes answers the request that it has made, whatever was
\* refused, garbled, late or lost before, unless the wait for one was given up with ^C.
RepliesInStep ==
    ~abandoned /\ sent /\ replies # <<>> => replies[1].to = Request[step] /\ Len(replies) = 1

\* When stopViz returns, each X server that startViz has started, in whatever calls of it,
\* has ended or has had its process killed: none is left to itself.
StopMeansKilled ==
    result = <<"stopViz", "ok">> /\ step = "idle"
        => \A s \in Servers \ byStartx : x[s] = "off" \/ s \in killed

\* That they have ended is more than the code sees to: one that had not come up yet, or is
\* going down, may outlive the ssh that it was started with.
StopMeansStopped ==
    result = <<"stopViz", "ok">> /\ step = "idle" => \A s \in Servers \ byStartx : x[s] = "off"

\* Nor does it see to those that viz-desktop has started with startx, for which it awaits the
\* SSM's word: "Pressing ^C does the job too".
StopStopsStartx ==
    result = <<"stopViz", "ok">> /\ step = "idle" => \A s \in byStartx : x[s] # "up"

\* When startViz fails to see its X servers come up, "they all have to GO".
AllGo ==
    result \in {"startViz"} \X {"VizError", "socket.error"} /\ step = "idle" => xprocs = <<>>

\* Every call comes back to the script: a reply, a timeout or an end of file comes for
\* each request, and the list of processes to kill has an end.
CallsReturn == step # "idle" ~> step = "idle"

\* With cleanupOnDisconnect, X servers do not outlive the connection: neither those that
\* were granted but never known to the script, nor those that stopViz could not stop.  The
\* exception is an allocation that the SSM has orphaned (SSM!NoOrphan).
Orphaned == alloc /\ cleaner = "none"

CleanedUp ==
    Cleanup => (sock = "none" ~> (sock = "open" \/ Orphaned \/ \A s \in Servers : x[s] = "off"))
=============================================================================
