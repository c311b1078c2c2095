--------------------------- MODULE SessionProofs ---------------------------
(***************************************************************************)
(* Theorems about Session, for any X servers and any sequence of calls:    *)
(* replies are for the requests they are taken for, and stopViz kills the  *)
(* process of each X server that startViz has started and that still runs. *)
(***************************************************************************)
EXTENDS Session, SequenceTheorems, FiniteSetTheorems, TLAPS

Requesting ==
    {"allocate", "attach", "query", "setupViz", "updateServerConfig", "waitXState",
     "stopXServers", "deallocate", "startWait", "startStop", "startDrain", "stopStop", "stopDrain"}
Message == {"allocate", "attach", "query", "update", "up", "down", "stop", "deallocate"}
Steps == {"idle"} \cup Requesting \cup Killing

\* The connection: what is on the way, and who knows that it is closed.
Line ==
    /\ sent => step \in Requesting
    /\ sock = "open" => ~stale
    /\ sock = "none" => ~sent /\ replies = <<>>
    /\ sock = "none" /\ ~stale => requests = <<>> /\ pending = "none"
    /\ ~ssm => requests = <<>> /\ pending = "none"

Silent == requests = <<>> /\ replies = <<>> /\ pending = "none"

\* A request is on its way, or deferred, or answered, or lost.
OneRequest(r) ==
    \/ Silent
    \/ requests = <<r>> /\ replies = <<>> /\ pending = "none"
    \/ requests = <<>> /\ replies = <<>> /\ pending = r
    \/ /\ requests = <<>> /\ pending = "none"
       /\ \E status \in {"ok", "error", "garbled"} : replies = <<[to |-> r, status |-> status]>>

InStep == sock = "open" /\ ~abandoned => IF sent THEN OneRequest(Request[step]) ELSE Silent

\* Each X server belongs to a process of this script, to one it has killed, or to startx.
Owned == \A s \in Servers : x[s] # "off" => s \in ToSet(xprocs) \cup killed \cup byStartx

IInv == TypeOK /\ Line /\ InStep /\ Owned /\ StopMeansKilled

USE SessionAssumption DEF client, server, xservers, history
-----------------------------------------------------------------------------
(* Requests, calls, and sequences.                                         *)

LEMMA RequestProperties ==
    /\ DOMAIN Request = Requesting
    /\ \A s \in Requesting : Request[s] \in Message
BY DEF Request, Requesting, Message

LEMMA StepsAll == Steps = {"idle"} \cup DOMAIN Request \cup Killing
BY RequestProperties DEF Steps

\* A request that is refused or fails does not end stopViz well, and neither does one
\* that is answered.
LEMMA RaiseEffect ==
    ASSUME NEW exception, exception # "ok", step \in Requesting, Raise(exception)
    PROVE  /\ step' \in Steps /\ sent' = FALSE
           /\ step' = "idle" => result' # <<"stopViz", "ok">>
BY DEF Raise, GoesTo, Ends, Requesting, Steps, Killing

LEMMA ReturnEffect ==
    ASSUME step \in Requesting, Return
    PROVE  /\ step' \in Steps /\ sent' = FALSE
           /\ step' = "idle" => result' # <<"stopViz", "ok">>
BY DEF Return, Follows, DecodeAllocation, GoesTo, Ends, CallOf, Requesting, Steps, Killing

LEMMA SetToSeqProperties ==
    ASSUME NEW S, IsFiniteSet(S)
    PROVE  SetToSeq(S) \in Seq(S) /\ ToSet(SetToSeq(S)) = S
<1> DEFINE n == Cardinality(S)
           f == SetToSeq(S)
<1>1. n \in Nat /\ ExistsBijection(1..n, S)
  BY FS_CardinalityType
<1>2. PICK g \in Bijection(1..n, S) : TRUE
  BY <1>1 DEF ExistsBijection
<1>3. g \in [1..n -> S] /\ IsInjective(g)
  BY <1>2 DEF Bijection, Injection, IsInjective
<1>4. f \in [1..n -> S] /\ IsInjective(f)
  BY <1>3 DEF SetToSeq
<1> HIDE DEF f
<1>5. f \in Injection(1..n, S)
  BY <1>4 DEF Injection, IsInjective
<1>6. IsFiniteSet(1..n) /\ Cardinality(1..n) = n
  BY <1>1, FS_Interval
<1>7. f \in Surjection(1..n, S)
  BY <1>5, <1>6, FS_Injection
<1>8. f \in Seq(S) /\ DOMAIN f = 1..n
  BY <1>1, <1>4
<1>9. ToSet(f) = S
  BY <1>4, <1>7, <1>8 DEF Surjection, ToSet
<1> QED
  BY <1>8, <1>9 DEF f

LEMMA ToSetConcat ==
    ASSUME NEW S, NEW q \in Seq(S), NEW r \in Seq(S)
    PROVE  ToSet(q \o r) = ToSet(q) \cup ToSet(r)
<1>1. q \o r \in Seq(S) /\ Len(q \o r) = Len(q) + Len(r)
  BY ConcatProperties
<1>2. \A i \in 1..Len(q) : (q \o r)[i] = q[i]
  BY ConcatProperties
<1>3. \A i \in 1..Len(r) : Len(q) + i \in 1..Len(q \o r) /\ (q \o r)[Len(q) + i] = r[i]
  BY <1>1, ConcatProperties
<1>4. \A i \in 1..Len(q \o r) :
        i \in 1..Len(q) \/ (i - Len(q) \in 1..Len(r) /\ Len(q) + (i - Len(q)) = i)
  BY <1>1
<1>5. \A s \in Seq(S) : DOMAIN s = 1..Len(s)
  OBVIOUS
<1>6. 1..Len(q) \subseteq 1..Len(q \o r)
  BY <1>1
<1>7. ToSet(q) \cup ToSet(r) \subseteq ToSet(q \o r)
  BY <1>1, <1>2, <1>3, <1>5, <1>6 DEF ToSet
<1>8. \A i \in 1..Len(q \o r) : (q \o r)[i] \in ToSet(q) \cup ToSet(r)
  BY <1>2, <1>3, <1>4, <1>5 DEF ToSet
<1>9. ToSet(q \o r) \subseteq ToSet(q) \cup ToSet(r)
  BY <1>1, <1>5, <1>8 DEF ToSet
<1> QED
  BY <1>7, <1>9

LEMMA ToSetTail ==
    ASSUME NEW S, NEW q \in Seq(S), q # <<>>
    PROVE  Tail(q) \in Seq(S) /\ ToSet(q) = {Head(q)} \cup ToSet(Tail(q))
<1>1. /\ Tail(q) \in Seq(S) /\ Len(Tail(q)) = Len(q) - 1
      /\ \A i \in 1..Len(Tail(q)) : Tail(q)[i] = q[i + 1]
  BY HeadTailProperties
<1>2. 1 \in DOMAIN q /\ Head(q) = q[1]
  OBVIOUS
<1>3. \A i \in DOMAIN q : i = 1 \/ (i - 1 \in DOMAIN Tail(q) /\ q[i] = Tail(q)[i - 1])
  BY <1>1
<1>4. \A i \in DOMAIN Tail(q) : i + 1 \in DOMAIN q /\ Tail(q)[i] = q[i + 1]
  BY <1>1
<1>5. ToSet(q) \subseteq {Head(q)} \cup ToSet(Tail(q))
  BY <1>2, <1>3 DEF ToSet
<1>6. {Head(q)} \cup ToSet(Tail(q)) \subseteq ToSet(q)
  BY <1>2, <1>4 DEF ToSet
<1> QED
  BY <1>1, <1>5, <1>6

LEMMA InitInv == Init => IInv
<1> SUFFICES ASSUME Init PROVE IInv
  OBVIOUS
<1>1. TypeOK
  <2>1. x \in [Servers -> {"off", "spawned", "connected", "up"}] /\ xprocs \in Seq(Servers)
    BY DEF Init
  <2> QED
    BY <2>1 DEF Init, TypeOK
<1>2. Line /\ InStep /\ Owned
  BY DEF Init, Line, InStep, Silent, Owned
<1>3. StopMeansKilled
  BY DEF Init, StopMeansKilled
<1> QED
  BY <1>1, <1>2, <1>3 DEF IInv
-----------------------------------------------------------------------------
(* What the two halves of the invariant need of a step: the connection,    *)
(* and the X servers.                                                      *)

Conversation == <<sock, requests, replies, pending, ssm, stale, abandoned>>
Processes == <<x, xprocs, killed, byStartx>>

\* A step that does not touch the connection, and makes no request go away.
LEMMA SameConversation ==
    ASSUME Line, InStep, UNCHANGED Conversation, sent' => sent /\ step' = step,
           sent => sent' \/ abandoned
    PROVE  Line' /\ InStep'
BY DEF Line, InStep, Conversation, Silent, OneRequest

StopVizEnds == step' = "idle" /\ result' = <<"stopViz", "ok">>

LEMMA SameProcesses ==
    ASSUME Owned, StopMeansKilled, UNCHANGED Processes,
           StopVizEnds => UNCHANGED <<step, result>>
    PROVE  Owned' /\ StopMeansKilled'
BY DEF Owned, StopMeansKilled, Processes, StopVizEnds

\* The connection is closed: nothing is on the way to the script, and the SSM will see it.
LEMMA DisconnectEffect ==
    ASSUME TypeOK, Line, Disconnect, ~sent', abandoned' \in BOOLEAN
    PROVE  /\ Line' /\ InStep'
           /\ sock' \in {"open", "none"} /\ stale' \in BOOLEAN /\ ssm' \in BOOLEAN
           /\ alloc' \in BOOLEAN /\ pending' \in {"none", "up", "down"}
           /\ cleaner' \in {"open", "stale", "none"} /\ config' \subseteq Servers
BY DEF TypeOK, Line, InStep, Disconnect
-----------------------------------------------------------------------------
(* Requests and their replies.                                             *)

LEMMA SendInv == IInv /\ Send => IInv'
<1> SUFFICES ASSUME IInv, Send PROVE IInv'
  OBVIOUS
<1> USE RequestProperties, StepsAll DEF IInv
<1>1. step \in Requesting /\ ~sent
  BY DEF Send
<1>2. CASE Raise("VizError") /\ UNCHANGED requests
  <2>1. step' \in Steps /\ sent' = FALSE /\ ~StopVizEnds
    BY <1>1, <1>2, RaiseEffect DEF StopVizEnds
  <2>2. TypeOK'
    BY <2>1 DEF TypeOK, Send
  <2>3. Line' /\ InStep'
    BY <1>1, <1>2, <2>1, SameConversation DEF Send, Conversation
  <2>4. Owned' /\ StopMeansKilled'
    BY <2>1, SameProcesses DEF Send, Processes
  <2> QED
    BY <2>2, <2>3, <2>4
<1>3. CASE Raise("socket.error") /\ UNCHANGED requests
  <2>1. step' \in Steps /\ sent' = FALSE /\ ~StopVizEnds
    BY <1>1, <1>3, RaiseEffect DEF StopVizEnds
  <2>2. TypeOK'
    BY <2>1 DEF TypeOK, Send
  <2>3. Line' /\ InStep'
    BY <1>1, <1>3, <2>1, SameConversation DEF Send, Conversation
  <2>4. Owned' /\ StopMeansKilled'
    BY <2>1, SameProcesses DEF Send, Processes
  <2> QED
    BY <2>2, <2>3, <2>4
<1>4. CASE /\ sock = "open" /\ sent' = TRUE
           /\ requests' = IF ssm THEN Append(requests, Request[step]) ELSE requests
           /\ UNCHANGED <<step, result>>
  <2>1. TypeOK'
    BY <1>4 DEF TypeOK, Send
  <2>2. Line'
    BY <1>1, <1>4 DEF Line, Send
  <2>3. InStep'
    <3>1. requests = <<>> => Append(requests, Request[step]) = <<Request[step]>>
      OBVIOUS
    <3> QED
      BY <1>1, <1>4, <3>1 DEF InStep, Silent, OneRequest, Send
  <2>4. Owned' /\ StopMeansKilled'
    BY <1>4, SameProcesses DEF Send, Processes
  <2> QED
    BY <2>1, <2>2, <2>3, <2>4
<1> QED
  BY <1>2, <1>3, <1>4 DEF Send

LEMMA ReceiveInv == IInv /\ Receive => IInv'
<1> SUFFICES ASSUME IInv, Receive PROVE IInv'
  OBVIOUS
<1> USE RequestProperties, StepsAll DEF IInv
<1>1. step \in Requesting /\ sent /\ sock = "open" /\ UNCHANGED Processes
  BY DEF Receive, Processes
<1>2. Return \/ Raise("VizError")
  BY DEF Receive
<1>3. step' \in Steps /\ sent' = FALSE /\ ~StopVizEnds
  BY <1>1, <1>2, RaiseEffect, ReturnEffect DEF StopVizEnds
<1>4. held' \in BOOLEAN /\ ready' \subseteq Servers
  BY DEF Receive, Return, DecodeAllocation, TypeOK
<1>5. Owned' /\ StopMeansKilled'
  BY <1>1, <1>3, SameProcesses
<1>6. CASE replies # <<>> /\ replies' = Tail(replies) /\ UNCHANGED <<sock, requests, server>>
  <2>1. TypeOK'
    BY <1>3, <1>4, <1>6 DEF TypeOK, Receive
  <2>2. Line'
    BY <1>1, <1>3, <1>6 DEF Line
  <2>3. InStep'
    <3>1. ASSUME ~abandoned PROVE Silent'
      <4>1. requests = <<>> /\ pending = "none"
        BY <1>1, <1>6, <3>1 DEF InStep, OneRequest, Silent
      <4>2. PICK m : replies = <<m>>
        BY <1>1, <1>6, <3>1 DEF InStep, OneRequest, Silent
      <4>3. Tail(replies) = <<>>
        BY <4>2
      <4> QED
        BY <1>6, <4>1, <4>3 DEF Silent
    <3> QED
      BY <1>3, <3>1 DEF InStep, Receive
  <2> QED
    BY <1>5, <2>1, <2>2, <2>3
<1>7. CASE Disconnect
  <2>1. abandoned' \in BOOLEAN
    BY DEF TypeOK, Receive
  <2>2. Line' /\ InStep'
    BY <1>3, <1>7, <2>1, DisconnectEffect
  <2>3. TypeOK'
    BY <1>3, <1>4, <1>7, <2>1, DisconnectEffect DEF TypeOK, Receive
  <2> QED
    BY <1>5, <2>2, <2>3
<1> QED
  BY <1>6, <1>7 DEF Receive

LEMMA InterruptInv == IInv /\ Interrupt => IInv'
<1> SUFFICES ASSUME IInv, Interrupt PROVE IInv'
  OBVIOUS
<1> USE RequestProperties, StepsAll DEF IInv
<1>1. step' \in Steps /\ sent' = FALSE /\ ~StopVizEnds
  BY RaiseEffect DEF Interrupt, StopVizEnds
<1>2. TypeOK'
  BY <1>1 DEF TypeOK, Interrupt, NotDisconnected
<1>3. Line' /\ InStep'
  BY <1>1 DEF Line, InStep, Interrupt, NotDisconnected
<1>4. Owned' /\ StopMeansKilled'
  BY <1>1, SameProcesses DEF Interrupt, Processes
<1> QED
  BY <1>2, <1>3, <1>4
-----------------------------------------------------------------------------
(* The calls.                                                              *)

\* Between calls nothing is asked.
LEMMA IdleAsksNothing == Line /\ step \notin Requesting => ~sent
BY DEF Line

LEMMA CallInv ==
    ASSUME IInv, NEW s \in Requesting, Call(s), ready' \subseteq Servers
    PROVE  IInv'
<1> USE RequestProperties, StepsAll DEF IInv
<1>1. step = "idle" /\ ~sent /\ ~sent' /\ step' = s /\ s # "idle"
  BY IdleAsksNothing DEF Call, Idle, Requesting
<1>2. TypeOK'
  BY <1>1 DEF TypeOK, Call, NotDisconnected
<1>3. Line' /\ InStep'
  BY <1>1, SameConversation DEF Call, NotDisconnected, Conversation
<1>4. Owned' /\ StopMeansKilled'
  BY <1>1, SameProcesses DEF Call, Processes, StopVizEnds
<1> QED
  BY <1>2, <1>3, <1>4

Calling ==
    \/ Allocate \/ Attach \/ Query \/ SetupViz \/ UpdateServerConfig \/ WaitXState
    \/ StopXServers \/ Deallocate \/ StopViz

LEMMA CallingInv == IInv /\ Calling => IInv'
<1> SUFFICES ASSUME IInv, Calling PROVE IInv'
  OBVIOUS
<1>1. PICK s \in Requesting : Call(s)
  BY DEF Calling, Allocate, Attach, Query, SetupViz, UpdateServerConfig, WaitXState,
         StopXServers, Deallocate, StopViz, Requesting
<1>2. ready' \subseteq Servers
  BY DEF Calling, Allocate, Attach, Query, SetupViz, UpdateServerConfig, WaitXState,
         StopXServers, Deallocate, StopViz, IInv, TypeOK
<1> QED
  BY <1>1, <1>2, CallInv

LEMMA StopInv == IInv /\ Stop => IInv'
<1> SUFFICES ASSUME IInv, Stop PROVE IInv'
  OBVIOUS
<1> USE DEF IInv
<1>1. ~sent' /\ abandoned' \in BOOLEAN
  BY IdleAsksNothing DEF Stop, Idle, TypeOK, Requesting
<1>2. Line' /\ InStep'
  BY <1>1, DisconnectEffect DEF Stop
<1>3. TypeOK'
  BY <1>1, DisconnectEffect DEF TypeOK, Stop
<1>4. Owned' /\ StopMeansKilled'
  BY SameProcesses DEF Stop, Processes
<1> QED
  BY <1>2, <1>3, <1>4

\* A new connection begins with nothing on the way: the SSM has seen the old one closed.
LEMMA StartInv == IInv /\ Start => IInv'
<1> SUFFICES ASSUME IInv, Start PROVE IInv'
  OBVIOUS
<1> USE DEF IInv
<1>1. ~sent /\ Silent
  BY DEF Start, Line, Silent
<1>2. TypeOK'
  BY DEF TypeOK, Start
<1>3. Line' /\ InStep'
  BY <1>1 DEF Line, InStep, Silent, Start
<1>4. Owned' /\ StopMeansKilled'
  BY SameProcesses DEF Start, Processes
<1> QED
  BY <1>2, <1>3, <1>4

LEMMA SpawnedEffect ==
    ASSUME TypeOK, NEW ss
    PROVE  /\ Spawned(ss) \in [Servers -> {"off", "spawned", "connected", "up"}]
           /\ \A s \in Servers : Spawned(ss)[s] # "off" => x[s] # "off" \/ s \in ss
BY DEF TypeOK, Spawned

LEMMA StartVizInv == IInv /\ StartViz => IInv'
<1> SUFFICES ASSUME IInv, StartViz PROVE IInv'
  OBVIOUS
<1> USE RequestProperties, StepsAll DEF IInv
<1>1. PICK started \in SUBSET ready :
        /\ xprocs' = xprocs \o SetToSeq(started)
        /\ x' = Spawned(started)
        /\ byStartx' = byStartx \ {s \in started : x[s] = "off"}
  BY DEF StartViz
<1>2. step' \in {"startWait", "idle"} /\ ~StopVizEnds
  BY DEF StartViz, StopVizEnds
<1>3. ~sent /\ ~sent'
  BY IdleAsksNothing DEF StartViz, Idle, Requesting
<1>4. started \subseteq Servers /\ IsFiniteSet(started)
  BY SessionAssumption, FS_Subset DEF TypeOK
<1>5. SetToSeq(started) \in Seq(Servers) /\ ToSet(SetToSeq(started)) = started
  BY <1>4, SetToSeqProperties
<1>6. xprocs' \in Seq(Servers) /\ ToSet(xprocs') = ToSet(xprocs) \cup started
  BY <1>1, <1>5, ToSetConcat, ConcatProperties DEF TypeOK
<1>7. TypeOK'
  BY <1>1, <1>2, <1>6, SpawnedEffect DEF TypeOK, StartViz, NotDisconnected, Requesting
<1>8. Line' /\ InStep'
  BY <1>3, SameConversation DEF StartViz, NotDisconnected, Conversation
<1>9. Owned'
  BY <1>1, <1>6, SpawnedEffect DEF Owned, StartViz
<1>10. StopMeansKilled'
  BY <1>2 DEF StopMeansKilled, StopVizEnds
<1> QED
  BY <1>7, <1>8, <1>9, <1>10

LEMMA RunStartxInv == IInv /\ RunStartx => IInv'
<1> SUFFICES ASSUME IInv, RunStartx PROVE IInv'
  OBVIOUS
<1> USE RequestProperties, StepsAll DEF IInv
<1>1. ~sent /\ ~sent'
  BY IdleAsksNothing DEF RunStartx, Idle, Requesting
<1>2. TypeOK'
  BY SpawnedEffect DEF TypeOK, RunStartx, NotDisconnected, Requesting
<1>3. Line' /\ InStep'
  BY <1>1, SameConversation DEF RunStartx, NotDisconnected, Conversation
<1>4. Owned'
  BY SpawnedEffect DEF Owned, RunStartx, TypeOK
<1>5. StopMeansKilled'
  BY DEF StopMeansKilled, RunStartx
<1> QED
  BY <1>2, <1>3, <1>4, <1>5

LEMMA KillInv == IInv /\ Kill => IInv'
<1> SUFFICES ASSUME IInv, Kill PROVE IInv'
  OBVIOUS
<1> USE RequestProperties, StepsAll DEF IInv
<1>1. ~sent
  BY IdleAsksNothing DEF Kill, Killing, Requesting
<1>2. CASE xprocs = <<>>
  <2>1. /\ step' = "idle" /\ sent' = FALSE /\ UNCHANGED <<xprocs, killed>>
    BY <1>2 DEF Kill, Ends
  <2>2. TypeOK'
    BY <2>1 DEF TypeOK, Kill, NotDisconnected
  <2>3. Line' /\ InStep'
    BY <1>1, <2>1, SameConversation DEF Kill, NotDisconnected, Conversation
  <2>4. \A s \in Servers \ byStartx : x[s] = "off" \/ s \in killed
    BY <1>2 DEF Owned, ToSet
  <2>5. Owned' /\ StopMeansKilled'
    BY <2>1, <2>4 DEF Owned, StopMeansKilled, Kill
  <2> QED
    BY <2>2, <2>3, <2>5
<1>3. CASE xprocs # <<>>
  <2>1. Tail(xprocs) \in Seq(Servers) /\ ToSet(xprocs) = {Head(xprocs)} \cup ToSet(Tail(xprocs))
    BY <1>3, ToSetTail DEF TypeOK
  <2>2. Head(xprocs) \in Servers
    BY <1>3 DEF TypeOK
  <2>3. UNCHANGED <<step, sent, result>> /\ step # "idle"
    BY <1>3 DEF Kill, Killing
  <2>4. TypeOK'
    BY <1>3, <2>1, <2>2, <2>3 DEF TypeOK, Kill, NotDisconnected
  <2>5. Line' /\ InStep'
    BY <1>1, <2>3, SameConversation DEF Kill, NotDisconnected, Conversation
  <2>6. Owned'
    <3>1. /\ xprocs' = Tail(xprocs) /\ UNCHANGED <<x, byStartx>>
          /\ killed' = killed \cup {s \in {Head(xprocs)} : x[s] # "off"}
      BY <1>3 DEF Kill
    <3> QED
      BY <2>1, <3>1 DEF Owned
  <2>7. StopMeansKilled'
    BY <2>3 DEF StopMeansKilled, Kill
  <2> QED
    BY <2>4, <2>5, <2>6, <2>7
<1> QED
  BY <1>2, <1>3
-----------------------------------------------------------------------------
(* The SSM.                                                                *)

\* A request is answered, or deferred.
LEMMA ServeEffect ==
    ASSUME TypeOK, Serve
    PROVE  /\ \/ UNCHANGED pending /\ \E status \in {"ok", "error", "garbled"} :
                                          Reply(Head(requests), status)
              \/ pending' = Head(requests) /\ UNCHANGED replies
           /\ pending' \in {"none", "up", "down"} /\ alloc' \in BOOLEAN
           /\ cleaner' \in {"open", "stale", "none"}
           /\ config' \subseteq Servers /\ told' \subseteq Servers
<1> DEFINE r == Head(requests)
           answers == \E status \in {"ok", "error", "garbled"} : Reply(r, status)
           types == /\ alloc' \in BOOLEAN /\ cleaner' \in {"open", "stale", "none"}
                    /\ config' \subseteq Servers /\ told' \subseteq Servers
<1>1. types
  BY DEF Serve, TypeOK, RemoveAllocation
<1>2. (UNCHANGED pending /\ answers)
      \/ (r \in {"up", "down"} /\ pending' = r /\ UNCHANGED replies)
  BY DEF Serve
<1> QED
  BY <1>1, <1>2 DEF TypeOK

LEMMA ReplyEffect ==
    ASSUME Line, NEW r, NEW status, Reply(r, status)
    PROVE  /\ sock = "none" /\ stale => replies' = <<>>
           /\ sock = "open" /\ replies = <<>> => replies' = <<[to |-> r, status |-> status]>>
<1>1. Append(<<>>, [to |-> r, status |-> status]) = <<[to |-> r, status |-> status]>>
  OBVIOUS
<1> QED
  BY <1>1 DEF Line, Reply

LEMMA ServeInv == IInv /\ Serve => IInv'
<1> SUFFICES ASSUME IInv, Serve PROVE IInv'
  OBVIOUS
<1> USE DEF IInv
<1> DEFINE r == Head(requests)
<1>1. /\ ssm /\ requests # <<>> /\ requests' = Tail(requests)
      /\ UNCHANGED <<client, ssm, stale, x, killed, history>>
  BY DEF Serve
<1>2. TypeOK'
  BY <1>1, ServeEffect DEF TypeOK
<1>3. \/ UNCHANGED pending /\ \E status \in {"ok", "error", "garbled"} : Reply(r, status)
      \/ pending' = r /\ UNCHANGED replies
  BY ServeEffect
<1>4. sock = "none" => stale /\ replies' = <<>>
  BY <1>1, <1>3, ReplyEffect DEF Line, TypeOK
<1>5. Line'
  BY <1>1, <1>4 DEF Line
<1>6. InStep'
  <2> SUFFICES ASSUME sock = "open", ~abandoned PROVE InStep'
    BY <1>1 DEF InStep
  <2>1. sent /\ requests = <<Request[step]>> /\ replies = <<>> /\ pending = "none"
    BY <1>1 DEF InStep, Silent, OneRequest
  <2>2. r = Request[step] /\ requests' = <<>>
    BY <1>1, <2>1
  <2>3. CASE pending' = r /\ UNCHANGED replies
    BY <1>1, <2>1, <2>2, <2>3 DEF InStep, OneRequest
  <2>4. ASSUME UNCHANGED pending, NEW status \in {"ok", "error", "garbled"}, Reply(r, status)
        PROVE  InStep'
    <3>1. replies' = <<[to |-> Request[step], status |-> status]>>
      BY <2>1, <2>2, <2>4, ReplyEffect
    <3> QED
      BY <1>1, <2>1, <2>2, <2>4, <3>1 DEF InStep, OneRequest
  <2> QED
    BY <1>3, <2>3, <2>4
<1>7. Owned' /\ StopMeansKilled'
  BY <1>1, SameProcesses DEF Processes
<1> QED
  BY <1>2, <1>5, <1>6, <1>7

LEMMA EvaluateInv == IInv /\ Evaluate => IInv'
<1> SUFFICES ASSUME IInv, Evaluate PROVE IInv'
  OBVIOUS
<1> USE DEF IInv
<1>1. /\ ssm /\ pending # "none" /\ pending' = "none"
      /\ UNCHANGED <<client, ssm, alloc, config, xservers, history>>
  BY DEF Evaluate
<1>2. TypeOK'
  BY DEF TypeOK, Evaluate
<1>3. Owned' /\ StopMeansKilled'
  BY <1>1, SameProcesses DEF Processes
<1>4. CASE /\ \E status \in {"ok", "error"} : Reply(pending, status)
           /\ UNCHANGED <<requests, stale, cleaner>>
  <2>1. sock = "none" => stale /\ replies' = <<>>
    BY <1>1, <1>4, ReplyEffect DEF Line, TypeOK
  <2>2. Line'
    BY <1>1, <1>4, <2>1 DEF Line
  <2>3. ASSUME sock = "open", ~abandoned PROVE sent /\ OneRequest(Request[step])'
    <3>1. sent /\ requests = <<>> /\ replies = <<>> /\ pending = Request[step]
      BY <1>1, <2>3 DEF InStep, Silent, OneRequest
    <3> QED
      BY <1>1, <1>4, <2>3, <3>1, ReplyEffect DEF OneRequest
  <2>4. InStep'
    BY <1>1, <2>3 DEF InStep
  <2> QED
    BY <1>2, <1>3, <2>2, <2>4
<1>5. CASE stale /\ stale' = FALSE /\ requests' = <<>> /\ UNCHANGED replies
  BY <1>1, <1>2, <1>3, <1>5 DEF Line, InStep, TypeOK
<1> QED
  BY <1>4, <1>5 DEF Evaluate

LEMMA SeeClosedInv == IInv /\ SeeClosed => IInv'
<1> SUFFICES ASSUME IInv, SeeClosed PROVE IInv'
  OBVIOUS
<1> USE DEF IInv
<1>1. TypeOK'
  BY DEF TypeOK, SeeClosed, RemoveAllocation
<1>2. Line' /\ InStep'
  BY DEF Line, InStep, SeeClosed, TypeOK
<1>3. Owned' /\ StopMeansKilled'
  BY SameProcesses DEF SeeClosed, Processes
<1> QED
  BY <1>1, <1>2, <1>3

LEMMA RemovedByOtherInv == IInv /\ RemovedByOther => IInv'
<1> SUFFICES ASSUME IInv, RemovedByOther PROVE IInv'
  OBVIOUS
<1> USE DEF IInv
<1>1. TypeOK'
  BY DEF TypeOK, RemovedByOther, RemoveAllocation
<1>2. Line' /\ InStep'
  BY SameConversation DEF RemovedByOther, Conversation
<1>3. Owned' /\ StopMeansKilled'
  BY SameProcesses DEF RemovedByOther, Processes
<1> QED
  BY <1>1, <1>2, <1>3

\* What the SSM had not answered is lost with it.
LEMMA SsmDiesInv == IInv /\ SsmDies => IInv'
<1> SUFFICES ASSUME IInv, SsmDies PROVE IInv'
  OBVIOUS
<1> USE DEF IInv
<1>1. TypeOK'
  BY DEF TypeOK, SsmDies
<1>2. Line' /\ InStep'
  BY DEF Line, InStep, Silent, OneRequest, SsmDies
<1>3. Owned' /\ StopMeansKilled'
  BY SameProcesses DEF SsmDies, Processes
<1> QED
  BY <1>1, <1>2, <1>3
-----------------------------------------------------------------------------
(* X servers, and the whole.                                               *)

XStep(s) == XConnects(s) \/ XComesUp(s) \/ XEnds(s)

LEMMA XStepInv == ASSUME NEW s \in Servers PROVE IInv /\ XStep(s) => IInv'
<1> SUFFICES ASSUME IInv, XStep(s) PROVE IInv'
  OBVIOUS
<1> USE DEF IInv
<1>1. UNCHANGED <<client, requests, replies, server, history>>
  BY DEF XStep, XConnects, XComesUp, XEnds
<1>2. /\ x' \in [Servers -> {"off", "spawned", "connected", "up"}]
      /\ \A t \in Servers : x'[t] # "off" => x[t] # "off"
      /\ \A t \in Servers : x'[t] # "off" /\ t \in killed => t \in killed'
  BY DEF XStep, XConnects, XComesUp, XEnds, TypeOK
<1>3. told' \subseteq Servers /\ killed' \subseteq Servers
  BY DEF XStep, XConnects, XComesUp, XEnds, TypeOK
<1>4. TypeOK'
  BY <1>1, <1>2, <1>3 DEF TypeOK
<1>5. Line' /\ InStep'
  BY <1>1, SameConversation DEF Conversation
<1>6. Owned' /\ StopMeansKilled'
  BY <1>1, <1>2 DEF Owned, StopMeansKilled
<1> QED
  BY <1>4, <1>5, <1>6

LEMMA NextInv == IInv /\ [Next]_vars => IInv'
<1> SUFFICES ASSUME IInv, [Next]_vars PROVE IInv'
  OBVIOUS
<1>1. CASE UNCHANGED vars
  <2>1. TypeOK' /\ Line' /\ InStep'
    BY <1>1 DEF IInv, vars, TypeOK, Line, InStep, Silent, OneRequest
  <2>2. Owned' /\ StopMeansKilled'
    BY <1>1, SameProcesses DEF IInv, vars, Processes
  <2> QED
    BY <2>1, <2>2 DEF IInv
<1>2. CASE Calling
  BY <1>2, CallingInv
<1>3. CASE \E s \in Servers : XStep(s)
  BY <1>3, XStepInv
<1>4. CASE Send \/ Receive \/ Interrupt \/ Stop \/ Start
  BY <1>4, SendInv, ReceiveInv, InterruptInv, StopInv, StartInv
<1>5. CASE StartViz \/ RunStartx \/ Kill
  BY <1>5, StartVizInv, RunStartxInv, KillInv
<1>6. CASE Serve \/ Evaluate \/ SeeClosed \/ RemovedByOther \/ SsmDies
  BY <1>6, ServeInv, EvaluateInv, SeeClosedInv, RemovedByOtherInv, SsmDiesInv
<1> QED
  BY <1>1, <1>2, <1>3, <1>4, <1>5, <1>6 DEF Next, Calling, XStep

\* The invariant: what is on the way between the script and the SSM is the one request of
\* this step or its answer, whoever has closed, died or deallocated, and each X server that
\* runs is a process of this script or of its startx.
THEOREM SessionInvariance == Spec => []IInv
<1>1. Init => IInv
  BY InitInv
<1>2. IInv /\ [Next]_vars => IInv'
  BY NextInv
<1> QED
  BY <1>1, <1>2, PTL DEF Spec

\* __sendAndRecvMessage takes the next message for the answer: it is the answer, for any
\* sequence of calls, refusals, reconnections and ends of the SSM, until a wait is given up
\* with ^C.
THEOREM RepliesMatch == Spec => []RepliesInStep
<1>1. IInv => RepliesInStep
  <2> SUFFICES ASSUME IInv, ~abandoned, sent, replies # <<>>
               PROVE  replies[1].to = Request[step] /\ Len(replies) = 1
    BY DEF RepliesInStep
  <2>1. sock = "open" /\ OneRequest(Request[step])
    BY DEF IInv, Line, InStep, TypeOK
  <2> QED
    BY <2>1 DEF OneRequest, Silent
<1> QED
  BY <1>1, SessionInvariance, PTL

\* stopViz returns without an exception only when each X server that startViz has started,
\* in this call of it or an earlier one, has ended or has had its process killed: the list
\* of processes survives every failed start, refused request and ^C in between.
THEOREM StopVizKills == Spec => []StopMeansKilled
<1>1. IInv => StopMeansKilled
  BY DEF IInv
<1> QED
  BY <1>1, SessionInvariance, PTL
=============================================================================
