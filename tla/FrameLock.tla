------------------------------ MODULE FrameLock ------------------------------
(***************************************************************************)
(* Frame lock: a script reads the state of all GPUs of an allocation with  *)
(* nvidia-settings, checks it, sends the GPUs one command after the other, *)
(* and reads them again.  Nobody looks at what a command returns.  The     *)
(* sync rate, by which a call finds out whether it has succeeded, is asked *)
(* for without naming a GPU: each X server answers for its first one.      *)
(*                                                                         *)
(* The GPUs, their cables and nvidia-settings are external: a command may  *)
(* be lost, an X server may be restarted, and the user may change a        *)
(* display's refresh rate, at any time.                                    *)
(***************************************************************************)
EXTENDS Naturals, Sequences, FiniteSets, SequencesExt

CONSTANTS
    Chain,     \* the GPUs, in the order of their servers and screens
    XServer,   \* the X server of each GPU
    Port,      \* the outputs of a GPU
    Layouts,   \* the sets of outputs in use that are considered, one for each GPU
    Rate,      \* refresh rates, in Hz
    MaxCalls   \* bound on the calls

ASSUME FrameLockAssumption ==
    /\ Chain \in Seq(ToSet(Chain)) /\ Chain # <<>>
    /\ DOMAIN XServer = ToSet(Chain)
    /\ Port \subseteq Nat /\ IsFiniteSet(Port) /\ Rate \subseteq Nat \ {0}
    /\ Layouts \subseteq [ToSet(Chain) -> (SUBSET Port) \ {{}}]

VARIABLES
    ports,      \* the outputs of each GPU that drive a display
    connected,  \* the GPUs with a frame lock device
    cable,      \* the GPUs whose devices are chained to that of the first one
    stereo,     \* the GPUs on a screen with stereo
    rate,       \* the refresh rate of each GPU's displays
    gpu,        \* what each GPU is set to: enable, master, slaves
    call,       \* the call in progress, or "none"
    plan,       \* the commands that it has still to send
    result,     \* how the last call ended: <<call, "ok" or "error">>
    calls,      \* counts the calls
    disturbed   \* (history) since the last call that was not refused began, it broke, a
                \* command was lost, or an X server restarted

site == <<ports, connected, cable, stereo>>
vars == <<site, rate, gpu, call, plan, result, calls, disturbed>>

Gpus == ToSet(Chain)
First == Chain[1]
Off == [enable |-> FALSE, master |-> {}, slaves |-> {}]

Init ==
    /\ ports \in Layouts
    /\ connected \in {Gpus, Gpus \ {First}}
    /\ cable \in {gs \in SUBSET Gpus : First \in gs}
    /\ stereo \in {{}, {First}}
    /\ rate \in [Gpus -> Rate]
    /\ gpu = [g \in Gpus |-> Off]
    /\ call = "none" /\ plan = <<>> /\ result = <<"none", "ok">> /\ calls = 0
    /\ disturbed = FALSE
-----------------------------------------------------------------------------
(* What can be read of a GPU.                                              *)

Masters == {g \in Gpus : gpu[g].enable /\ gpu[g].master # {}}

\* External: the GPUs that a master's signal reaches, and is of use to.
Reached(g, m) == g = m \/ {g, m} \subseteq cable

\* External: FrameLockSyncRate, which is 0 without a signal.
SyncRate(g) ==
    LET heard == {m \in Masters : Reached(g, m)}
    IN  IF gpu[g].enable /\ heard # {} THEN rate[CHOOSE m \in heard : TRUE] ELSE 0

\* The GPU of the same X server that comes first in the chain.
Answering(g) ==
    Chain[CHOOSE i \in DOMAIN Chain :
            /\ XServer[Chain[i]] = XServer[g]
            /\ \A j \in DOMAIN Chain : j < i => XServer[Chain[j]] # XServer[g]]

\* What is read: "-q FrameLockSyncRate" names no GPU, and the first line of the answer is taken.
ReadSyncRate(g) == SyncRate(Answering(g))

\* The checks.  Both calls refuse when a GPU is not connected (in words that raise an
\* exception of their own) and when refresh rates differ.
Available == connected = Gpus
Enabled == {g \in Gpus : gpu[g].enable}
SameRate == \A g \in Gpus : rate[g] = rate[First]
SameStereo == stereo \in {{}, Gpus}

MayEnable == Available /\ Enabled = {} /\ SameRate /\ SameStereo
MayDisable == Available /\ Enabled = Gpus /\ SameRate
-----------------------------------------------------------------------------
(* The commands.                                                           *)

Command(g, prop, val) == [on |-> g, prop |-> prop, val |-> val]

\* Two commands for each of some GPUs, one GPU after the other.
InTurn(gs, Commands(_)) ==
    [i \in 1..2 * Len(gs) |-> Commands(gs[(i + 1) \div 2])[IF i % 2 = 1 THEN 1 ELSE 2]]

\* Ports in the order in which the code takes them.
InOrder(ps) == SetToSortSeq(ps, <)

\* The first output becomes master, the other a slave: on the first GPU, but with the
\* outputs of the GPU that was read last.
MasterOutputs == ports[Last(Chain)]
MasterCommands ==
    LET ps == InOrder(MasterOutputs)
    IN  [i \in 1..Cardinality(MasterOutputs) |->
            Command(First, IF i = 1 THEN "master" ELSE "slaves", {ps[i]})]

SlaveCommands(g) == <<Command(g, "slaves", ports[g]), Command(g, "master", {})>>

EnableCommands == [i \in 1..Len(Chain) |-> Command(Chain[i], "enable", TRUE)]

EnablePlan ==
    MasterCommands \o (InTurn(Tail(Chain), SlaveCommands) \o EnableCommands)

Reset(g) == <<Command(g, "master", {}), Command(g, "slaves", {})>>
DisableCommands == [i \in 1..Len(Chain) |-> Command(Chain[i], "enable", FALSE)]
DisablePlan == DisableCommands \o InTurn(Chain, Reset)

\* External: an output that drives no display cannot be master or slave.
Applied(c) ==
    LET outputs == c.val \cap ports[c.on]
    IN  [gpu EXCEPT ![c.on] =
            CASE c.prop = "enable" -> [@ EXCEPT !.enable = c.val]
              [] c.prop = "master" -> [@ EXCEPT !.master = outputs]
              [] c.prop = "slaves" -> [@ EXCEPT !.slaves = outputs]]
-----------------------------------------------------------------------------
(* The calls.                                                              *)

Begin(name, may, commands) ==
    /\ call = "none" /\ calls < MaxCalls
    /\ calls' = calls + 1
    /\ IF may THEN call' = name /\ plan' = commands /\ disturbed' = FALSE /\ UNCHANGED result
       ELSE result' = <<name, "error">> /\ UNCHANGED <<call, plan, disturbed>>
    /\ UNCHANGED <<site, rate, gpu>>

EnableFrameLock == Begin("enable", MayEnable, EnablePlan)
DisableFrameLock == Begin("disable", MayDisable, DisablePlan)

\* __set_nvidia_settings.
SetNvidiaSettings ==
    /\ plan # <<>>
    /\ gpu' = Applied(Head(plan)) /\ plan' = Tail(plan)
    /\ UNCHANGED <<site, rate, call, result, calls, disturbed>>

Lost ==
    /\ plan # <<>>
    /\ plan' = Tail(plan) /\ disturbed' = TRUE
    /\ UNCHANGED <<site, rate, gpu, call, result, calls>>

\* The program that was to run nvidia-settings cannot be started, or its output is not as
\* expected: the exception leaves what was set so far.
Breaks ==
    /\ call # "none"
    /\ call' = "none" /\ plan' = <<>> /\ result' = <<call, "error">> /\ disturbed' = TRUE
    /\ UNCHANGED <<site, rate, gpu, calls>>

\* The chain is read again: all GPUs have the sync rate of the first, and it is not 0, or 0.
Verified_First(name) ==
    IF name = "enable" THEN ReadSyncRate(First) # 0 ELSE ReadSyncRate(First) = 0
Verified(name) ==
    /\ \A g \in Gpus : ReadSyncRate(g) = ReadSyncRate(First)
    /\ IF name = "enable" THEN ReadSyncRate(First) # 0 ELSE ReadSyncRate(First) = 0

Verify ==
    /\ call # "none" /\ plan = <<>>
    /\ result' = <<call, IF Verified(call) THEN "ok" ELSE "error">>
    /\ call' = "none"
    /\ UNCHANGED <<site, rate, gpu, plan, calls, disturbed>>

\* The user switches a display to another mode.
ChangeRate(g, r) ==
    /\ r # rate[g] /\ rate' = [rate EXCEPT ![g] = r]
    /\ UNCHANGED <<site, gpu, call, plan, result, calls, disturbed>>

RestartX(g) ==
    /\ gpu[g] # Off
    /\ gpu' = [gpu EXCEPT ![g] = Off] /\ disturbed' = TRUE
    /\ UNCHANGED <<site, rate, call, plan, result, calls>>
-----------------------------------------------------------------------------
Next ==
    \/ EnableFrameLock \/ DisableFrameLock
    \/ SetNvidiaSettings \/ Lost \/ Breaks \/ Verify
    \/ \E g \in Gpus, r \in Rate : ChangeRate(g, r)
    \/ \E g \in Gpus : RestartX(g)

Spec == Init /\ [][Next]_vars
-----------------------------------------------------------------------------
(* Properties.                                                             *)

\* A call that reports success has had it.  Whatever was lost, broke or restarted in this call
\* and those before, after enabling one master is left, and the first GPU of each X server is
\* locked to it, and after disabling no master is left.  All GPUs are on, or off with nothing
\* left set, if nothing was lost and no X server restarted in this call, though before it.
\* Of other GPUs of an X server it does not say that the signal reaches them: nobody asks.
SuccessMeansLocked ==
    [][call # "none" /\ call' = "none" /\ result' = <<call, "ok">> =>
          IF call = "enable"
          THEN /\ Masters = {First}
               /\ \A g \in Gpus : LET a == Answering(g) IN gpu[a].enable /\ Reached(a, First)
               /\ ~disturbed => Enabled = Gpus
          ELSE /\ Masters = {}
               /\ ~disturbed => \A g \in Gpus : gpu[g] = Off]_vars

\* "Check FrameLockSyncRate on all GPUs": what is reported as locked is, GPU by GPU.
SuccessMeansAllLocked ==
    [][call = "enable" /\ call' = "none" /\ result' = <<"enable", "ok">> /\ ~disturbed =>
          \A g \in Gpus : Reached(g, First)]_vars

\* Frame lock is on everywhere or nowhere between calls,
\* so that enabling or disabling is possible:
\* "You need to disable framelock on these before trying to enable framelock."
WayOut == call = "none" /\ Enabled # {} => Enabled = Gpus

\* "Setup the first available display on first GPU as master": what satisfies the checks and
\* is cabled can be locked.
EnableWorks ==
    [][call = "enable" /\ call' = "none" /\ ~disturbed' /\ cable = Gpus
         => result' = <<"enable", "ok">>]_vars
==============================================================================
