----------------------------- MODULE WaitTimers -----------------------------
(***************************************************************************)
(* The clock side of WaitXState in the SSM's main loop: every pending      *)
(* request has a deadline, and select() sleeps until the loop should look  *)
(* at them again.  Time is counted in the whole seconds that the timeouts  *)
(* and the rounded-up sleep are given in; handlers take no time.           *)
(***************************************************************************)
EXTENDS Integers, FiniteSets, FiniteSetsExt

CONSTANTS
    Client,
    Timeouts,       \* the timeouts that clients ask for
    MaxTime,        \* bound on the clock
    Idle,           \* deadline of a client that does not wait
    Never           \* no deadline: an infinite timeout, an endless sleep

ASSUME WaitTimersAssumption ==
    /\ Timeouts \subseteq Nat \ {0}
    /\ MaxTime \in Nat
    /\ Idle # Never /\ {Idle, Never} \cap Nat = {}

VARIABLES
    now,            \* time.time()
    at,             \* "loop": evaluating requests, "select": asleep
    wake,           \* when select() times out
    endAt           \* requestParams["endAt"] of each client

timersVars == <<now, at, wake, endAt>>

TimersTypeOK ==
    /\ now \in 0..MaxTime
    /\ at \in {"loop", "select"}
    /\ wake \in 0..MaxTime \cup {Never}
    /\ endAt \in [Client -> 0..MaxTime \cup {Idle, Never}]

TimersInit == now = 0 /\ at = "loop" /\ wake = Never /\ endAt = [c \in Client |-> Idle]

Timed == {c \in Client : endAt[c] \notin {Idle, Never}}
Due == {c \in Timed : endAt[c] <= now}

-----------------------------------------------------------------------------
Sleep_Endless(deadlines) == Never

Sleep_RoundsPast(deadlines) == IF deadlines = {} THEN Never ELSE Max(deadlines) + 1

\* The sleep goes on to the latest deadline.
Sleep(deadlines) == IF deadlines = {} THEN Never ELSE Max(deadlines)

\* The requests whose time is up, and those whose X servers are in the state
\* waited for, are answered; the others decide how long select() may sleep.
Evaluate(matched) ==
    /\ at = "loop"
    /\ endAt' = [c \in Client |-> IF c \in Due \cup matched THEN Idle ELSE endAt[c]]
    /\ wake' = Sleep({endAt[c] : c \in Timed \ (Due \cup matched)})
    /\ at' = "select"
    /\ UNCHANGED now

Until(t) == IF t = Never THEN Never ELSE now + t

\* A client sends WaitXState, with or without a timeout.
Wait(c, t) ==
    /\ at = "select" /\ endAt[c] = Idle
    /\ Until(t) \in 0..MaxTime \cup {Never}
    /\ endAt' = [endAt EXCEPT ![c] = Until(t)]
    /\ at' = "loop"
    /\ UNCHANGED <<now, wake>>

\* Any other message, of an X client that changes the state of its server, say.
OtherMessage ==
    /\ at = "select"
    /\ at' = "loop"
    /\ UNCHANGED <<now, wake, endAt>>

SleptEnough == at = "select" /\ wake # Never /\ now >= wake

WakeUp == /\ SleptEnough
          /\ at' = "loop"
          /\ UNCHANGED <<now, wake, endAt>>

\* Time passes while select() sleeps, and not beyond its timeout.
Tick ==
    /\ at = "select" /\ ~SleptEnough
    /\ now < MaxTime
    /\ now' = now + 1
    /\ UNCHANGED <<at, wake, endAt>>

TimersNext ==
    \/ \E matched \in SUBSET {c \in Client : endAt[c] # Idle} : Evaluate(matched)
    \/ \E c \in Client, t \in Timeouts \cup {Never} : Wait(c, t)
    \/ OtherMessage
    \/ WakeUp
    \/ Tick

\* The loop runs, select() returns in time, and the clock does not stop.
TimersSpec ==
    /\ TimersInit /\ [][TimersNext]_timersVars
    /\ WF_timersVars(\E matched \in SUBSET {c \in Client : endAt[c] # Idle} : Evaluate(matched))
    /\ WF_timersVars(WakeUp)
    /\ SF_timersVars(Tick)

-----------------------------------------------------------------------------
\* While requests with a timeout are pending, the loop looks at them again by
\* the latest of their deadlines (vs-ssm:1571-1587).
LatestInTime == Timed # {} => now <= Max({endAt[c] : c \in Timed})

\* A request with a timeout is answered (vs-ssm:1503).
TimedAnswered == \A c \in Client : (c \in Timed) ~> (c \notin Timed)

\* ... by its own deadline (vsapi.py:4709).
EachInTime == \A c \in Timed : now <= endAt[c]
=============================================================================
