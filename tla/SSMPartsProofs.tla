--------------------------- MODULE SSMPartsProofs ---------------------------
(***************************************************************************)
(* Theorems about what runs in the SSM beside its main loop, and in the    *)
(* scheduler objects that it holds: the X servers' configurations          *)
(* (ServerConfig), the deadlines of pending requests (WaitTimers), and the *)
(* reservations of nodes (Reservations).  The three share no state; each   *)
(* section is about one of them, for any values of its constants.          *)
(***************************************************************************)
EXTENDS ServerConfig, WaitTimers, Reservations, NumberLemmas, FiniteSetTheorems, TLAPS

(***************************************************************************)
(* ServerConfig, for any GPUs, X servers and allocations: no job drives a  *)
(* GPU of another, and no update puts a GPU in two X servers of a node.    *)
(*                                                                         *)
(* The SSM checks an update against the GPUs of the allocation that makes  *)
(* it, once.  That what it has let in stays right is not checked anywhere: *)
(* it follows from Apart, that X servers and GPUs are granted to one       *)
(* allocation at a time, as the table has one entry for each X server,     *)
(* which any allocation that holds the X server may overwrite.             *)
(***************************************************************************)

\* X servers and GPUs are granted to one allocation at a time.
Apart ==
    \A a, b \in Alloc : a # b => servers[a] \cap servers[b] = {} /\ gpus[a] \cap gpus[b] = {}

ConfigIInv == ConfigTypeOK /\ Apart /\ ConfiguredIsOwn

LEMMA ConfigInitInv == ConfigInit => ConfigIInv
  BY ServerConfigAssumption DEF ConfigInit, ConfigIInv, ConfigTypeOK, Apart, ConfiguredIsOwn

\* A grant brings X servers that nobody has configured, as far as this allocation knows.
LEMMA AllocateKeeps ==
    ASSUME ConfigIInv, NEW a \in Alloc, NEW S \in SUBSET Server, NEW G \in SUBSET Gpu, Allocate(a, S, G)
    PROVE  ConfigIInv'
<1>1. /\ servers' = [servers EXCEPT ![a] = S] /\ gpus' = [gpus EXCEPT ![a] = G]
      /\ servers \in [Alloc -> SUBSET Server] /\ gpus \in [Alloc -> SUBSET Gpu]
      /\ \A b \in Alloc : S \cap servers[b] = {} /\ G \cap gpus[b] = {}
      /\ servers[a] = {}
  BY DEF Allocate, ConfigIInv, ConfigTypeOK, InForce
<1>2. /\ servers'[a] = S /\ gpus'[a] = G
      /\ \A b \in Alloc \ {a} : servers'[b] = servers[b] /\ gpus'[b] = gpus[b]
  BY <1>1
<1>3. S \cap chosen = {}
  BY <1>1 DEF ConfigIInv, ConfigTypeOK
<1>4. ConfigTypeOK'
  <2>1. chosen \subseteq UNION {servers'[b] : b \in Alloc}
    BY <1>1, <1>2 DEF ConfigIInv, ConfigTypeOK
  <2> QED
    BY <1>1, <2>1 DEF Allocate, ConfigIInv, ConfigTypeOK
<1>5. Apart'
  BY <1>1, <1>2 DEF ConfigIInv, Apart
<1>6. ConfiguredIsOwn'
  BY <1>2, <1>3 DEF ConfigIInv, ConfiguredIsOwn, Allocate
<1> QED
  BY <1>4, <1>5, <1>6 DEF ConfigIInv

LEMMA DeallocateKeeps ==
    ASSUME ConfigIInv, NEW a \in Alloc, Deallocate(a)
    PROVE  ConfigIInv'
<1>1. /\ servers' = [servers EXCEPT ![a] = {}] /\ gpus' = [gpus EXCEPT ![a] = {}]
      /\ servers \in [Alloc -> SUBSET Server] /\ gpus \in [Alloc -> SUBSET Gpu]
      /\ chosen' = chosen \ servers[a]
  BY DEF Deallocate, ConfigIInv, ConfigTypeOK
<1>2. /\ servers'[a] = {} /\ gpus'[a] = {}
      /\ \A b \in Alloc \ {a} : servers'[b] = servers[b] /\ gpus'[b] = gpus[b]
  BY <1>1
<1>3. ConfigTypeOK'
  <2>1. chosen' \subseteq UNION {servers'[b] : b \in Alloc}
    BY <1>1, <1>2 DEF ConfigIInv, ConfigTypeOK
  <2> QED
    BY <1>1, <2>1 DEF Deallocate, ConfigIInv, ConfigTypeOK
<1>4. Apart'
  BY <1>2 DEF ConfigIInv, Apart
<1>5. ConfiguredIsOwn'
  BY <1>1, <1>2 DEF ConfigIInv, ConfiguredIsOwn, Deallocate
<1> QED
  BY <1>3, <1>4, <1>5 DEF ConfigIInv

\* What an update puts in the table is of the allocation that makes it, and the X servers it
\* is put in are of no other.
LEMMA UpdateKeeps ==
    ASSUME ConfigIInv, NEW a \in Alloc, NEW req \in Requests(a), Update(a, req)
    PROVE  ConfigIInv'
<1>1. /\ DOMAIN req \subseteq servers[a]
      /\ \A s \in DOMAIN req : req[s] \subseteq gpus[a]
      /\ config' = [s \in Server |-> IF s \in DOMAIN req THEN req[s] ELSE config[s]]
      /\ chosen' = chosen \cup DOMAIN req
      /\ UNCHANGED <<gpus, servers, running, up>>
  BY DEF Requests, Update, ForeignGpus
<1>2. /\ servers \in [Alloc -> SUBSET Server] /\ gpus \in [Alloc -> SUBSET Gpu]
      /\ config \in [Server -> SUBSET Gpu]
  BY DEF ConfigIInv, ConfigTypeOK
<1>3. ConfigTypeOK'
  <2>1. config' \in [Server -> SUBSET Gpu]
    BY <1>1, <1>2
  <2> QED
    BY <1>1, <2>1 DEF ConfigIInv, ConfigTypeOK
<1>4. Apart'
  BY <1>1 DEF ConfigIInv, Apart
<1>5. ConfiguredIsOwn'
  <2> SUFFICES ASSUME NEW b \in Alloc, NEW s \in servers[b] \cap chosen'
               PROVE  config'[s] \subseteq gpus[b]
    BY <1>1 DEF ConfiguredIsOwn
  <2>1. CASE s \in DOMAIN req
    <3>1. b = a
      BY <1>1, <2>1 DEF ConfigIInv, Apart
    <3> QED
      BY <1>1, <1>2, <2>1, <3>1
  <2>2. CASE s \notin DOMAIN req
    BY <1>1, <1>2, <2>2 DEF ConfigIInv, ConfiguredIsOwn
  <2> QED
    BY <2>1, <2>2
<1> QED
  BY <1>3, <1>4, <1>5 DEF ConfigIInv

LEMMA CrashKeeps ==
    ASSUME ConfigIInv, NEW a \in Alloc, NEW req \in Requests(a), UpdateCrash(a, req)
    PROVE  ConfigIInv'
<1>1. /\ servers' = [b \in Alloc |-> {}] /\ gpus' = [b \in Alloc |-> {}] /\ chosen' = {}
      /\ UNCHANGED <<config, running>> /\ up' \in BOOLEAN
  BY DEF UpdateCrash
<1> QED
  BY <1>1 DEF ConfigIInv, ConfigTypeOK, Apart, ConfiguredIsOwn

LEMMA ConfigNextKeeps == ConfigIInv /\ [ConfigNext]_configVars => ConfigIInv'
<1> SUFFICES ASSUME ConfigIInv, [ConfigNext]_configVars PROVE ConfigIInv'
  OBVIOUS
<1>1. ASSUME NEW s \in Server, Start(s) \/ Stop(s) PROVE ConfigIInv'
  BY <1>1 DEF Start, Stop, ConfigIInv, ConfigTypeOK, Apart, ConfiguredIsOwn
<1>2. CASE UNCHANGED configVars \/ Down
  BY <1>2 DEF Down, configVars, ConfigIInv, ConfigTypeOK, Apart, ConfiguredIsOwn
<1>3. CASE ConfigNext
  BY <1>1, <1>2, <1>3, AllocateKeeps, DeallocateKeeps, UpdateKeeps, CrashKeeps DEF ConfigNext
<1> QED
  BY <1>2, <1>3

THEOREM ConfigInvariance == ConfigSpec => []ConfigIInv
  BY ConfigInitInv, ConfigNextKeeps, PTL DEF ConfigSpec

\* Whatever allocations come and go and however often a job configures its X servers, what
\* it has configured is its own (vs-ssm:703-714).
THEOREM OwnGpusOnly == ConfigSpec => []ConfiguredIsOwn
<1>1. ConfigIInv => ConfiguredIsOwn
  BY DEF ConfigIInv
<1> QED
  BY ConfigInvariance, <1>1, PTL

\* Two X servers with different numbers that one request configures have no GPU in common.
LEMMA RequestKeepsApart ==
    ASSUME NEW a \in Alloc, NEW req \in Requests(a), ConfigIInv, ~UsedTwice(req),
           NEW s \in DOMAIN req, NEW t \in DOMAIN req, IndexOf[s] # IndexOf[t]
    PROVE  req[s] \cap req[t] = {}
<1> SUFFICES ASSUME NEW g \in req[s] \cap req[t] PROVE FALSE
  OBVIOUS
<1> DEFINE users == {r \in DOMAIN req : g \in req[r]}
           numbers == {IndexOf[r] : r \in users}
<1>1. DOMAIN req \subseteq Server /\ g \in Gpu
  BY DEF Requests, ConfigIInv, ConfigTypeOK
<1>2. IsFiniteSet(users)
  BY <1>1, ServerConfigAssumption, FS_Subset
<1>3. IsFiniteSet(numbers)
  <2>1. [r \in users |-> IndexOf[r]] \in Surjection(users, numbers)
    BY DEF Surjection
  <2> QED
    BY <1>2, <2>1, FS_Surjection DEF ExistsSurjection
<1>4. {IndexOf[s], IndexOf[t]} \subseteq numbers
  OBVIOUS
<1>5. Cardinality({IndexOf[s], IndexOf[t]}) = 2
  <2>1. IsFiniteSet({IndexOf[s]}) /\ Cardinality({IndexOf[s]}) = 1
    BY FS_Singleton
  <2>2. {IndexOf[s], IndexOf[t]} = {IndexOf[s]} \cup {IndexOf[t]}
    OBVIOUS
  <2>3. IndexOf[t] \notin {IndexOf[s]}
    OBVIOUS
  <2> DEFINE one == {IndexOf[s]}
             other == IndexOf[t]
  <2> HIDE DEF numbers, one, other
  <2>4. IsFiniteSet(one) => Cardinality(one \cup {other})
                              = IF other \in one THEN Cardinality(one) ELSE Cardinality(one) + 1
    BY FS_AddElement
  <2> QED
    BY <2>1, <2>2, <2>3, <2>4 DEF one, other
<1>6. Cardinality({IndexOf[s], IndexOf[t]}) <= Cardinality(numbers)
  BY <1>3, <1>4, FS_Subset
<1>7. Cardinality(numbers) > 1
  BY <1>3, <1>5, <1>6, FS_CardinalityType
<1> QED
  BY <1>1, <1>7 DEF UsedTwice

\* One update never gives a GPU to two X servers of a node (vs-ssm:565, 732-787),
\* however many of them a request configures.
THEOREM UpdatesKeepApart == ConfigSpec => UpdateKeepsApart
<1>1. ASSUME ConfigIInv, [ConfigNext]_configVars, NEW s \in Server, NEW t \in Server,
             config'[s] # config[s], config'[t] # config[t], IndexOf[s] # IndexOf[t]
      PROVE  config'[s] \cap config'[t] = {}
  <2>1. PICK a \in Alloc : \E req \in Requests(a) : Update(a, req)
    BY <1>1 DEF ConfigNext, configVars, Allocate, Deallocate, UpdateCrash, Start, Stop, Down
  <2>2. PICK req \in Requests(a) : Update(a, req)
    BY <2>1
  <2>3. /\ s \in DOMAIN req /\ t \in DOMAIN req
        /\ config'[s] = req[s] /\ config'[t] = req[t]
    BY <1>1, <2>2 DEF Update
  <2> QED
    BY <1>1, <2>2, <2>3, RequestKeepsApart DEF Update
<1>2. ConfigIInv /\ [ConfigNext]_configVars =>
        [\A s, t \in Server :
            config'[s] # config[s] /\ config'[t] # config[t] /\ IndexOf[s] # IndexOf[t]
              => config'[s] \cap config'[t] = {}]_configVars
  BY <1>1
<1> QED
  BY ConfigInvariance, <1>2, PTL DEF ConfigSpec, UpdateKeepsApart

(***************************************************************************)
(* WaitTimers, for any clients, timeouts and length of run: select() never *)
(* sleeps past the latest deadline.                                        *)
(***************************************************************************)

Deadlines == {endAt[c] : c \in Timed}

\* What select() sleeps to is the latest of the deadlines that stand while it sleeps.
SleepsInTime == at = "select" => wake = Sleep(Deadlines)

TimersIInv == TimersTypeOK /\ SleepsInTime /\ LatestInTime

\* A set of times is finite, and so has a latest one.
LEMMA TimesFinite ==
    ASSUME NEW S \in SUBSET (0..MaxTime)
    PROVE  IsFiniteSet(S) /\ S \subseteq Int
<1> DEFINE times == 0..MaxTime
<1>1. IsFiniteSet(times)
  BY WaitTimersAssumption, FS_Interval
<1>2. S \in SUBSET times /\ S \subseteq Int
  OBVIOUS
<1> HIDE DEF times
<1>3. IsFiniteSet(S)
  BY <1>1, <1>2, FS_Subset
<1> QED
  BY <1>2, <1>3

\* The latest deadline has not passed when some deadline has not, or there is none.
OneInTime == Timed # {} => \E c \in Timed : now <= endAt[c]

LEMMA SomeInTime ==
    TimersTypeOK => /\ Timed # {} => Max(Deadlines) \in 0..MaxTime
                    /\ LatestInTime <=> OneInTime
<1> SUFFICES ASSUME TimersTypeOK
             PROVE  /\ Timed # {} => Max(Deadlines) \in 0..MaxTime
                    /\ LatestInTime <=> OneInTime
  OBVIOUS
<1>1. Deadlines \in SUBSET (0..MaxTime)
  BY DEF TimersTypeOK, Deadlines, Timed
<1>2. Timed # {} => Deadlines # {}
  BY DEF Deadlines
<1>4. IsFiniteSet(Deadlines) /\ Deadlines \subseteq Int
  BY <1>1, TimesFinite
<1>3. CASE Timed # {}
  <2>1. /\ Max(Deadlines) \in Deadlines
        /\ \A d \in Deadlines : d <= Max(Deadlines)
    BY <1>2, <1>3, <1>4, MaxProperties
  <2>2. now \in Int /\ \A d \in Deadlines : d \in Int
    BY <1>1 DEF TimersTypeOK
  <2>3. \A c \in Timed : endAt[c] \in Deadlines
    BY DEF Deadlines
  <2>4. now <= Max(Deadlines) <=> \E d \in Deadlines : now <= d
    BY <2>1, <2>2
  <2>5. (\E d \in Deadlines : now <= d) <=> \E c \in Timed : now <= endAt[c]
    BY DEF Deadlines
  <2>6. LatestInTime <=> now <= Max(Deadlines)
    BY <1>3 DEF LatestInTime, Deadlines
  <2> QED
    BY <1>1, <1>3, <2>1, <2>4, <2>5, <2>6 DEF OneInTime
<1> QED
  BY <1>3 DEF LatestInTime, OneInTime
-----------------------------------------------------------------------------
(* The invariant.                                                          *)

\* ... and so after a step.
LEMMA SomeInTimeNext == TimersTypeOK' => (LatestInTime' <=> OneInTime')
<1>1. TimersTypeOK => (LatestInTime <=> OneInTime)
  BY SomeInTime
<1> QED
  BY <1>1, PTL

LEMMA TimersInitInv == TimersInit => TimersIInv
  BY WaitTimersAssumption DEF TimersInit, TimersIInv, TimersTypeOK, SleepsInTime, LatestInTime, Timed

\* The deadlines that a turn of the loop leaves are those that it has not passed, and they
\* are what it has computed the sleep from.
LEMMA EvaluateInv ==
    ASSUME TimersIInv, NEW matched \in SUBSET {c \in Client : endAt[c] # Idle}, Evaluate(matched)
    PROVE  TimersIInv'
<1> DEFINE answered == Due \cup matched
<1> USE DEF TimersIInv
<1>1. /\ at' = "select" /\ now' = now
      /\ \A c \in Client : endAt'[c] = IF c \in answered THEN Idle ELSE endAt[c]
      /\ endAt' \in [Client -> 0..MaxTime \cup {Idle, Never}]
  BY DEF Evaluate, TimersTypeOK
<1>2. Timed' = Timed \ answered
  BY <1>1 DEF Timed
<1>3. \A c \in Timed' : endAt'[c] = endAt[c] /\ now <= endAt'[c]
  BY <1>1, <1>2 DEF Timed, Due, TimersTypeOK
<1>4. Deadlines' = {endAt[c] : c \in Timed \ answered}
  BY <1>2, <1>3 DEF Deadlines
<1>5. SleepsInTime'
  BY <1>4 DEF SleepsInTime, Evaluate
<1>6. wake' \in 0..MaxTime \cup {Never}
  <2>1. Deadlines' \in SUBSET (0..MaxTime)
    BY <1>1 DEF Deadlines, Timed
  <2>2. wake' = Sleep(Deadlines')
    BY <1>4 DEF Evaluate
  <2>3. Deadlines' # {} => Max(Deadlines') \in Deadlines'
    <3>1. IsFiniteSet(Deadlines') /\ Deadlines' \subseteq Int
      BY <2>1, TimesFinite
    <3> QED
      BY <3>1, MaxProperties
  <2> QED
    BY <2>1, <2>2, <2>3 DEF Sleep
<1>7. TimersTypeOK'
  BY <1>1, <1>6 DEF TimersTypeOK
<1>8. OneInTime'
  BY <1>1, <1>3 DEF OneInTime
<1> QED
  <2>1. LatestInTime'
    BY <1>7, <1>8, SomeInTimeNext DEF OneInTime
  <2> QED
    BY <1>5, <1>7, <2>1

LEMMA WaitInv ==
    ASSUME TimersIInv, NEW c \in Client, NEW t \in Timeouts \cup {Never}, Wait(c, t)
    PROVE  TimersIInv'
<1> USE WaitTimersAssumption DEF TimersIInv
<1>1. /\ at' = "loop" /\ now' = now /\ wake' = wake /\ endAt[c] = Idle
      /\ endAt' = [endAt EXCEPT ![c] = Until(t)]
      /\ Until(t) \in 0..MaxTime \cup {Never}
  BY DEF Wait
<1>2. TimersTypeOK' /\ SleepsInTime'
  BY <1>1 DEF TimersTypeOK, SleepsInTime
<1>3. OneInTime'
  <2> SUFFICES ASSUME Timed' # {} PROVE \E d \in Timed' : now <= endAt'[d]
    BY <1>1 DEF OneInTime
  <2>1. CASE c \in Timed'
    <3>1. endAt'[c] = now + t /\ t \in Nat
      BY <1>1, <2>1 DEF TimersTypeOK, Timed, Until
    <3> QED
      BY <2>1, <3>1 DEF TimersTypeOK
  <2>2. CASE c \notin Timed'
    <3>1. Timed' = Timed /\ \A d \in Timed : endAt'[d] = endAt[d]
      BY <1>1, <2>2 DEF Timed, TimersTypeOK
    <3>2. OneInTime
      BY SomeInTime
    <3> QED
      BY <3>1, <3>2 DEF OneInTime
  <2> QED
    BY <2>1, <2>2
<1> QED
  BY <1>2, <1>3, SomeInTimeNext

\* The clock stops at the sleep's end, and so before the latest deadline.
LEMMA TickInv == TimersIInv /\ Tick => TimersIInv'
<1> SUFFICES ASSUME TimersIInv, Tick PROVE TimersIInv'
  OBVIOUS
<1> USE WaitTimersAssumption DEF TimersIInv
<1>1. at = "select" /\ now' = now + 1 /\ UNCHANGED <<at, wake, endAt>>
  BY DEF Tick
<1>2. TimersTypeOK'
  BY DEF TimersTypeOK, Tick
<1>3. Timed' = Timed /\ Deadlines' = Deadlines
  BY <1>1 DEF Timed, Deadlines
<1>4. SleepsInTime'
  BY <1>1, <1>3 DEF SleepsInTime
<1>5. LatestInTime'
  <2> SUFFICES ASSUME Timed # {} PROVE now + 1 <= Max(Deadlines)
    BY <1>1, <1>3 DEF LatestInTime, Deadlines
  <2>1. Max(Deadlines) \in 0..MaxTime
    BY SomeInTime
  <2>2. wake = Max(Deadlines)
    BY <1>1 DEF SleepsInTime, Sleep, Deadlines
  <2>3. ~(now >= wake)
    BY <2>1, <2>2 DEF Tick, SleptEnough
  <2> QED
    BY <2>1, <2>2, <2>3 DEF TimersTypeOK
<1> QED
  BY <1>2, <1>4, <1>5

LEMMA TimersNextKeeps == TimersIInv /\ [TimersNext]_timersVars => TimersIInv'
<1> SUFFICES ASSUME TimersIInv, [TimersNext]_timersVars PROVE TimersIInv'
  OBVIOUS
<1>1. CASE \E matched \in SUBSET {c \in Client : endAt[c] # Idle} : Evaluate(matched)
  BY <1>1, EvaluateInv
<1>2. CASE \E c \in Client, t \in Timeouts \cup {Never} : Wait(c, t)
  BY <1>2, WaitInv
<1>3. CASE OtherMessage \/ WakeUp \/ UNCHANGED timersVars
  <2>1. at' \in {at, "loop"} /\ UNCHANGED <<now, wake, endAt>>
    BY <1>3 DEF OtherMessage, WakeUp, timersVars
  <2>2. Timed' = Timed /\ Deadlines' = Deadlines
    BY <2>1 DEF Timed, Deadlines
  <2> QED
    BY <2>1, <2>2 DEF TimersIInv, TimersTypeOK, SleepsInTime, LatestInTime, Deadlines
<1>4. CASE Tick
  BY <1>4, TickInv
<1> QED
  BY <1>1, <1>2, <1>3, <1>4 DEF TimersNext

\* The invariant: while select() sleeps, it sleeps to the latest of the deadlines that stand.
THEOREM WaitTimersInvariance == TimersSpec => []TimersIInv
<1>1. TimersInit => TimersIInv
  BY TimersInitInv
<1>2. TimersIInv /\ [TimersNext]_timersVars => TimersIInv'
  BY TimersNextKeeps
<1> QED
  BY <1>1, <1>2, PTL DEF TimersSpec

\* The loop looks at its pending requests again by the latest of their deadlines, for any
\* clients and timeouts, in any order of requests and other messages.
THEOREM LoopLooksInTime == TimersSpec => []LatestInTime
<1>1. TimersIInv => LatestInTime
  BY DEF TimersIInv
<1> QED
  BY <1>1, WaitTimersInvariance, PTL

(***************************************************************************)
(* Reservations, for any objects, jobs and schedulers: the tables of the   *)
(* schedulers are exact, and no job ends because something is destroyed.   *)
(*                                                                         *)
(* Both rest on one lemma, CollectKeeps: where the tables are exact, an    *)
(* original that still has a job points to its scheduler and is in its     *)
(* table, each keeps the other alive, and so no destructor that runs has   *)
(* anything to cancel.                                                     *)
(***************************************************************************)

(***************************************************************************)
(* The inductive invariant, in parts that are stated of any objects res    *)
(* and tables tr, as the destructors run on a state between two steps.     *)
(***************************************************************************)

LiveIn(res) == {o \in Object : res[o].kind # "none"}

Exact(res, tr) ==
    \A s \in Scheduler :
        tr[s] = {o \in Object : res[o].kind = "original" /\ res[o].of = s /\ res[o].sched}

\* Only originals point to a scheduler, and those that have a job do.
Marked(res) ==
    \A o \in Object :
        /\ res[o].sched => res[o].kind = "original" /\ res[o].of \in Scheduler
        /\ res[o].kind = "original" /\ res[o].job # None => res[o].sched
        /\ res[o].kind = "original" /\ res[o].of \notin Slurm => res[o].job = None

\* A job that runs is known to a table, or lost.
Known(res, tr, live, gone) ==
    \A j \in live \ gone : \E s \in Slurm : \E o \in tr[s] : res[o].job = j

ReservationIInv ==
    /\ ReservationTypeOK
    /\ Exact(obj, tracked)
    /\ Marked(obj)
    /\ Known(obj, tracked, jobs, lost)

LEMMA ReservationInitInv == ReservationInit => ReservationIInv
<1> SUFFICES ASSUME ReservationInit PROVE ReservationIInv
  OBVIOUS
<1> USE ReservationsAssumption
<1>1. obj \in [Object -> Reservation]
  BY DEF ReservationInit, Reservation, NoReservation
<1>2. ReservationTypeOK
  BY <1>1 DEF ReservationInit, ReservationTypeOK, Live, NoReservation
<1>3. Exact(obj, tracked) /\ Marked(obj) /\ Known(obj, tracked, jobs, lost)
  BY DEF ReservationInit, Exact, Marked, Known, NoReservation
<1> QED
  BY <1>2, <1>3 DEF ReservationIInv

(***************************************************************************)
(* Destructors.                                                            *)
(***************************************************************************)

\* Where tables are exact, live the destructors ends no job, empties no table and
\* destroys nothing that is in one.
LEMMA CollectKeeps ==
    ASSUME NEW prog, NEW own, NEW res, NEW tr, NEW la, NEW live,
           prog \subseteq LiveIn(res),
           own \subseteq Scheduler,
           res \in [Object -> Reservation],
           tr \in [Scheduler -> SUBSET Object],
           la \in [Slurm -> LiveIn(res) \cup {None}],
           Exact(res, tr), Marked(res),
           Collected(prog, own, res, tr, la, live)
    PROVE  /\ jobs' = live
           /\ tracked' = tr
           /\ program' = prog /\ owned' = own
           /\ obj' \in [Object -> Reservation]
           /\ program' \subseteq LiveIn(obj')
           /\ tracked' \in [Scheduler -> SUBSET LiveIn(obj')]
           /\ launcher' \in [Slurm -> LiveIn(obj') \cup {None}]
           /\ Exact(obj', tracked') /\ Marked(obj')
           /\ \A s \in Scheduler : \A o \in tr[s] : obj'[o] = res[o]
<1> USE ReservationsAssumption
<1> DEFINE dead == {o \in Object : res[o].kind # "none" /\ ~Referenced(o, prog, own, res, tr, la)}
           gone == {s \in Scheduler : ~Alive(s, own, res)}
<1>1. /\ program' = prog /\ owned' = own
      /\ obj' = [o \in Object |-> IF o \in dead THEN NoReservation ELSE res[o]]
      /\ tracked' = [s \in Scheduler |-> IF s \in gone THEN {} ELSE tr[s]]
      /\ launcher' = [s \in Slurm |-> IF s \in gone THEN None ELSE la[s]]
      /\ jobs' = (live \ UNION {CancelledBy(res[o]) : o \in dead})
                          \ UNION {KilledBy(s, res, tr) : s \in gone \cap Slurm}
  BY DEF Collected
\* A scheduler whose table is not empty is alive: the reservations in it point to it.
<1>2. ASSUME NEW s \in Scheduler, NEW o \in tr[s]
      PROVE  o \in Object /\ Alive(s, own, res) /\ o \notin dead
  <2>1. o \in Object /\ res[o].kind = "original" /\ res[o].of = s /\ res[o].sched
    BY <1>2 DEF Exact
  <2>2. Alive(s, own, res)
    BY <2>1 DEF Alive
  <2>3. Referenced(o, prog, own, res, tr, la)
    BY <1>2, <2>2 DEF Referenced
  <2> QED
    BY <2>1, <2>2, <2>3
<1>3. \A s \in gone : tr[s] = {}
  BY <1>2
<1>4. tracked' = tr
  BY <1>1, <1>3
<1>5. \A s \in gone \cap Slurm : KilledBy(s, res, tr) = {}
  BY <1>3 DEF KilledBy
\* What is destroyed is in no table, and so has no job that is its own.
<1>6. \A o \in dead : CancelledBy(res[o]) = {}
  <2> SUFFICES ASSUME NEW o \in dead, res[o].kind = "original", res[o].job # None
               PROVE  FALSE
    BY DEF CancelledBy
  <2>1. res[o].sched /\ res[o].of \in Scheduler
    BY DEF Marked
  <2>2. o \in tr[res[o].of]
    BY <2>1 DEF Exact
  <2> QED
    BY <1>2, <2>1, <2>2
<1>7. jobs' = live
  BY <1>1, <1>5, <1>6
<1>8. obj' \in [Object -> Reservation]
  <2>1. NoReservation \in Reservation
    BY DEF NoReservation, Reservation
  <2> QED
    BY <1>1, <2>1
<1>9. \A o \in Object : obj'[o] = IF o \in dead THEN NoReservation ELSE res[o]
  BY <1>1
<1>10. \A o \in LiveIn(res) \ dead : o \in LiveIn(obj')
  BY <1>9 DEF LiveIn
<1>11. program' \subseteq LiveIn(obj')
  <2>1. \A o \in prog : o \notin dead
    BY DEF Referenced
  <2> QED
    BY <1>1, <1>10, <2>1
<1>12. tracked' \in [Scheduler -> SUBSET LiveIn(obj')]
  <2>1. \A s \in Scheduler : \A o \in tr[s] : o \in LiveIn(res)
    BY <1>2 DEF Exact, LiveIn
  <2>2. \A s \in Scheduler : tr[s] \subseteq LiveIn(obj')
    BY <1>2, <1>10, <2>1
  <2> QED
    BY <1>4, <2>2
<1>13. launcher' \in [Slurm -> LiveIn(obj') \cup {None}]
  <2> SUFFICES ASSUME NEW s \in Slurm, s \notin gone, la[s] # None
               PROVE  la[s] \in LiveIn(obj')
    BY <1>1
  <2>1. Alive(s, own, res) /\ la[s] \in LiveIn(res)
    OBVIOUS
  <2>2. la[s] \notin dead
    BY <2>1 DEF Referenced
  <2> QED
    BY <2>1, <2>2, <1>10
<1>14. \A s \in Scheduler : \A o \in tr[s] : obj'[o] = res[o]
  BY <1>2, <1>9
<1>15. Exact(obj', tracked')
  <2> SUFFICES ASSUME NEW s \in Scheduler, NEW o \in Object
               PROVE  o \in tr[s] <=>
                        obj'[o].kind = "original" /\ obj'[o].of = s /\ obj'[o].sched
    BY <1>4, <1>2 DEF Exact
  <2>1. CASE o \in dead
    <3>1. o \notin tr[s]
      BY <1>2, <2>1
    <3>2. obj'[o].kind = "none"
      BY <1>9, <2>1 DEF NoReservation
    <3> QED
      BY <3>1, <3>2
  <2>2. CASE o \notin dead
    BY <1>9, <2>2 DEF Exact
  <2> QED
    BY <2>1, <2>2
<1>16. Marked(obj')
  BY <1>9 DEF Marked, NoReservation
<1> QED
  BY <1>1, <1>4, <1>7, <1>8, <1>11, <1>12, <1>13, <1>14, <1>15, <1>16

(***************************************************************************)
(* The steps.                                                              *)
(***************************************************************************)

\* Another object with no mark: it is in no table, and changes no other.
LEMMA AnotherKeeps ==
    ASSUME ReservationIInv, NEW o \in Object, NEW new \in Object, NEW kind \in {"copy", "decoded"},
           Another(o, new, kind)
    PROVE  ReservationIInv'
<1> USE ReservationsAssumption
<1>1. o # new /\ new \notin Live /\ o \in Live /\ obj \in [Object -> Reservation]
  BY DEF ReservationIInv, ReservationTypeOK, Another, Fresh
<1>2. \A p \in Object \ {new} : obj'[p] = obj[p]
  BY <1>1 DEF Another
<1>3. obj'[new] = [obj[o] EXCEPT !.kind = kind, !.sched = FALSE]
  BY <1>1 DEF Another
<1>4. obj' \in [Object -> Reservation]
  <2>1. [obj[o] EXCEPT !.kind = kind, !.sched = FALSE] \in Reservation
    BY <1>1 DEF Reservation
  <2> QED
    BY <1>1, <2>1 DEF Another
<1>5. obj'[new].kind = kind /\ obj'[new].sched = FALSE
  BY <1>1, <1>3 DEF Reservation
<1>6. Live \subseteq Live' /\ new \in Live'
  BY <1>1, <1>2, <1>5 DEF Live
<1>7. ReservationTypeOK'
  BY <1>1, <1>4, <1>6 DEF ReservationIInv, ReservationTypeOK, Another
<1>8. Exact(obj, tracked)'
  <2>1. \A s \in Scheduler : new \notin tracked[s]
    BY <1>1 DEF ReservationIInv, Exact, Live
  <2> QED
    BY <1>2, <1>5, <2>1 DEF ReservationIInv, Exact, Another
<1>9. Marked(obj)'
  BY <1>2, <1>5 DEF ReservationIInv, Marked
<1>10. Known(obj, tracked, jobs, lost)'
  <2>1. \A s \in Scheduler : tracked[s] \subseteq Object \ {new}
    BY <1>1 DEF ReservationIInv, Exact, Live
  <2> QED
    BY <1>2, <2>1 DEF ReservationIInv, Known, Another
<1> QED
  BY <1>7, <1>8, <1>9, <1>10 DEF ReservationIInv

LEMMA SimpleAllocateKeeps ==
    ASSUME ReservationIInv, NEW s \in Scheduler, NEW o \in Object, SimpleAllocate(s, o)
    PROVE  ReservationIInv'
<1> USE ReservationsAssumption
<1> DEFINE granted == [kind |-> "original", of |-> s, job |-> None, sched |-> TRUE]
<1>1. o \notin Live /\ s \notin Slurm /\ obj \in [Object -> Reservation]
  BY DEF ReservationIInv, ReservationTypeOK, SimpleAllocate, Fresh
<1>2. obj' = [obj EXCEPT ![o] = granted] /\ tracked' = [tracked EXCEPT ![s] = @ \cup {o}]
  BY DEF SimpleAllocate
<1>3. granted \in Reservation
  BY DEF Reservation
<1>4. Live' = Live \cup {o}
  BY <1>1, <1>2 DEF Live
<1>5. ReservationTypeOK'
  BY <1>1, <1>2, <1>3, <1>4 DEF ReservationIInv, ReservationTypeOK, SimpleAllocate
<1>6. tracked \in [Scheduler -> SUBSET Object]
  BY DEF ReservationIInv, ReservationTypeOK, Live
<1>7. \A t \in Scheduler : o \notin tracked[t]
  BY <1>1 DEF ReservationIInv, Exact, Live
<1>8. Exact(obj, tracked)'
  BY <1>1, <1>2, <1>6, <1>7 DEF ReservationIInv, Exact
<1>9. Marked(obj)'
  BY <1>1, <1>2 DEF ReservationIInv, Marked
<1>10. Known(obj, tracked, jobs, lost)'
  BY <1>1, <1>2, <1>6, <1>7 DEF ReservationIInv, Known, SimpleAllocate
<1> QED
  BY <1>5, <1>8, <1>9, <1>10 DEF ReservationIInv

\* What a step does when it changes references and marks and then lets the destructors run.
LEMMA CollectInv ==
    ASSUME NEW prog, NEW own, NEW res, NEW tr, NEW la, NEW live,
           prog \subseteq LiveIn(res),
           own \subseteq Scheduler,
           res \in [Object -> Reservation],
           tr \in [Scheduler -> SUBSET Object],
           la \in [Slurm -> LiveIn(res) \cup {None}],
           Exact(res, tr), Marked(res),
           Known(res, tr, live, lost'),
           live \subseteq Job \ free', free' \subseteq Job, lost' \subseteq Job \ free',
           Collected(prog, own, res, tr, la, live)
    PROVE  ReservationIInv' /\ jobs' = live
<1> USE ReservationsAssumption
<1>1. /\ jobs' = live
      /\ tracked' = tr
      /\ program' = prog /\ owned' = own
      /\ obj' \in [Object -> Reservation]
      /\ program' \subseteq LiveIn(obj')
      /\ tracked' \in [Scheduler -> SUBSET LiveIn(obj')]
      /\ launcher' \in [Slurm -> LiveIn(obj') \cup {None}]
      /\ Exact(obj', tracked') /\ Marked(obj')
      /\ \A s \in Scheduler : \A o \in tr[s] : obj'[o] = res[o]
  BY CollectKeeps
<1>2. Live' = LiveIn(obj')
  BY DEF Live, LiveIn
<1>3. ReservationTypeOK'
  BY <1>1, <1>2 DEF ReservationTypeOK
<1>4. Known(obj', tracked', jobs', lost')
  BY <1>1 DEF Known
<1> QED
  BY <1>1, <1>3, <1>4 DEF ReservationIInv

LEMMA SlurmAllocateKeeps ==
    ASSUME ReservationIInv, NEW s \in Scheduler, NEW o \in Object, NEW j \in Job, SlurmAllocate(s, o, j)
    PROVE  ReservationIInv' /\ jobs \subseteq jobs'
<1> USE ReservationsAssumption
<1> DEFINE granted == [kind |-> "original", of |-> s, job |-> j, sched |-> TRUE]
           res == [obj EXCEPT ![o] = granted]
           tr == [tracked EXCEPT ![s] = @ \cup {o}]
           la == [launcher EXCEPT ![s] = o]
<1>1. /\ s \in owned \cap Slurm /\ o \notin Live /\ j \in free
      /\ free' = free \ {j} /\ lost' = lost
      /\ Collected(program \cup {o}, owned, res, tr, la, jobs \cup {j})
  BY DEF SlurmAllocate, Fresh
<1>2. /\ obj \in [Object -> Reservation] /\ tracked \in [Scheduler -> SUBSET Object]
      /\ launcher \in [Slurm -> Live \cup {None}] /\ owned \subseteq Scheduler
      /\ program \subseteq Live
      /\ jobs \subseteq Job \ free /\ free \subseteq Job /\ lost \subseteq Job \ free
  BY DEF ReservationIInv, ReservationTypeOK, Live
<1>3. \A t \in Scheduler : o \notin tracked[t]
  BY <1>1 DEF ReservationIInv, Exact, Live
<1>4. granted \in Reservation
  BY DEF Reservation
<1>5. res \in [Object -> Reservation] /\ tr \in [Scheduler -> SUBSET Object]
  BY <1>2, <1>4
<1>6. LiveIn(res) = Live \cup {o}
  BY <1>2 DEF Live, LiveIn
<1>7. program \cup {o} \subseteq LiveIn(res) /\ la \in [Slurm -> LiveIn(res) \cup {None}]
  BY <1>2, <1>6
<1>8. Exact(res, tr)
  BY <1>2, <1>3 DEF ReservationIInv, Exact
<1>9. Marked(res)
  BY <1>1, <1>2 DEF ReservationIInv, Marked
<1>10. Known(res, tr, jobs \cup {j}, lost')
  <2> SUFFICES ASSUME NEW k \in (jobs \cup {j}) \ lost
               PROVE  \E t \in Slurm : \E p \in tr[t] : res[p].job = k
    BY <1>1 DEF Known
  <2>1. CASE k = j
    <3>1. o \in tr[s] /\ res[o].job = j
      BY <1>1, <1>2
    <3> QED
      BY <1>1, <2>1, <3>1
  <2>2. CASE k # j
    <3>1. PICK t \in Slurm : \E p \in tracked[t] : obj[p].job = k
      BY <2>2 DEF ReservationIInv, Known
    <3>2. PICK p \in tracked[t] : obj[p].job = k
      BY <3>1
    <3>3. p \in tr[t] /\ p # o /\ res[p] = obj[p]
      BY <1>2, <1>3
    <3> QED
      BY <3>2, <3>3
  <2> QED
    BY <2>1, <2>2
<1>11. /\ jobs \cup {j} \subseteq Job \ free' /\ free' \subseteq Job
       /\ lost' \subseteq Job \ free'
  BY <1>1, <1>2
<1> HIDE DEF res, tr, la
<1>12. ReservationIInv' /\ jobs' = jobs \cup {j}
  BY <1>1, <1>2, <1>5, <1>7, <1>8, <1>9, <1>10, <1>11, CollectInv
<1> QED
  BY <1>12

\* Steps that leave objects and tables alone: jobs come as lost ones, or go.
LEMMA OnlyJobsKeep ==
    ASSUME ReservationIInv, UNCHANGED <<obj, program, tracked, launcher, owned>>,
           free' \subseteq free, lost' \subseteq Job \ free', jobs' \subseteq Job \ free',
           lost \subseteq lost', jobs' \ lost' \subseteq jobs
    PROVE  ReservationIInv'
<1>1. ReservationTypeOK'
  BY DEF ReservationIInv, ReservationTypeOK, Live
<1>2. Exact(obj, tracked)' /\ Marked(obj)'
  BY DEF ReservationIInv, Exact, Marked
<1>3. Known(obj, tracked, jobs, lost)'
  BY DEF ReservationIInv, Known
<1> QED
  BY <1>1, <1>2, <1>3 DEF ReservationIInv

LEMMA UnreadableKeeps ==
    ASSUME ReservationIInv, NEW s \in Scheduler, NEW j \in Job, SlurmUnreadable(s, j)
    PROVE  ReservationIInv'
<1>1. /\ jobs \subseteq Job \ free /\ free \subseteq Job /\ lost \subseteq Job \ free
  BY DEF ReservationIInv, ReservationTypeOK
<1> QED
  BY <1>1, OnlyJobsKeep DEF SlurmUnreadable

LEMMA JobEndsKeeps ==
    ASSUME ReservationIInv, NEW j \in Job, JobEnds(j)
    PROVE  ReservationIInv'
<1>1. /\ jobs \subseteq Job \ free /\ free \subseteq Job /\ lost \subseteq Job \ free
  BY DEF ReservationIInv, ReservationTypeOK
<1> QED
  BY <1>1, OnlyJobsKeep DEF JobEnds

\* Letting go of an object or of a scheduler.
LEMMA LetGoKeeps ==
    ASSUME ReservationIInv, NEW prog \in SUBSET program, NEW own \in SUBSET owned,
           Collected(prog, own, obj, tracked, launcher, jobs),
           UNCHANGED <<free, lost>>
    PROVE  ReservationIInv' /\ jobs' = jobs
<1>1. /\ prog \subseteq LiveIn(obj) /\ own \subseteq Scheduler
      /\ obj \in [Object -> Reservation] /\ tracked \in [Scheduler -> SUBSET Object]
      /\ launcher \in [Slurm -> LiveIn(obj) \cup {None}]
  BY DEF ReservationIInv, ReservationTypeOK, Live, LiveIn
<1>2. /\ jobs \subseteq Job \ free' /\ free' \subseteq Job /\ lost' \subseteq Job \ free'
      /\ Exact(obj, tracked) /\ Marked(obj) /\ Known(obj, tracked, jobs, lost')
  BY DEF ReservationIInv, ReservationTypeOK, Known
<1> QED
  BY <1>1, <1>2, CollectInv

LEMMA DeallocateCopyKeeps ==
    ASSUME ReservationIInv, NEW o \in Object, DeallocateCopy(o)
    PROVE  ReservationIInv'
<1> USE ReservationsAssumption
<1>1. obj \in [Object -> Reservation] /\ obj[o].kind = "copy"
  BY DEF ReservationIInv, ReservationTypeOK, DeallocateCopy
<1>2. obj' = [obj EXCEPT ![o] = [obj[o] EXCEPT !.job = None]]
  BY <1>1 DEF DeallocateCopy
<1>3. [obj[o] EXCEPT !.job = None] \in Reservation
  BY <1>1 DEF Reservation
<1>4. /\ \A p \in Object \ {o} : obj'[p] = obj[p]
      /\ obj'[o].kind = "copy" /\ obj'[o].sched = obj[o].sched
  BY <1>1, <1>2 DEF Reservation
<1>5. obj' \in [Object -> Reservation] /\ Live' = Live
  BY <1>1, <1>2, <1>3, <1>4 DEF Live
<1>6. ReservationTypeOK'
  BY <1>5 DEF ReservationIInv, ReservationTypeOK, DeallocateCopy
<1>7. \A s \in Scheduler : o \notin tracked[s]
  BY <1>1 DEF ReservationIInv, Exact
<1>8. Exact(obj, tracked)'
  BY <1>1, <1>4 DEF ReservationIInv, Exact, DeallocateCopy
<1>9. Marked(obj)'
  BY <1>1, <1>4 DEF ReservationIInv, Marked
<1>10. Known(obj, tracked, jobs, lost)'
  BY <1>4, <1>7 DEF ReservationIInv, Known, Exact, DeallocateCopy
<1> QED
  BY <1>6, <1>8, <1>9, <1>10 DEF ReservationIInv

\* Giving a reservation back: it has no job any more, or has never had one.
LEMMA ReturnKeeps ==
    ASSUME ReservationIInv, NEW o \in program, NEW returned \in Reservation, NEW live,
           returned.kind = obj[o].kind, ~returned.sched,
           returned.kind = "original" => returned.job = None,
           live \subseteq jobs, live \ lost' \subseteq jobs \ lost,
           obj[o].sched => obj[o].job \notin live \ lost',
           free' = free, lost' \subseteq Job \ free,
           Collected(program, owned, [obj EXCEPT ![o] = returned],
                     IF obj[o].sched THEN Untracked(o) ELSE tracked, launcher, live)
    PROVE  ReservationIInv'
<1> DEFINE res == [obj EXCEPT ![o] = returned]
           tr == IF obj[o].sched THEN Untracked(o) ELSE tracked
<1>1. /\ obj \in [Object -> Reservation] /\ tracked \in [Scheduler -> SUBSET Object]
      /\ launcher \in [Slurm -> Live \cup {None}] /\ owned \subseteq Scheduler
      /\ program \subseteq Live /\ o \in Object
      /\ jobs \subseteq Job \ free /\ free \subseteq Job /\ Slurm \subseteq Scheduler
  BY ReservationsAssumption DEF ReservationIInv, ReservationTypeOK, Live
<1>2. /\ res \in [Object -> Reservation] /\ res[o] = returned
      /\ \A p \in Object \ {o} : res[p] = obj[p]
  BY <1>1
<1>3. LiveIn(res) = Live
  BY <1>1, <1>2 DEF Live, LiveIn
\* It is in no table: in none before, or in none any more.
<1>4. /\ tr \in [Scheduler -> SUBSET Object]
      /\ \A s \in Scheduler : tr[s] = tracked[s] \ {o}
  <2>1. CASE obj[o].sched
    BY <1>1, <2>1 DEF Untracked
  <2>2. CASE ~obj[o].sched
    BY <1>1, <2>2 DEF ReservationIInv, Exact
  <2> QED
    BY <2>1, <2>2
<1>5. Exact(res, tr)
  BY <1>1, <1>2, <1>4 DEF ReservationIInv, Exact
<1>6. Marked(res)
  BY <1>1, <1>2 DEF ReservationIInv, Marked
<1>7. Known(res, tr, live, lost')
  <2> SUFFICES ASSUME NEW j \in live \ lost'
               PROVE  \E s \in Slurm : \E p \in tr[s] : res[p].job = j
    BY DEF Known
  <2>1. PICK s \in Slurm : \E p \in tracked[s] : obj[p].job = j
    BY DEF ReservationIInv, Known
  <2>2. PICK p \in tracked[s] : obj[p].job = j
    BY <2>1
  <2>3. p # o /\ p \in Object
    BY <1>1, <2>1, <2>2 DEF ReservationIInv, Exact
  <2>4. p \in tr[s] /\ res[p].job = j
    BY <1>1, <1>2, <1>4, <2>1, <2>2, <2>3
  <2> QED
    BY <2>1, <2>4
<1>8. /\ live \subseteq Job \ free' /\ free' \subseteq Job /\ lost' \subseteq Job \ free'
  BY <1>1
<1>9. program \subseteq LiveIn(res) /\ launcher \in [Slurm -> LiveIn(res) \cup {None}]
  BY <1>1, <1>3
<1>10. Collected(program, owned, res, tr, launcher, live)
  OBVIOUS
<1> HIDE DEF res, tr
<1> QED
  BY <1>1, <1>2, <1>4, <1>5, <1>6, <1>7, <1>8, <1>9, <1>10, CollectInv

LEMMA SimpleDeallocateKeeps ==
    ASSUME ReservationIInv, NEW o \in Object, SimpleDeallocate(o)
    PROVE  ReservationIInv'
<1> USE ReservationsAssumption
<1> DEFINE returned == [obj[o] EXCEPT !.sched = FALSE]
<1>1. /\ obj \in [Object -> Reservation] /\ o \in program
      /\ lost \subseteq Job \ free /\ jobs \subseteq Job \ free /\ free \subseteq Job
      /\ obj[o].of \notin Slurm /\ None \notin Job /\ free' = free /\ lost' = lost
      /\ Collected(program, owned, [obj EXCEPT ![o] = returned],
                   IF obj[o].sched THEN Untracked(o) ELSE tracked, launcher, jobs)
  BY DEF ReservationIInv, ReservationTypeOK, SimpleDeallocate
<1>2. /\ returned \in Reservation /\ returned.kind = obj[o].kind /\ ~returned.sched
      /\ returned.job = obj[o].job
  BY <1>1 DEF Reservation
<1>3. returned.kind = "original" => returned.job = None
  BY <1>1, <1>2 DEF ReservationIInv, Marked
<1>4. obj[o].sched => obj[o].job = None
  BY <1>1 DEF ReservationIInv, ReservationTypeOK, Live, Marked
<1>5. /\ jobs \ lost' \subseteq jobs \ lost
      /\ obj[o].sched => obj[o].job \notin jobs \ lost'
  BY <1>1, <1>4
<1> HIDE DEF returned
<1> QED
  BY <1>1, <1>2, <1>3, <1>5, ReturnKeeps

LEMMA SlurmDeallocateKeeps ==
    ASSUME ReservationIInv, NEW o \in Object, SlurmDeallocate(o)
    PROVE  ReservationIInv'
<1> USE ReservationsAssumption
<1> DEFINE returned == [obj[o] EXCEPT !.sched = FALSE, !.job = None]
<1>1. /\ obj \in [Object -> Reservation] /\ o \in program
      /\ lost \subseteq Job \ free /\ jobs \subseteq Job \ free /\ free \subseteq Job
      /\ o \in Object /\ free' = free
  BY DEF ReservationIInv, ReservationTypeOK, SlurmDeallocate
<1>2. [obj EXCEPT ![o].sched = FALSE, ![o].job = None] = [obj EXCEPT ![o] = returned]
  <2>1. [obj EXCEPT ![o].sched = FALSE] = [obj EXCEPT ![o] = [obj[o] EXCEPT !.sched = FALSE]]
    BY <1>1
  <2> QED
    BY <1>1, <2>1
<1>3. PICK refused \in SUBSET ({obj[o].job} \cap jobs) :
        /\ Collected(program, owned, [obj EXCEPT ![o] = returned],
                     IF obj[o].sched THEN Untracked(o) ELSE tracked, launcher,
                     (jobs \ {obj[o].job}) \cup refused)
        /\ lost' = lost \cup refused
  BY <1>2 DEF SlurmDeallocate
<1> DEFINE live == (jobs \ {obj[o].job}) \cup refused
<1>4. /\ returned \in Reservation /\ returned.kind = obj[o].kind /\ ~returned.sched
      /\ returned.job = None
  <2>1. [obj[o] EXCEPT !.sched = FALSE] \in Reservation
    BY <1>1 DEF Reservation
  <2>2. returned = [[obj[o] EXCEPT !.sched = FALSE] EXCEPT !.job = None]
    OBVIOUS
  <2> QED
    BY <1>1, <2>1, <2>2 DEF Reservation
<1>5. /\ live \subseteq jobs /\ live \ lost' \subseteq jobs \ lost
      /\ obj[o].job \notin live \ lost' /\ lost' \subseteq Job \ free
  BY <1>1, <1>3
<1>6. Collected(program, owned, [obj EXCEPT ![o] = returned],
                IF obj[o].sched THEN Untracked(o) ELSE tracked, launcher, live)
  BY <1>3
<1> HIDE DEF live, returned
<1> QED
  BY <1>1, <1>4, <1>5, <1>6, ReturnKeeps

(***************************************************************************)
(* The theorems.                                                           *)
(***************************************************************************)

\* A step that lets go of references, of an object or of a scheduler, ends no job: each such
\* step is one of these.
LEMMA ReservationNextKeeps ==
    ASSUME ReservationIInv, [ReservationNext]_reservationVars
    PROVE  /\ ReservationIInv'
           /\ program' # program \/ owned' # owned => jobs \subseteq jobs'
<1>1. ASSUME NEW s \in Scheduler, NEW o \in Object, SimpleAllocate(s, o)
      PROVE  ReservationIInv' /\ jobs' = jobs
  BY <1>1, SimpleAllocateKeeps DEF SimpleAllocate
<1>2. ASSUME NEW s \in Scheduler, NEW o \in Object, NEW j \in Job, SlurmAllocate(s, o, j)
      PROVE  ReservationIInv' /\ jobs \subseteq jobs'
  BY <1>2, SlurmAllocateKeeps
<1>3. ASSUME NEW s \in Scheduler, NEW j \in Job, SlurmUnreadable(s, j)
      PROVE  ReservationIInv' /\ program' = program /\ owned' = owned
  BY <1>3, UnreadableKeeps DEF SlurmUnreadable
<1>4. ASSUME NEW o \in Object, NEW new \in Object, Copy(o, new) \/ Decode(o, new)
      PROVE  ReservationIInv' /\ jobs' = jobs
  <2>1. PICK kind \in {"copy", "decoded"} : Another(o, new, kind)
    BY <1>4 DEF Copy, Decode
  <2> QED
    BY <2>1, AnotherKeeps DEF Another
<1>5. ASSUME NEW o \in Object, Forget(o)
      PROVE  ReservationIInv' /\ jobs' = jobs
  <2>1. program \ {o} \in SUBSET program /\ owned \in SUBSET owned
    OBVIOUS
  <2> QED
    BY <1>5, <2>1, LetGoKeeps DEF Forget
<1>6. ASSUME NEW s \in Scheduler, Disown(s)
      PROVE  ReservationIInv' /\ jobs' = jobs
  <2>1. program \in SUBSET program /\ owned \ {s} \in SUBSET owned
    OBVIOUS
  <2> QED
    BY <1>6, <2>1, LetGoKeeps DEF Disown
<1>7. ASSUME NEW o \in Object, DeallocateCopy(o)
      PROVE  ReservationIInv' /\ program' = program /\ owned' = owned
  BY <1>7, DeallocateCopyKeeps DEF DeallocateCopy
<1>8. ASSUME NEW o \in Object, SimpleDeallocate(o)
      PROVE  ReservationIInv' /\ program' = program /\ owned' = owned
  BY <1>8, SimpleDeallocateKeeps DEF SimpleDeallocate, Collected
<1>9. ASSUME NEW o \in Object, SlurmDeallocate(o)
      PROVE  ReservationIInv' /\ program' = program /\ owned' = owned
  BY <1>9, SlurmDeallocateKeeps DEF SlurmDeallocate, Collected
<1>10. ASSUME NEW j \in Job, JobEnds(j)
       PROVE  ReservationIInv' /\ program' = program /\ owned' = owned
  BY <1>10, JobEndsKeeps DEF JobEnds
<1>11. CASE UNCHANGED reservationVars
  BY <1>11 DEF reservationVars, ReservationIInv, ReservationTypeOK, Live, Exact, Marked, Known
<1>12. CASE ReservationNext
  BY <1>1, <1>2, <1>3, <1>4, <1>5, <1>6, <1>7, <1>8, <1>9, <1>10, <1>12 DEF ReservationNext
<1> QED
  BY <1>11, <1>12

\* The inductive invariant: tables are exact, only originals point to their scheduler, those
\* that still have a job do, and a job that is not lost is known to a table.
THEOREM ReservationsInvariance == ReservationSpec => []ReservationIInv
<1>1. ReservationIInv /\ [ReservationNext]_reservationVars => ReservationIInv'
  BY ReservationNextKeeps
<1> QED
  BY ReservationInitInv, <1>1, PTL DEF ReservationSpec

\* A scheduler tracks exactly the reservations that were not given back, and every job but
\* the lost ones can be cancelled through its table: LocalScheduler, SSHScheduler and
\* SLURMScheduler, whatever is copied, sent, given back or let go of.
THEOREM TablesExact == ReservationSpec => []Accounted
<1>1. ReservationIInv => Accounted
  BY DEF ReservationIInv, Exact, Known, Accounted, Live
<1> QED
  BY ReservationsInvariance, <1>1, PTL

\* No job ends while its original is there because the program lets go of something else: of
\* copies and decoded reservations, of other originals, of schedulers (slurmlauncher.py:65-88,
\* slurmscheduler.py:64-71).
THEOREM OriginalsKeepJobs == ReservationSpec => OriginalKeepsJob
<1>1. ReservationIInv /\ [ReservationNext]_reservationVars
        => [program' # program \/ owned' # owned =>
               \A o \in Object :
                   obj[o].kind = "original" /\ obj'[o] = obj[o] /\ obj[o].job \in jobs
                       => obj[o].job \in jobs']_reservationVars
  BY ReservationNextKeeps
<1> QED
  BY ReservationsInvariance, <1>1, PTL DEF ReservationSpec, OriginalKeepsJob
=============================================================================
