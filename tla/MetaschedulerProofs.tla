------------------------ MODULE MetaschedulerProofs ------------------------
(***************************************************************************)
(* Proofs about the allocator, for any resources, users, schedulers, share *)
(* limits and requests.                                                    *)
(***************************************************************************)
EXTENDS Metascheduler, NumberLemmas, FiniteSetTheorems, TLAPS

-----------------------------------------------------------------------------
\* What type correctness needs of the constants.
LEMMA ConstantTypes ==
    /\ HostOf \in [Res -> Host]
    /\ Gpu \subseteq Res
    /\ SchedList \in Seq(Sched)
    /\ NoCall \notin Call
    /\ \A q \in Requests : /\ DOMAIN q \subseteq Slot
                           /\ \A s \in DOMAIN q : q[s] \in Item
BY MetaschedulerAssumption

-----------------------------------------------------------------------------
(***************************************************************************)
(* Owner lists: addOwner makes the list of VizResource longer by one entry *)
(* and removeOwner of an owner makes it shorter by one.                    *)
(***************************************************************************)
LEMMA AddOwnerEntry ==
    ASSUME NEW b \in Owners, NEW u \in Uid, IsFiniteSet(Entries(b))
    PROVE  /\ addOwner(b, u) \in Owners
           /\ IsFiniteSet(Entries(addOwner(b, u)))
           /\ NumOwners(addOwner(b, u)) = NumOwners(b) + 1
<1>1. addOwner(b, u) \in Owners
  BY DEF addOwner, Owners
<1>2. Entries(addOwner(b, u)) = Entries(b) \cup {<<u, b[u] + 1>>}
  BY DEF addOwner, Owners, Entries
<1>3. <<u, b[u] + 1>> \notin Entries(b)
  BY DEF Owners, Entries
<1>4. QED
  BY <1>1, <1>2, <1>3, FS_AddElement DEF NumOwners

LEMMA RemoveOwnerEntry ==
    ASSUME NEW b \in Owners, NEW u \in Uid, IsFiniteSet(Entries(b)), owns(b, u)
    PROVE  /\ removeOwner(b, u) \in Owners
           /\ IsFiniteSet(Entries(removeOwner(b, u)))
           /\ NumOwners(removeOwner(b, u)) = NumOwners(b) - 1
<1>1. removeOwner(b, u) \in Owners
  BY DEF removeOwner, Owners, owns
<1>2. Entries(removeOwner(b, u)) = Entries(b) \ {<<u, b[u]>>}
  BY DEF removeOwner, Owners, Entries, owns
<1>3. <<u, b[u]>> \in Entries(b)
  BY DEF Owners, Entries, owns
<1>4. QED
  BY <1>1, <1>2, <1>3, FS_RemoveElement DEF NumOwners

\* A list with no owner has no entry.
LEMMA NoOwnersNoEntry ==
    /\ Unowned \in State
    /\ NoOwners \in Owners
    /\ Entries(NoOwners) = {}
    /\ NumOwners(NoOwners) = 0
<1>1. Entries(NoOwners) = {}
  BY DEF Entries, NoOwners
<1>2. QED
  BY <1>1, FS_EmptySet DEF NumOwners, NoOwners, Unowned, State, Owners

-----------------------------------------------------------------------------
(***************************************************************************)
(* Type correctness.                                                       *)
(***************************************************************************)
LEMMA TypeInit == Init => TypeOK
<1> SUFFICES ASSUME Init PROVE TypeOK
  OBVIOUS
<1>1. NoPool \in [Res -> State]
  BY NoOwnersNoEntry DEF NoPool
<1>2. [r \in Gpu |-> NoOwners] \in [Gpu -> Owners]
  BY NoOwnersNoEntry
<1>3. Len(SchedList) \in Nat
  BY ConstantTypes
<1>4. QED
  BY <1>1, <1>2, <1>3 DEF Init, TypeOK

\* Whether or not a launcher raises, a release ends with some of the reservations kept.
LEMMA GivesBack ==
    ASSUME TypeOK, Control, FreeDone \/ FreeRaise
    PROVE  \E kept \in SUBSET Sched : GiveBack(kept)
<1>1. phase = "free" /\ cur \in Call
  BY DEF FreeDone, FreeRaise, GiveBack, TypeOK, Control
<1>2. jobs[cur] \subseteq Sched
  BY <1>1 DEF TypeOK
<1>3. CASE FreeDone
  BY <1>3 DEF FreeDone
<1>4. CASE FreeRaise
  <2>1. PICK i \in DOMAIN SchedList :
                GiveBack({SchedList[j] : j \in i..Len(SchedList)} \cap jobs[cur])
    BY <1>4 DEF FreeRaise
  <2>2. {SchedList[j] : j \in i..Len(SchedList)} \cap jobs[cur] \subseteq Sched
    BY <1>2
  <2>3. QED
    BY <2>1, <2>2
<1>5. QED
  BY <1>3, <1>4

LEMMA TypeStep == TypeOK /\ Control /\ [Next]_vars => TypeOK'
<1> SUFFICES ASSUME TypeOK, Control, [Next]_vars PROVE TypeOK'
  OBVIOUS
<1> USE ConstantTypes, ShareLimitAssumption DEF TypeOK
<1> USE DEF ledger, matching
<1>len. Len(SchedList) \in Nat
  OBVIOUS
<1>cur. phase # "idle" => cur \in Call /\ user[cur] \in Uid
  BY DEF Control
<1>un. NoPool \in [Res -> State]
  BY NoOwnersNoEntry DEF NoPool
<1>a. (Finish => cur' = NoCall /\ phase' = "idle" /\ picks' = {} /\ schedPos' = 1)
      /\ (DropCopies => req' = <<>> /\ todo' = {} /\ pool' \in [Res -> State]
                        /\ avail' = {})
  BY <1>un DEF Finish, DropCopies
<1>1. CASE UNCHANGED vars
  BY <1>1 DEF vars
<1>2. ASSUME NEW c \in Call, NEW u \in Uid, NEW q \in Requests,
             NEW d \in SUBSET Host, Begin(c, u, q, d)
      PROVE  TypeOK'
  BY <1>2 DEF Begin, Candidates
<1>3. ASSUME NEW s \in Slot, NEW r \in Res, Pick(s, r)
      PROVE  TypeOK'
  <2>1. req \in Requests /\ s \in DOMAIN req /\ req[s] \in Item
    BY <1>3 DEF Pick, Due
  <2>2. req[s].shared \in BOOLEAN
    BY <2>1 DEF Item
  <2>3. doAllocate(r, pool[r], req[s].shared, user[cur]) \in State
    BY <1>3, <1>cur, <2>2 DEF Pick, doAllocate, State, addOwner, Owners, isSharable
  <2>4. GrantOf(s, r) \in Grant
    BY <2>2 DEF GrantOf, Grant
  <2>5. QED
    BY <1>3, <2>3, <2>4 DEF Pick
<1>4. ASSUME NEW s \in Slot, NEW h \in Host, PickNode(s, h)
      PROVE  TypeOK'
  <2>1. \A r \in Res : pool[r].shared \in BOOLEAN
    BY DEF State
  <2> DEFINE Given(r) == [slot |-> s, res |-> r, shared |-> pool[r].shared,
                          whole |-> TRUE]
  <2>2. \A r \in Res : Given(r) \in Grant
    BY <2>1 DEF Grant
  <2>3. {Given(r) : r \in OnHost(h) \cap avail} \subseteq Grant
    BY <2>2 DEF OnHost
  <2>4. picks' = picks \cup {Given(r) : r \in OnHost(h) \cap avail}
    BY <1>4 DEF PickNode
  <2> HIDE DEF Given
  <2>5. QED
    BY <1>4, <2>3, <2>4 DEF PickNode
<1>5. ASSUME NEW s \in Slot, NEW r \in Res, Trial(s, r)
      PROVE  TypeOK'
  <2>1. req \in Requests /\ s \in DOMAIN req /\ req[s] \in Item
    BY <1>5 DEF Trial
  <2>2. req[s].shared \in BOOLEAN
    BY <2>1 DEF Item
  <2>3. GrantOf(s, r) \in Grant
    BY <2>2 DEF GrantOf, Grant
  <2>4. QED
    BY <1>5, <2>3 DEF Trial
<1>6. CASE MatchFail
  BY <1>6, <1>a, <1>len DEF MatchFail
<1>7. CASE Mark
  BY <1>7, <1>a DEF Mark
<1>8. CASE SchedAllocate
  <2>1. Asked \in Sched
    BY <1>8, <1>len DEF SchedAllocate, Asked
  <2>2. QED
    <3>1. schedPos' \in 1..(Len(SchedList) + 1)
      BY <1>8, <1>len DEF SchedAllocate
    <3>2. jobs' \in [Call -> SUBSET Sched]
      BY <1>8, <2>1 DEF SchedAllocate
    <3>3. QED
      BY <1>8, <3>1, <3>2 DEF SchedAllocate
<1>9. CASE SchedFail
  <2>1. Asked \in Sched
    BY <1>9, <1>len DEF SchedFail, Asked
  <2>2. jobs' \in [Call -> SUBSET Sched]
    BY <1>9, <2>1 DEF SchedFail
  <2>3. QED
    BY <1>9, <1>a, <1>len, <2>2 DEF SchedFail
<1>10. CASE SchedDone
  BY <1>10 DEF SchedDone
<1>11. ASSUME NEW g \in picks, Commit(g)
       PROVE  TypeOK'
  <2>1. g \in Grant /\ g.res \in Res /\ g.shared \in BOOLEAN
    BY DEF Grant
  <2>2. doAllocate(g.res, infoTable[g.res], g.shared, user[cur]) \in State
    BY <1>11, <1>cur, <2>1
       DEF Commit, doAllocate, State, addOwner, Owners, isSharable
  <2>3. srvOwners' \in [Gpu -> Owners]
    BY <1>11, <1>cur, <2>1 DEF Commit, addOwner, Owners
  <2>4. QED
    BY <1>11, <2>1, <2>2, <2>3 DEF Commit
<1>12. ASSUME NEW g \in picks, CommitRaise(g)
       PROVE  TypeOK'
  BY <1>12, <1>a, <1>len DEF CommitRaise
<1>13. CASE CommitDone
  BY <1>13, <1>a, <1>len, <1>cur DEF CommitDone
<1>14. ASSUME NEW c \in Call, BeginFree(c)
       PROVE  TypeOK'
  BY <1>14 DEF BeginFree
<1>15. ASSUME NEW g \in Grant, FreeOne(g)
       PROVE  TypeOK'
  <2>1. g.res \in Res /\ user[cur] \in Uid
    BY <1>15, <1>cur DEF Grant, FreeOne
  <2>2. /\ owns(infoTable[g.res].owners, user[cur])
        /\ g.res \in Gpu => owns(srvOwners[g.res], user[cur])
    BY <1>15 DEF FreeOne, CanFree
  <2>3. deallocate(infoTable[g.res], user[cur]) \in State
    BY <2>1, <2>2 DEF deallocate, State, removeOwner, owns, Owners
  <2>4. srvOwners' \in [Gpu -> Owners]
    BY <1>15, <2>1, <2>2 DEF FreeOne, removeOwner, owns, Owners
  <2>5. QED
    BY <1>15, <2>1, <2>3, <2>4 DEF FreeOne
<1>16. CASE FreeDone \/ FreeRaise
  <2>1. PICK kept \in SUBSET Sched : GiveBack(kept)
    BY <1>16, GivesBack
  <2>2. jobs' \in [Call -> SUBSET Sched]
    BY <2>1 DEF GiveBack
  <2>3. QED
    BY <1>a, <1>len, <2>1, <2>2 DEF GiveBack
<1>17. QED
  BY <1>1, <1>2, <1>3, <1>4, <1>5, <1>6, <1>7, <1>8, <1>9, <1>10, <1>11,
     <1>12, <1>13, <1>14, <1>15, <1>16 DEF Next, Step

-----------------------------------------------------------------------------
(***************************************************************************)
(* The parts of the inductive invariant, one lemma each.                   *)
(***************************************************************************)
LEMMA ControlStep == TypeOK /\ Control /\ [Next]_vars => Control'
<1> SUFFICES ASSUME TypeOK, Control, [Next]_vars PROVE Control'
  OBVIOUS
<1> USE ConstantTypes DEF Control, ledger, matching, Finish, DropCopies
<1>1. CASE UNCHANGED vars
  BY <1>1 DEF vars
<1>2. ASSUME NEW c \in Call, NEW u \in Uid, NEW q \in Requests,
             NEW d \in SUBSET Host, Begin(c, u, q, d)
      PROVE  Control'
  BY <1>2 DEF Begin
<1>3. ASSUME NEW s \in Slot, NEW r \in Res, Pick(s, r)
      PROVE  Control'
  BY <1>3 DEF Pick
<1>4. ASSUME NEW s \in Slot, NEW h \in Host, PickNode(s, h)
      PROVE  Control'
  BY <1>4 DEF PickNode
<1>5. ASSUME NEW s \in Slot, NEW r \in Res, Trial(s, r)
      PROVE  Control'
  BY <1>5 DEF Trial
<1>6. CASE MatchFail \/ Mark \/ SchedAllocate \/ SchedFail \/ SchedDone
  BY <1>6 DEF TypeOK, MatchFail, Mark, SchedAllocate, SchedFail, SchedDone
<1>7. ASSUME NEW g \in picks, Commit(g) \/ CommitRaise(g)
      PROVE  Control'
  BY <1>7 DEF TypeOK, Commit, CommitRaise
<1>8. CASE CommitDone
  BY <1>8 DEF TypeOK, CommitDone
<1>9. ASSUME NEW c \in Call, BeginFree(c)
      PROVE  Control'
  BY <1>9 DEF BeginFree
<1>10. ASSUME NEW g \in Grant, FreeOne(g)
       PROVE  Control'
  BY <1>10 DEF FreeOne
<1>11. CASE FreeDone \/ FreeRaise
  BY <1>11 DEF FreeDone, FreeRaise, GiveBack, TypeOK
<1> HIDE DEF Control, ledger, matching, Finish, DropCopies
<1>12. QED
  BY <1>1, <1>2, <1>3, <1>4, <1>5, <1>6, <1>7, <1>8, <1>9, <1>10, <1>11
     DEF Next, Step

\* Every step commits a grant, gives one back, or leaves the grants, the
\* table and the user of every call that holds something alone.
Quiet == /\ UNCHANGED ledger
         /\ \A c \in Call : held[c] # {} => user'[c] = user[c]

LEMMA StepKinds ==
    ASSUME TypeOK, Control, [Next]_vars
    PROVE  \/ \E g \in Grant : Commit(g)
           \/ \E g \in Grant : FreeOne(g)
           \/ Quiet
<1> USE ConstantTypes DEF Quiet, ledger
<1>1. CASE UNCHANGED vars
  BY <1>1 DEF vars
<1>2. ASSUME NEW c \in Call, NEW u \in Uid, NEW q \in Requests,
             NEW d \in SUBSET Host, Begin(c, u, q, d)
      PROVE  Quiet
  BY <1>2 DEF Begin, TypeOK
<1>3. ASSUME NEW s \in Slot, NEW r \in Res, Pick(s, r) \/ Trial(s, r)
      PROVE  Quiet
  BY <1>3 DEF Pick, Trial
<1>4. ASSUME NEW s \in Slot, NEW h \in Host, PickNode(s, h)
      PROVE  Quiet
  BY <1>4 DEF PickNode
<1>5. CASE \/ MatchFail \/ Mark \/ SchedAllocate \/ SchedFail \/ SchedDone
           \/ CommitDone \/ FreeDone \/ FreeRaise
  BY <1>5 DEF MatchFail, Mark, SchedAllocate, SchedFail, SchedDone, CommitDone,
              FreeDone, FreeRaise, GiveBack
<1>6. ASSUME NEW g \in picks, CommitRaise(g)
      PROVE  Quiet
  BY <1>6 DEF CommitRaise
<1>7. ASSUME NEW c \in Call, BeginFree(c)
      PROVE  Quiet
  BY <1>7 DEF BeginFree
<1>8. QED
  BY <1>1, <1>2, <1>3, <1>4, <1>5, <1>6, <1>7 DEF Next, Step, TypeOK

\* A quiet step keeps everything that is said of a resource.
LEMMA QuietKeeps ==
    ASSUME TypeOK, Quiet, NEW r \in Res
    PROVE  /\ On(r)' = On(r)
           /\ \A u \in Uid : Of(r, u)' = Of(r, u)
           /\ Accounted(r) => Accounted(r)'
           /\ OneMode(r) => OneMode(r)'
           /\ WithinMode(r) => WithinMode(r)'
<1>1. Holdings' = Holdings
  BY DEF Quiet, ledger, Holdings
<1>2. On(r)' = On(r)
  BY <1>1 DEF On
<1>3. ASSUME NEW u \in Uid
      PROVE  Of(r, u)' = Of(r, u)
  <2>1. \A t \in On(r) : user'[t[1]] = user[t[1]]
    BY DEF On, Holdings, Quiet
  <2>2. QED
    BY <1>2, <2>1 DEF Of
<1>4. QED
  BY <1>2, <1>3 DEF Accounted, OneMode, WithinMode, Quiet, ledger

\* What a commit does to the grants on a resource.
LEMMA CommitEffect ==
    ASSUME TypeOK, Control, NEW g \in Grant, Commit(g)
    PROVE  /\ cur \in Call /\ user[cur] \in Uid /\ g.res \in Res
           /\ <<cur, g>> \notin Holdings
           /\ Holdings' = Holdings \cup {<<cur, g>>}
           /\ On(g.res)' = On(g.res) \cup {<<cur, g>>}
           /\ \A u \in Uid :
                  Of(g.res, u)' = IF u = user[cur]
                                  THEN Of(g.res, u) \cup {<<cur, g>>}
                                  ELSE Of(g.res, u)
           /\ \A r \in Res \ {g.res} :
                  On(r)' = On(r) /\ \A u \in Uid : Of(r, u)' = Of(r, u)
<1>1. cur \in Call /\ user[cur] \in Uid /\ g.res \in Res
  BY DEF TypeOK, Control, Commit, Grant
<1>2. <<cur, g>> \notin Holdings
  BY DEF Commit, Holdings
<1>3. Holdings' = Holdings \cup {<<cur, g>>}
  BY <1>1 DEF Commit, Holdings, TypeOK
<1>4. user' = user
  BY DEF Commit
<1> DEFINE t == <<cur, g>>
<1>5. t[1] = cur /\ t[2] = g
  OBVIOUS
<1> HIDE DEF t
<1>6. On(g.res)' = On(g.res) \cup {t}
  <2>1. t[2].res = g.res
    BY <1>5
  <2>2. Holdings' = Holdings \cup {t}
    BY <1>3 DEF t
  <2>3. QED
    BY <2>1, <2>2 DEF On
<1>7. \A r \in Res \ {g.res} : On(r)' = On(r)
  <2>1. Holdings' = Holdings \cup {t}
    BY <1>3 DEF t
  <2>2. QED
    BY <1>5, <2>1 DEF On
<1>8. \A u \in Uid : Of(g.res, u)' = {x \in On(g.res) \cup {t} : user[x[1]] = u}
  BY <1>4, <1>6 DEF Of
<1>9. user[t[1]] = user[cur] /\ t[2].res = g.res
  BY <1>5
<1>10. \A u \in Uid : Of(g.res, u)' = IF u = user[cur]
                                      THEN Of(g.res, u) \cup {t}
                                      ELSE Of(g.res, u)
  BY <1>8, <1>9 DEF Of
<1>11. \A r \in Res \ {g.res} : \A u \in Uid : Of(r, u)' = Of(r, u)
  BY <1>4, <1>7 DEF Of
<1>12. QED
  BY <1>1, <1>2, <1>3, <1>6, <1>7, <1>10, <1>11 DEF t

\* And what giving one back does to them.
LEMMA FreeEffect ==
    ASSUME TypeOK, Control, NEW g \in Grant, FreeOne(g)
    PROVE  /\ cur \in Call /\ user[cur] \in Uid /\ g.res \in Res
           /\ <<cur, g>> \in Holdings
           /\ Holdings' = Holdings \ {<<cur, g>>}
           /\ On(g.res)' = On(g.res) \ {<<cur, g>>}
           /\ \A u \in Uid :
                  Of(g.res, u)' = IF u = user[cur]
                                  THEN Of(g.res, u) \ {<<cur, g>>}
                                  ELSE Of(g.res, u)
           /\ \A r \in Res \ {g.res} :
                  On(r)' = On(r) /\ \A u \in Uid : Of(r, u)' = Of(r, u)
<1>1. cur \in Call /\ user[cur] \in Uid /\ g.res \in Res
  BY DEF TypeOK, Control, FreeOne, Grant
<1>2. <<cur, g>> \in Holdings
  BY <1>1 DEF FreeOne, Holdings
<1>3. Holdings' = Holdings \ {<<cur, g>>}
  BY <1>1 DEF FreeOne, Holdings, TypeOK
<1>4. user' = user
  BY DEF FreeOne
<1> DEFINE t == <<cur, g>>
<1>5. t[1] = cur /\ t[2] = g
  OBVIOUS
<1> HIDE DEF t
<1>6. On(g.res)' = On(g.res) \ {t}
  <2>1. t[2].res = g.res
    BY <1>5
  <2>2. Holdings' = Holdings \ {t}
    BY <1>3 DEF t
  <2>3. QED
    BY <2>1, <2>2 DEF On
<1>7. \A r \in Res \ {g.res} : On(r)' = On(r)
  <2>1. Holdings' = Holdings \ {t}
    BY <1>3 DEF t
  <2>2. QED
    BY <1>5, <2>1 DEF On
<1>8. \A u \in Uid : Of(g.res, u)' = {x \in On(g.res) \ {t} : user[x[1]] = u}
  BY <1>4, <1>6 DEF Of
<1>9. user[t[1]] = user[cur] /\ t[2].res = g.res
  BY <1>5
<1>10. \A u \in Uid : Of(g.res, u)' = IF u = user[cur]
                                      THEN Of(g.res, u) \ {t}
                                      ELSE Of(g.res, u)
  BY <1>8, <1>9 DEF Of
<1>11. \A r \in Res \ {g.res} : \A u \in Uid : Of(r, u)' = Of(r, u)
  BY <1>4, <1>7 DEF Of
<1>12. QED
  BY <1>1, <1>2, <1>3, <1>6, <1>7, <1>10, <1>11 DEF t

Good(r) == Accounted(r) /\ OneMode(r) /\ WithinMode(r)

\* Nothing said of a resource changes when another one is committed or freed.
LEMMA OthersKeep ==
    ASSUME NEW r \in Res, Good(r), UNCHANGED infoTable[r],
           r \in Gpu => UNCHANGED srvOwners[r],
           On(r)' = On(r), \A u \in Uid : Of(r, u)' = Of(r, u)
    PROVE  Good(r)'
BY DEF Good, Accounted, OneMode, WithinMode

LEMMA CommitKeeps ==
    ASSUME Accounts, NEW g \in Grant, Commit(g), NEW r \in Res
    PROVE  Good(r)'
<1> USE ShareLimitAssumption, ConstantTypes
<1>0. TypeOK /\ Control /\ \A x \in Res : Good(x)
  BY DEF Accounts, Good
<1>1. /\ cur \in Call /\ user[cur] \in Uid /\ g.res \in Res
      /\ <<cur, g>> \notin Holdings
      /\ On(g.res)' = On(g.res) \cup {<<cur, g>>}
      /\ \A u \in Uid :
            Of(g.res, u)' = IF u = user[cur]
                            THEN Of(g.res, u) \cup {<<cur, g>>}
                            ELSE Of(g.res, u)
      /\ \A x \in Res \ {g.res} :
            On(x)' = On(x) /\ \A u \in Uid : Of(x, u)' = Of(x, u)
  BY <1>0, CommitEffect
<1>2. CASE r # g.res
  <2>1. UNCHANGED infoTable[r] /\ (r \in Gpu => UNCHANGED srvOwners[r])
    BY <1>0, <1>2 DEF Commit, TypeOK
  <2>2. QED
    BY <1>0, <1>1, <1>2, <2>1, OthersKeep
<1>3. CASE r = g.res
  <2> DEFINE s == infoTable[r]
  <2> DEFINE n == infoTable'[r]
  <2> DEFINE me == user[cur]
  <2>1. Good(r) /\ s \in State /\ s.owners \in Owners /\ s.shared \in BOOLEAN
    BY <1>0 DEF TypeOK, State
  <2>2. n = doAllocate(r, s, g.shared, me)
    BY <1>0, <1>1, <1>3 DEF Commit, TypeOK
  <2>3. n.owners = addOwner(s.owners, me)
        /\ n.shared = (s.shared \/ (g.shared /\ isSharable(r)))
    BY <2>2 DEF doAllocate
  <2>4. /\ n.owners \in Owners
        /\ IsFiniteSet(Entries(n.owners))
        /\ NumOwners(n.owners) = NumOwners(s.owners) + 1
    BY <1>1, <2>1, <2>3, AddOwnerEntry DEF Good, Accounted
  <2>5. On(r)' = On(r) \cup {<<cur, g>>} /\ <<cur, g>> \notin On(r)
    BY <1>1, <1>3 DEF On
  <2>6. IsFiniteSet(On(r)') /\ Cardinality(On(r)') = Cardinality(On(r)) + 1
    <3>1. IsFiniteSet(On(r))
      BY <2>1 DEF Good, Accounted
    <3>2. /\ IsFiniteSet(On(r) \cup {<<cur, g>>})
          /\ Cardinality(On(r) \cup {<<cur, g>>}) = Cardinality(On(r)) + 1
      BY <2>5, <3>1, FS_AddElement, Zenon
    <3>3. QED
      BY <2>5, <3>2
  <2>7. ASSUME NEW u \in Uid
        PROVE  n.owners[u] = Cardinality(Of(r, u)')
    <3>1. IsFiniteSet(Of(r, u))
      BY <2>1, FS_Subset DEF Good, Accounted, Of
    <3>2. <<cur, g>> \notin Of(r, u)
      BY <2>5 DEF Of
    <3>3. s.owners[u] = Cardinality(Of(r, u))
      BY <2>1 DEF Good, Accounted
    <3>4. n.owners[u] = IF u = me THEN s.owners[u] + 1 ELSE s.owners[u]
      BY <1>1, <2>1, <2>3 DEF addOwner, Owners
    <3>5. Cardinality(Of(r, u) \cup {<<cur, g>>}) = Cardinality(Of(r, u)) + 1
      BY <3>1, <3>2, FS_AddElement
    <3>6. QED
      BY <1>1, <1>3, <3>3, <3>4, <3>5
  <2>8. Accounted(r)'
    BY <2>1, <2>4, <2>6, <2>7 DEF Good, Accounted
  <2>9. canAllocate(r, s, g.shared)
    BY <1>3 DEF Commit, CanCommit
  <2>10. NumOwners(s.owners) \in Nat /\ NumOwners(s.owners) = Cardinality(On(r))
    BY <2>1, FS_CardinalityType DEF Good, Accounted, NumOwners
  <2>11. ShareLimit[r] \in Nat \ {0} /\ g.shared \in BOOLEAN
    BY DEF Grant
  <2>12. NumOwners(s.owners) < maxUsers(r, s)
    BY <2>1, <2>9, <2>10, <2>11 DEF Good, WithinMode, canAllocate, isFree, maxUsers
  <2>13. ~s.shared => On(r) = {}
    BY <2>1, <2>10, <2>12, FS_EmptySet DEF Good, Accounted, maxUsers
  <2>14. n.shared = g.shared /\ (s.shared => g.shared)
    BY <2>1, <2>3, <2>9, <2>11 DEF canAllocate
  <2>15. OneMode(r)'
    <3>1. \A t \in On(r) : t[2].shared = n.shared
      BY <2>1, <2>11, <2>13, <2>14 DEF Good, OneMode
    <3>2. <<cur, g>>[2].shared = n.shared
      BY <2>14
    <3>3. \A t \in On(r)' : t[2].shared = n.shared
      BY <2>5, <3>1, <3>2
    <3>4. QED
      BY <3>3 DEF OneMode
  <2>16. NumOwners(n.owners) <= maxUsers(r, n)
    <3>1. ~s.shared => NumOwners(s.owners) = 0
      BY <2>12, <2>10 DEF maxUsers
    <3>2. QED
      BY <2>4, <2>10, <2>11, <2>12, <2>14, <3>1 DEF maxUsers
  <2>17. r \in Gpu => srvOwners'[r] = n.owners
    BY <1>0, <1>3, <2>1, <2>3 DEF Commit, TypeOK, Good, WithinMode
  <2>18. WithinMode(r)'
    BY <2>16, <2>17 DEF WithinMode
  <2>19. QED
    BY <2>8, <2>15, <2>18 DEF Good
<1>4. QED
  BY <1>2, <1>3

LEMMA FreeKeeps ==
    ASSUME Accounts, NEW g \in Grant, FreeOne(g), NEW r \in Res
    PROVE  Good(r)'
<1> USE ShareLimitAssumption, ConstantTypes
<1>0. TypeOK /\ Control /\ \A x \in Res : Good(x)
  BY DEF Accounts, Good
<1>1. /\ cur \in Call /\ user[cur] \in Uid /\ g.res \in Res
      /\ <<cur, g>> \in Holdings
      /\ On(g.res)' = On(g.res) \ {<<cur, g>>}
      /\ \A u \in Uid :
            Of(g.res, u)' = IF u = user[cur]
                            THEN Of(g.res, u) \ {<<cur, g>>}
                            ELSE Of(g.res, u)
      /\ \A x \in Res \ {g.res} :
            On(x)' = On(x) /\ \A u \in Uid : Of(x, u)' = Of(x, u)
  BY <1>0, FreeEffect
<1>2. CASE r # g.res
  <2>1. UNCHANGED infoTable[r] /\ (r \in Gpu => UNCHANGED srvOwners[r])
    BY <1>0, <1>2 DEF FreeOne, TypeOK
  <2>2. QED
    BY <1>0, <1>1, <1>2, <2>1, OthersKeep
<1>3. CASE r = g.res
  <2> DEFINE s == infoTable[r]
  <2> DEFINE n == infoTable'[r]
  <2> DEFINE me == user[cur]
  <2>1. Good(r) /\ s \in State /\ s.owners \in Owners /\ s.shared \in BOOLEAN
    BY <1>0 DEF TypeOK, State
  <2>2. n = deallocate(s, me)
    BY <1>0, <1>1, <1>3 DEF FreeOne, TypeOK
  <2>3. n.owners = removeOwner(s.owners, me)
        /\ n.shared = (s.shared /\ NumOwners(n.owners) # 0)
    BY <2>2 DEF deallocate
  <2>4. owns(s.owners, me)
    BY <1>3 DEF FreeOne, CanFree
  <2>5. /\ n.owners \in Owners
        /\ IsFiniteSet(Entries(n.owners))
        /\ NumOwners(n.owners) = NumOwners(s.owners) - 1
    BY <1>1, <2>1, <2>3, <2>4, RemoveOwnerEntry DEF Good, Accounted
  <2>6. On(r)' = On(r) \ {<<cur, g>>} /\ <<cur, g>> \in On(r)
    BY <1>1, <1>3 DEF On
  <2>7. IsFiniteSet(On(r)') /\ Cardinality(On(r)') = Cardinality(On(r)) - 1
    <3>1. IsFiniteSet(On(r))
      BY <2>1 DEF Good, Accounted
    <3>2. /\ IsFiniteSet(On(r) \ {<<cur, g>>})
          /\ Cardinality(On(r) \ {<<cur, g>>}) = Cardinality(On(r)) - 1
      BY <2>6, <3>1, FS_RemoveElement, Zenon
    <3>3. QED
      BY <2>6, <3>2
  <2>8. ASSUME NEW u \in Uid
        PROVE  n.owners[u] = Cardinality(Of(r, u)')
    <3>1. IsFiniteSet(Of(r, u))
      BY <2>1, FS_Subset DEF Good, Accounted, Of
    <3>2. u = me => <<cur, g>> \in Of(r, u)
      BY <2>6 DEF Of
    <3>3. s.owners[u] = Cardinality(Of(r, u))
      BY <2>1 DEF Good, Accounted
    <3>4. n.owners[u] = IF u = me THEN s.owners[u] - 1 ELSE s.owners[u]
      BY <1>1, <2>1, <2>3 DEF removeOwner, Owners
    <3>5. u = me =>
            Cardinality(Of(r, u) \ {<<cur, g>>}) = Cardinality(Of(r, u)) - 1
      <4>1. CASE u = me
        BY <3>1, <3>2, <4>1, FS_RemoveElement
      <4>2. QED
        BY <4>1
    <3>6. QED
      BY <1>1, <1>3, <3>3, <3>4, <3>5
  <2>9. Accounted(r)'
    BY <2>1, <2>5, <2>7, <2>8 DEF Good, Accounted
  <2>10. /\ NumOwners(s.owners) \in Nat /\ NumOwners(n.owners) \in Nat
         /\ NumOwners(n.owners) = Cardinality(On(r)')
    BY <2>1, <2>5, <2>7, FS_CardinalityType DEF Good, Accounted, NumOwners
  <2>11. OneMode(r)'
    <3>1. NumOwners(n.owners) = 0 => On(r)' = {}
      BY <2>7, <2>10, FS_EmptySet
    <3>2. \A t \in On(r)' : t[2].shared = n.shared
      BY <2>1, <2>3, <2>6, <3>1 DEF Good, OneMode
    <3>3. QED
      BY <3>2 DEF OneMode
  <2>12. ShareLimit[r] \in Nat \ {0}
    OBVIOUS
  <2>13. NumOwners(n.owners) <= maxUsers(r, n)
    BY <2>1, <2>3, <2>5, <2>10, <2>12 DEF Good, WithinMode, maxUsers
  <2>14. r \in Gpu => srvOwners'[r] = n.owners
    BY <1>0, <1>3, <2>1, <2>3 DEF FreeOne, TypeOK, Good, WithinMode
  <2>15. WithinMode(r)'
    BY <2>13, <2>14 DEF WithinMode
  <2>16. QED
    BY <2>9, <2>11, <2>15 DEF Good
<1>4. QED
  BY <1>2, <1>3

-----------------------------------------------------------------------------
(***************************************************************************)
(* The accounts are an inductive invariant of their own.                   *)
(***************************************************************************)
LEMMA AccountsInit == Init => Accounts
<1> SUFFICES ASSUME Init PROVE Accounts
  OBVIOUS
<1> USE ShareLimitAssumption, ConstantTypes
<1>1. TypeOK
  BY TypeInit
<1>2. Control
  BY DEF Init, Control
<1>3. Holdings = {}
  BY DEF Init, Holdings
<1>4. ASSUME NEW r \in Res
      PROVE  Accounted(r) /\ OneMode(r) /\ WithinMode(r)
  <2>1. infoTable[r].owners = NoOwners /\ infoTable[r].shared = FALSE
    BY DEF Init, NoPool, Unowned
  <2>2. On(r) = {} /\ \A u \in Uid : Of(r, u) = {}
    BY <1>3 DEF On, Of
  <2>3. Accounted(r)
    BY <2>1, <2>2, NoOwnersNoEntry, FS_EmptySet DEF Accounted, NoOwners
  <2>4. WithinMode(r)
    BY <2>1, NoOwnersNoEntry DEF WithinMode, maxUsers, Init
  <2>5. QED
    BY <2>2, <2>3, <2>4 DEF OneMode
<1>5. QED
  BY <1>1, <1>2, <1>4 DEF Accounts

LEMMA AccountsStep == Accounts /\ [Next]_vars => Accounts'
<1> SUFFICES ASSUME Accounts, [Next]_vars PROVE Accounts'
  OBVIOUS
<1>1. TypeOK /\ Control
  BY DEF Accounts
<1>2. TypeOK' /\ Control'
  BY <1>1, TypeStep, ControlStep
<1>3. ASSUME NEW r \in Res
      PROVE  Good(r)'
  <2>1. CASE \E g \in Grant : Commit(g)
    BY <2>1, CommitKeeps
  <2>2. CASE \E g \in Grant : FreeOne(g)
    BY <2>2, FreeKeeps
  <2>3. CASE Quiet
    BY <1>1, <2>3, QuietKeeps DEF Accounts, Good
  <2>4. QED
    BY <1>1, <2>1, <2>2, <2>3, StepKinds
<1>4. QED
  BY <1>2, <1>3 DEF Accounts, Good

LEMMA AccountsHold == Spec => []Accounts
<1>1. QED
  BY AccountsInit, AccountsStep, PTL DEF Spec

\* Every variable of the allocator keeps its type.
THEOREM TypeCorrect == Spec => []TypeOK
<1>1. Accounts => TypeOK
  BY DEF Accounts
<1>2. QED
  BY <1>1, AccountsHold, PTL

-----------------------------------------------------------------------------
(***************************************************************************)
(* What clients rely on: doAllocate and deallocate keep an exclusively     *)
(* allocated resource for one allocation, whatever allocations fail        *)
(* half-way and in whatever order they are released.                       *)
(***************************************************************************)
THEOREM ExclusiveGrants == Spec => []Exclusive
<1>1. ASSUME Accounts PROVE Exclusive
  <2> SUFFICES ASSUME NEW t1 \in Holdings, NEW t2 \in Holdings,
                      t1[2].res = t2[2].res, ~t1[2].shared
               PROVE  t1 = t2
    BY DEF Exclusive
  <2> DEFINE r == t1[2].res
  <2>1. r \in Res /\ t1 \in On(r) /\ t2 \in On(r)
    BY DEF On, Holdings, Grant
  <2>2. Accounted(r) /\ OneMode(r) /\ WithinMode(r)
    BY <1>1, <2>1 DEF Accounts
  <2>3. infoTable[r].shared = FALSE
    BY <1>1, <2>1, <2>2 DEF OneMode, Accounts, TypeOK, State
  <2>4. Cardinality(On(r)) <= 1
    BY <2>2, <2>3 DEF Accounted, WithinMode, maxUsers
  <2>5. IsFiniteSet(On(r)) /\ Cardinality(On(r)) \in Nat
    BY <2>2, FS_CardinalityType DEF Accounted
  <2>6. Cardinality(On(r)) # 0
    BY <2>1, <2>5, FS_EmptySet
  <2>7. Cardinality(On(r)) = 1
    BY <2>4, <2>5, <2>6
  <2>8. \E x : On(r) = {x}
    BY <2>5, <2>7, FS_Singleton
  <2>9. QED
    BY <2>1, <2>8
<1>2. QED
  BY <1>1, AccountsHold, PTL

\* A shared resource (setShareLimit) never has more grants than its limit.
THEOREM ShareLimitKept == Spec => []WithinLimit
<1>1. ASSUME Accounts, NEW r \in Res PROVE Cardinality(On(r)) <= ShareLimit[r]
  <2>1. Accounted(r) /\ WithinMode(r)
    BY <1>1 DEF Accounts
  <2>2. ShareLimit[r] \in Nat \ {0}
    BY ShareLimitAssumption
  <2>3. Cardinality(On(r)) \in Nat
    BY <2>1, FS_CardinalityType DEF Accounted
  <2>4. QED
    BY <2>1, <2>2, <2>3 DEF Accounted, WithinMode, maxUsers
<1>2. Accounts => WithinLimit
  BY <1>1 DEF WithinLimit
<1>3. QED
  BY <1>2, AccountsHold, PTL

\* The owner lists that grant access to X servers name exactly the users of
\* the allocations that hold the GPU.
THEOREM OwnerLists == Spec => []OwnersMatch
<1>1. Accounts => OwnersMatch
  BY DEF Accounts, Accounted, WithinMode, OwnersMatch
<1>2. QED
  BY <1>1, AccountsHold, PTL

\* deallocate() never meets the VizError of removeOwner.
THEOREM ReleaseSucceeds == Spec => []ReleaseNeverRaises
<1>1. ASSUME Accounts, phase = "free", NEW g \in held[cur]
      PROVE  CanFree(g, user[cur])
  <2> DEFINE r == g.res
  <2> DEFINE u == user[cur]
  <2>1. cur \in Call /\ u \in Uid /\ g \in Grant /\ r \in Res
    BY <1>1 DEF Accounts, TypeOK, Control, Grant
  <2>2. Accounted(r) /\ WithinMode(r)
    BY <1>1, <2>1 DEF Accounts
  <2>3. <<cur, g>> \in Of(r, u)
    BY <2>1, <1>1 DEF Of, On, Holdings
  <2>4. IsFiniteSet(Of(r, u)) /\ Of(r, u) # {}
    BY <2>2, <2>3, FS_Subset DEF Accounted, Of
  <2>5. Cardinality(Of(r, u)) \in Nat /\ Cardinality(Of(r, u)) # 0
    BY <2>4, FS_CardinalityType, FS_EmptySet, Zenon
  <2>6. infoTable[r].owners[u] > 0
    BY <2>1, <2>2, <2>5 DEF Accounted
  <2>7. QED
    BY <2>1, <2>2, <2>6 DEF CanFree, owns, WithinMode
<1>2. Accounts => ReleaseNeverRaises
  BY <1>1 DEF ReleaseNeverRaises
<1>3. QED
  BY <1>2, AccountsHold, PTL

-----------------------------------------------------------------------------
(***************************************************************************)
(* The allocator implements the resource pool: committing a resource is    *)
(* Acquire, giving one back is Drop, and every other step, failures        *)
(* included, changes nothing that a client of the pool can see.            *)
(***************************************************************************)
LEMMA CommitAcquires ==
    ASSUME Accounts, NEW g \in Grant, Commit(g)
    PROVE  Pool!Acquire(cur, g)
<1> DEFINE r == g.res
<1>0. TypeOK /\ Control
  BY DEF Accounts
<1>1. r \in Res /\ <<cur, g>> \notin Holdings
      /\ Holdings' = Holdings \cup {<<cur, g>>}
  BY <1>0, CommitEffect
<1>2. Accounted(r) /\ OneMode(r) /\ WithinMode(r)
  BY <1>1 DEF Accounts
<1>3. canAllocate(r, infoTable[r], g.shared) /\ g.shared \in BOOLEAN
  BY DEF Commit, CanCommit, Grant
<1>4. Pool!On(r) = On(r)
  BY DEF Pool!On, On
<1>5. /\ IsFiniteSet(On(r)) /\ Cardinality(On(r)) \in Nat
      /\ NumOwners(infoTable[r].owners) = Cardinality(On(r))
  BY <1>2, FS_CardinalityType DEF Accounted
<1>6. Cardinality(On(r)) < maxUsers(r, infoTable[r])
  BY <1>2, <1>3, <1>5, <1>1, ShareLimitAssumption
     DEF WithinMode, canAllocate, isFree, maxUsers
<1>7. ~infoTable[r].shared => On(r) = {}
  BY <1>5, <1>6, FS_EmptySet DEF maxUsers
<1>8. CASE ~g.shared
  <2>1. On(r) = {}
    BY <1>3, <1>7, <1>8 DEF canAllocate
  <2>2. QED
    BY <1>1, <1>4, <1>8, <2>1 DEF Pool!Acquire
<1>9. CASE g.shared
  <2>1. \A t \in On(r) : t[2].shared
    BY <1>2, <1>7 DEF OneMode
  <2>2. Cardinality(On(r)) < ShareLimit[r]
    BY <1>1, <1>3, <1>5, <1>6, <1>9, ShareLimitAssumption
       DEF canAllocate, isSharable, maxUsers
  <2>3. QED
    BY <1>1, <1>4, <1>9, <2>1, <2>2 DEF Pool!Acquire, Pool!Cardinality, Cardinality
<1>10. QED
  BY <1>3, <1>8, <1>9

THEOREM ImplementsPool == Spec => PoolSpec
<1>1. Init => Pool!Init
  BY DEF Init, Pool!Init, Holdings
<1>2. ASSUME Accounts, [Next]_vars
      PROVE  [Pool!Next]_Holdings
  <2>0. TypeOK /\ Control
    BY <1>2 DEF Accounts
  <2>1. ASSUME NEW g \in Grant, Commit(g)
        PROVE  Pool!Next
    BY <1>2, <2>0, <2>1, CommitAcquires, CommitEffect DEF Pool!Next
  <2>2. ASSUME NEW g \in Grant, FreeOne(g)
        PROVE  Pool!Next
    BY <2>0, <2>2, FreeEffect DEF Pool!Next, Pool!Drop
  <2>3. ASSUME Quiet
        PROVE  UNCHANGED Holdings
    BY <2>3 DEF Quiet, ledger, Holdings
  <2>4. QED
    BY <1>2, <2>0, <2>1, <2>2, <2>3, StepKinds
<1>3. QED
  BY <1>1, <1>2, AccountsHold, PTL DEF Spec, PoolSpec, Pool!Spec

-----------------------------------------------------------------------------
(***************************************************************************)
(* Matching.                                                               *)
(*                                                                         *)
(* A node weighs no more than while it is free: what is missing weighs     *)
(* nothing then, and a shared GPU less by its room.  So if it weighs the   *)
(* same, all that weighs anything is there and nothing is in shared use.   *)
(***************************************************************************)
LEMMA WholeNode ==
    ASSUME TypeOK, \A x \in Res : CopyInLimits(x), NEW h \in Host,
           NodeWeight(h) = NodeWeightWhenFree(h), NEW r \in OnHost(h)
    PROVE  /\ Weight[r] # 0 => r \in avail
           /\ r \in avail /\ isFree(r, pool[r]) => ~pool[r].shared
<1> DEFINE Now == [x \in Res |-> IF x \in avail THEN WeightNow(x) ELSE 0]
<1> DEFINE Room(x) == ShareLimit[x] - NumOwners(pool[x].owners)
<1>1. OnHost(h) \in SUBSET Res /\ IsFiniteSet(OnHost(h))
  BY MetaschedulerAssumption, FS_Subset DEF OnHost
<1>2. /\ Weight \in [Res -> Int] /\ \A x \in Res : Weight[x] \in Nat
      /\ Gpu \subseteq Res
  BY MetaschedulerAssumption
<1>3. ASSUME NEW x \in Res
      PROVE  /\ pool[x].shared \in BOOLEAN
             /\ pool[x].shared => x \in Gpu
             /\ pool[x].shared => Room(x) \in Nat
             /\ pool[x].shared /\ isFree(x, pool[x]) => Room(x) # 0
             /\ WeightNow(x) = IF pool[x].shared THEN Weight[x] - Room(x)
                                                 ELSE Weight[x]
  <2>1. pool[x].shared \in BOOLEAN /\ CopyInLimits(x)
    BY DEF TypeOK, State
  <2>2. ShareLimit[x] \in Nat \ {0} /\ (x \notin Gpu => ShareLimit[x] = 1)
    BY MetaschedulerAssumption, ShareLimitAssumption
  <2>3. NumOwners(pool[x].owners) \in Nat
    BY <2>1, FS_CardinalityType DEF CopyInLimits, NumOwners
  <2>4. pool[x].shared => x \in Gpu
    BY <2>1, <2>2 DEF CopyInLimits, isSharable
  <2>5. Weight[x] \in Nat
    BY <1>2
  <2>6. QED
    BY <2>1, <2>2, <2>3, <2>4, <2>5
       DEF CopyInLimits, maxUsers, isFree, WeightNow
<1> HIDE DEF Room
<1>4. ASSUME NEW x \in Res
      PROVE  Now[x] \in Int /\ Weight[x] \in Int /\ Now[x] <= Weight[x]
  BY <1>2, <1>3
<1>6. SumFunctionOnSet(Now, OnHost(h)) = SumFunctionOnSet(Weight, OnHost(h))
  BY DEF NodeWeight, NodeWeightWhenFree
<1> HIDE DEF Now
<1>7. \A x \in OnHost(h) : Now[x] = Weight[x]
  BY <1>1, <1>2, <1>4, <1>6, EqualSums
<1>8. Now[r] = Weight[r] /\ r \in Res
  BY <1>1, <1>7
<1>9. Now[r] = IF r \in avail THEN WeightNow(r) ELSE 0
  BY <1>8 DEF Now
<1>10. Weight[r] \in Nat
  BY <1>2, <1>8
<1>11. ASSUME r \in avail, isFree(r, pool[r]), pool[r].shared
       PROVE  FALSE
  <2>1. /\ Room(r) \in Nat /\ Room(r) # 0
        /\ WeightNow(r) = Weight[r] - Room(r)
    BY <1>3, <1>8, <1>11
  <2>2. Weight[r] - Room(r) = Weight[r]
    BY <1>8, <1>9, <1>11, <2>1
  <2>3. QED
    BY <1>10, <2>1, <2>2
<1>12. QED
  BY <1>8, <1>9, <1>11

-----------------------------------------------------------------------------
\* What an allocation does to the state of a resource.
LEMMA AllocateKeepsLimits ==
    ASSUME NEW r \in Res, NEW s \in State, NEW shared \in BOOLEAN, NEW u \in Uid,
           IsFiniteSet(Entries(s.owners)),
           NumOwners(s.owners) <= maxUsers(r, s),
           s.shared => isSharable(r),
           canAllocate(r, s, shared)
    PROVE  LET n == doAllocate(r, s, shared, u)
           IN  /\ IsFiniteSet(Entries(n.owners))
               /\ NumOwners(s.owners) \in Nat
               /\ NumOwners(n.owners) = NumOwners(s.owners) + 1
               /\ NumOwners(n.owners) <= maxUsers(r, n)
               /\ n.shared = shared
               /\ n.shared => isSharable(r)
               /\ ~s.shared => NumOwners(s.owners) = 0
<1> DEFINE n == doAllocate(r, s, shared, u)
<1>1. s.owners \in Owners /\ s.shared \in BOOLEAN /\ ShareLimit[r] \in Nat \ {0}
  BY ShareLimitAssumption DEF State
<1>2. n.owners = addOwner(s.owners, u)
      /\ n.shared = (s.shared \/ (shared /\ isSharable(r)))
  BY DEF doAllocate
<1>3. IsFiniteSet(Entries(n.owners))
      /\ NumOwners(n.owners) = NumOwners(s.owners) + 1
  BY <1>1, <1>2, AddOwnerEntry
<1>4. NumOwners(s.owners) \in Nat
  BY FS_CardinalityType DEF NumOwners
<1>5. n.shared = shared /\ (shared => isSharable(r)) /\ (s.shared => shared)
  BY <1>1, <1>2 DEF canAllocate
<1>6. NumOwners(s.owners) < maxUsers(r, s)
  BY <1>1, <1>4 DEF canAllocate, isFree, maxUsers
<1>7. ~s.shared => NumOwners(s.owners) = 0
  BY <1>4, <1>6 DEF maxUsers
<1> HIDE DEF n
<1>8. NumOwners(n.owners) <= maxUsers(r, n)
  BY <1>1, <1>3, <1>4, <1>5, <1>6, <1>7 DEF maxUsers
<1>9. QED
  BY <1>3, <1>4, <1>5, <1>7, <1>8 DEF n

\* The state of a resource that the table and WithinMode vouch for.
LEMMA TableInLimits ==
    ASSUME Accounts, NEW r \in Res
    PROVE  /\ infoTable[r] \in State
           /\ IsFiniteSet(Entries(infoTable[r].owners))
           /\ NumOwners(infoTable[r].owners) \in Nat
           /\ NumOwners(infoTable[r].owners) <= maxUsers(r, infoTable[r])
<1>1. Accounted(r) /\ WithinMode(r) /\ TypeOK
  BY DEF Accounts
<1>2. QED
  BY <1>1, FS_CardinalityType DEF Accounted, WithinMode, TypeOK, NumOwners

\* Nothing is sharable that was not, and no copy goes beyond its limits.
LEMMA LimitsStep ==
    ASSUME Accounts, Selection, [Next]_vars, NEW r \in Res
    PROVE  ModeAllowed(r)' /\ CopyInLimits(r)'
<1> USE ConstantTypes DEF ledger, matching
<1>0. TypeOK /\ Control /\ ModeAllowed(r) /\ CopyInLimits(r)
  BY DEF Accounts, Selection
<1>1. ModeAllowed(r)'
  <2>1. ASSUME NEW g \in Grant, Commit(g)
        PROVE  ModeAllowed(r)'
    <3>1. CASE g.res = r
      <4>1. infoTable'[r] = doAllocate(r, infoTable[r], g.shared, user[cur])
        BY <1>0, <2>1, <3>1 DEF Commit, TypeOK
      <4>2. infoTable'[r].shared =
              (infoTable[r].shared \/ (g.shared /\ isSharable(r)))
        BY <4>1 DEF doAllocate
      <4>3. QED
        BY <1>0, <4>2 DEF ModeAllowed, isSharable
    <3>2. CASE g.res # r
      BY <1>0, <2>1, <3>2 DEF Commit, TypeOK, ModeAllowed
    <3>3. QED
      BY <3>1, <3>2
  <2>2. ASSUME NEW g \in Grant, FreeOne(g)
        PROVE  ModeAllowed(r)'
    <3>1. CASE g.res = r
      <4>1. infoTable'[r] = deallocate(infoTable[r], user[cur])
        BY <1>0, <2>2, <3>1 DEF FreeOne, TypeOK
      <4>2. infoTable'[r].shared =
              (infoTable[r].shared
                 /\ NumOwners(removeOwner(infoTable[r].owners, user[cur])) # 0)
        BY <4>1 DEF deallocate
      <4>3. QED
        BY <1>0, <4>2 DEF ModeAllowed
    <3>2. CASE g.res # r
      BY <1>0, <2>2, <3>2 DEF FreeOne, TypeOK, ModeAllowed
    <3>3. QED
      BY <3>1, <3>2
  <2>3. CASE Quiet
    BY <1>0, <2>3 DEF Quiet, ModeAllowed
  <2>4. QED
    BY <1>0, <2>1, <2>2, <2>3, StepKinds
<1>2. CASE UNCHANGED pool
  BY <1>0, <1>1, <1>2 DEF CopyInLimits
<1>3. CASE pool' = infoTable
  <2>1. CopyInLimits(r)'
    BY <1>0, <1>3, TableInLimits DEF CopyInLimits, ModeAllowed
  <2>2. QED
    BY <1>1, <2>1
<1>4. CASE pool' = NoPool
  <2>1. pool'[r].owners = NoOwners /\ pool'[r].shared = FALSE
    BY <1>4 DEF NoPool, Unowned
  <2>2. CopyInLimits(r)'
    BY <2>1, NoOwnersNoEntry, FS_EmptySet DEF CopyInLimits, maxUsers
  <2>3. QED
    BY <1>1, <2>2
<1>5. ASSUME NEW s \in Slot, NEW q \in Res, Pick(s, q)
      PROVE  ModeAllowed(r)' /\ CopyInLimits(r)'
  <2>1. CASE q = r
    <3> DEFINE sh == req[s].shared
    <3>1. pool'[r] = doAllocate(r, pool[r], sh, user[cur])
      BY <1>0, <1>5, <2>1 DEF Pick, TypeOK
    <3>2. sh \in BOOLEAN /\ user[cur] \in Uid /\ pool[r] \in State
      BY <1>0, <1>5 DEF Pick, Due, TypeOK, Item, Control
    <3>3. canAllocate(r, pool[r], sh)
      BY <1>5, <2>1 DEF Pick, Fits
    <3> HIDE DEF sh
    <3>4. CopyInLimits(r)'
      BY <1>0, <3>1, <3>2, <3>3, AllocateKeepsLimits DEF CopyInLimits
    <3>5. QED
      BY <1>1, <3>4
  <2>2. CASE q # r
    <3>1. pool'[r] = pool[r]
      BY <1>0, <1>5, <2>2 DEF Pick, TypeOK
    <3>2. QED
      BY <1>0, <1>1, <3>1 DEF CopyInLimits
  <2>3. QED
    BY <2>1, <2>2
<1>6. \/ UNCHANGED pool \/ pool' = infoTable \/ pool' = NoPool
      \/ \E s \in Slot, q \in Res : Pick(s, q)
  BY DEF Next, Step, vars, Begin, PickNode, Trial, MatchFail, Mark, DropCopies,
         SchedAllocate, SchedFail, SchedDone, Commit, CommitRaise, CommitDone,
         BeginFree, FreeOne, FreeDone, FreeRaise, GiveBack
<1>7. QED
  BY <1>2, <1>3, <1>4, <1>5, <1>6

-----------------------------------------------------------------------------
(***************************************************************************)
(* What matching chose, action by action.                                  *)
(***************************************************************************)
Matched == /\ \A g \in picks : g.slot \notin todo
           /\ \A r \in Res : SetAside(r)

\* A call begins with copies of the table and nothing chosen.
LEMMA BeginMatches ==
    ASSUME Accounts, Selection, NEW c \in Call, NEW u \in Uid,
           NEW q \in Requests, NEW d \in SUBSET Host, Begin(c, u, q, d)
    PROVE  Matched'
<1>1. picks = {} /\ picks' = {} /\ infoTable' = infoTable
      /\ pool' = infoTable /\ avail' \subseteq {r \in Res : Free(r)}
  BY DEF Begin, Selection, Candidates, ledger
<1>2. ASSUME NEW r \in Res
      PROVE  SetAside(r)'
  <2>1. Chosen(r)' = {}
    BY <1>1 DEF Chosen
  <2>2. NumOwners(infoTable[r].owners) \in Nat
    BY TableInLimits
  <2>3. IsFiniteSet({}) /\ Cardinality({}) = 0
    BY FS_EmptySet
  <2>4. TakenFromCopy(r)'
    BY <1>1, <2>1, <2>2, <2>3 DEF TakenFromCopy
  <2>5. r \in avail' => Free(r)' /\ isFree(r, pool[r])'
    BY <1>1 DEF Free
  <2>6. QED
    BY <2>1, <2>3, <2>4, <2>5 DEF SetAside
<1>3. QED
  BY <1>1, <1>2 DEF Matched

\* An item is matched: the copy takes the grant, or is full and leaves.
LEMMA PickMatches ==
    ASSUME Accounts, Selection, Matched, NEW s \in Slot, NEW q \in Res, Pick(s, q)
    PROVE  Matched'
<1> DEFINE sh == req[s].shared
<1> DEFINE g == GrantOf(s, q)
<1> DEFINE copy == doAllocate(q, pool[q], sh, user[cur])
<1>0. TypeOK /\ Control /\ CopyInLimits(q)
  BY DEF Accounts, Selection
<1>1. /\ infoTable' = infoTable /\ req' = req
      /\ pool' = [pool EXCEPT ![q] = copy]
      /\ avail' = IF isFree(q, copy) THEN avail ELSE avail \ {q}
      /\ picks' = picks \cup {g} /\ todo' = todo \ {s}
  BY DEF Pick, ledger
<1>2. s \in todo /\ q \in avail /\ canAllocate(q, pool[q], sh) /\ phase = "match"
  BY DEF Pick, Due, Fits
<1>3. sh \in BOOLEAN /\ user[cur] \in Uid /\ pool[q] \in State
  BY <1>0, <1>2, ConstantTypes DEF TypeOK, Item, Control
<1>4. g.slot = s /\ g.res = q /\ g.shared = sh /\ g \notin picks
  BY <1>2 DEF GrantOf, Matched
<1>5. /\ NumOwners(pool[q].owners) \in Nat
      /\ NumOwners(copy.owners) = NumOwners(pool[q].owners) + 1
      /\ copy.shared = sh
      /\ ~pool[q].shared => NumOwners(pool[q].owners) = 0
  BY <1>0, <1>2, <1>3, AllocateKeepsLimits DEF CopyInLimits
<1>6. pool[q].shared \in BOOLEAN /\ (pool[q].shared => sh)
  BY <1>2, <1>3 DEF canAllocate, State
<1>7. Mixed' = Mixed
  BY <1>1 DEF Mixed
<1> HIDE DEF sh, g, copy
<1>8. ASSUME NEW r \in Res, r # q
      PROVE  SetAside(r)'
  <2>1. Chosen(r)' = Chosen(r) /\ SetAside(r)
    BY <1>1, <1>4, <1>8 DEF Chosen, Matched
  <2>2. pool'[r] = pool[r] /\ (r \in avail' <=> r \in avail)
    BY <1>0, <1>1, <1>8 DEF TypeOK
  <2>3. TakenWhole(r) => TakenWhole(r)'
    BY <1>1, <2>1, <2>2 DEF TakenWhole
  <2>4. TakenFromCopy(r) => TakenFromCopy(r)'
    BY <1>1, <2>1, <2>2 DEF TakenFromCopy
  <2>5. QED
    BY <1>1, <1>7, <2>1, <2>2, <2>3, <2>4 DEF SetAside, Free
<1>9. SetAside(q)'
  <2>1. Chosen(q)' = Chosen(q) \cup {g} /\ g \notin Chosen(q)
    BY <1>1, <1>4 DEF Chosen
  <2>2. pool'[q] = copy
    BY <1>0, <1>1 DEF TypeOK
  <2>3. SetAside(q) /\ Free(q) /\ IsFiniteSet(Chosen(q))
    BY <1>2 DEF Matched, SetAside
  <2>4. /\ IsFiniteSet(Chosen(q)')
        /\ Cardinality(Chosen(q)') = Cardinality(Chosen(q)) + 1
        /\ Cardinality(Chosen(q)) \in Nat
        /\ Cardinality(Chosen(q)) = 0 => Chosen(q) = {}
    BY <2>1, <2>3, FS_AddElement, FS_CardinalityType, FS_EmptySet
  <2>5. NumOwners(infoTable[q].owners) \in Nat
    BY TableInLimits
  <2>6. TakenFromCopy(q) => TakenFromCopy(q)'
    <3> SUFFICES ASSUME TakenFromCopy(q) PROVE TakenFromCopy(q)'
      OBVIOUS
    <3>1. NumOwners(pool[q].owners) =
            NumOwners(infoTable[q].owners) + Cardinality(Chosen(q))
      BY DEF TakenFromCopy
    <3>2. ~pool[q].shared => Chosen(q) = {}
      BY <1>5, <2>4, <2>5, <3>1
    <3>3. \A k \in Chosen(q)' : k.shared = sh
      BY <1>4, <1>6, <2>1, <3>2 DEF TakenFromCopy
    <3>4. infoTable[q].shared => sh
      BY <1>6 DEF TakenFromCopy
    <3>5. NumOwners(copy.owners) =
            NumOwners(infoTable[q].owners) + Cardinality(Chosen(q)')
      BY <1>5, <2>4, <2>5, <3>1
    <3>6. QED
      BY <1>1, <1>5, <2>2, <3>3, <3>4, <3>5 DEF TakenFromCopy
  <2>7. ~TakenWhole(q)
    BY <1>2 DEF TakenWhole
  <2>8. q \in avail' => isFree(q, pool'[q])
    BY <1>1, <2>2
  <2>9. Free(q)' /\ isFree(q, pool[q])' = isFree(q, pool'[q])
    BY <1>1, <2>3 DEF Free
  <2>10. QED
    BY <1>7, <2>3, <2>4, <2>6, <2>7, <2>8, <2>9 DEF SetAside
<1>10. \A k \in picks' : k.slot \notin todo'
  BY <1>1, <1>4 DEF Matched
<1>11. QED
  BY <1>8, <1>9, <1>10 DEF Matched

\* A node is matched: it weighs what it weighs while free, so none of its
\* resources is in shared use, and what is left of them nobody has.
LEMMA NodeMatches ==
    ASSUME Accounts, Selection, Matched, NEW s \in Slot, NEW h \in Host,
           PickNode(s, h)
    PROVE  Matched'
<1> DEFINE Given(r) == [slot |-> s, res |-> r, shared |-> pool[r].shared,
                        whole |-> TRUE]
<1> DEFINE Rest == OnHost(h) \cap avail
<1>0. TypeOK /\ Control /\ \A r \in Res : CopyInLimits(r)
  BY DEF Accounts, Selection
<1>1. /\ infoTable' = infoTable /\ req' = req /\ pool' = pool
      /\ avail' = avail \ OnHost(h) /\ todo' = todo \ {s}
      /\ picks' = picks \cup {Given(r) : r \in Rest}
  BY DEF PickNode, ledger
<1>2. s \in todo /\ phase = "match" /\ NodeWeight(h) = NodeWeightWhenFree(h)
  BY DEF PickNode, Due
<1>3. \A r : Given(r).slot = s /\ Given(r).res = r /\ Given(r).shared = pool[r].shared
  OBVIOUS
<1>4. \A r \in Rest : Given(r) \in Grant
  BY <1>0 DEF Grant, TypeOK, State, OnHost
<1>5. Mixed' = Mixed
  BY <1>1 DEF Mixed
<1> HIDE DEF Given
<1>6. ASSUME NEW r \in Res, r \notin Rest
      PROVE  SetAside(r)'
  <2>1. Chosen(r)' = Chosen(r) /\ SetAside(r)
    BY <1>1, <1>3, <1>6 DEF Chosen, Matched
  <2>2. pool'[r] = pool[r] /\ (r \in avail' => r \in avail)
    BY <1>1
  <2>3. TakenWhole(r) => TakenWhole(r)'
    BY <1>1, <2>1, <2>2 DEF TakenWhole
  <2>4. TakenFromCopy(r) => TakenFromCopy(r)'
    BY <1>1, <2>1, <2>2 DEF TakenFromCopy
  <2>5. QED
    BY <1>1, <1>5, <2>1, <2>2, <2>3, <2>4 DEF SetAside, Free
<1>7. ASSUME NEW r \in Res, r \in Rest
      PROVE  SetAside(r)'
  <2>1. /\ SetAside(r) /\ r \in avail /\ r \in OnHost(h)
        /\ Free(r) /\ isFree(r, pool[r]) /\ IsFiniteSet(Chosen(r))
    BY <1>7 DEF Matched, SetAside
  <2>2. ~pool[r].shared
    BY <1>0, <1>2, <2>1, WholeNode
  <2>3. NumOwners(pool[r].owners) \in Nat /\ NumOwners(infoTable[r].owners) \in Nat
    BY <1>0, TableInLimits, FS_CardinalityType DEF CopyInLimits, NumOwners
  <2>4. NumOwners(pool[r].owners) = 0
    BY <1>0, <2>1, <2>2, <2>3 DEF CopyInLimits, isFree, maxUsers
  <2>5. Chosen(r)' = Chosen(r) \cup {Given(r)}
    BY <1>1, <1>3, <1>7 DEF Chosen
  <2>6. IsFiniteSet(Chosen(r)')
    BY <2>1, <2>5, FS_AddElement
  <2>7. ASSUME ~Mixed
        PROVE  TakenWhole(r)'
    <3>1. TakenFromCopy(r)
      BY <2>1, <2>7 DEF SetAside, TakenWhole
    <3>2. Cardinality(Chosen(r)) \in Nat
      BY <2>1, FS_CardinalityType
    <3>3. Cardinality(Chosen(r)) = 0 /\ NumOwners(infoTable[r].owners) = 0
      BY <2>3, <2>4, <3>1, <3>2 DEF TakenFromCopy
    <3>4. Chosen(r) = {}
      BY <2>1, <3>3, FS_EmptySet
    <3>5. ~infoTable[r].shared
      BY <2>2, <3>1 DEF TakenFromCopy
    <3>6. Chosen(r)' = {Given(r)} /\ ~Given(r).shared /\ Given(r) \in Grant
      BY <1>3, <1>4, <1>7, <2>2, <2>5, <3>4
    <3>7. r \notin avail'
      BY <1>1, <1>7
    <3>8. QED
      BY <1>1, <3>3, <3>5, <3>6, <3>7 DEF TakenWhole
  <2>8. r \notin avail' /\ Free(r)'
    BY <1>1, <1>7, <2>1 DEF Free
  <2>9. QED
    BY <1>5, <2>6, <2>7, <2>8 DEF SetAside
<1>8. \A k \in picks' : k.slot \notin todo'
  BY <1>1, <1>3 DEF Matched
<1>9. QED
  BY <1>6, <1>7, <1>8 DEF Matched

\* A trial happens in mixed requests only, and takes a resource that is free.
LEMMA TrialMatches ==
    ASSUME Accounts, Selection, Matched, NEW s \in Slot, NEW q \in Res, Trial(s, q)
    PROVE  Matched'
<1> DEFINE g == GrantOf(s, q)
<1>0. TypeOK
  BY DEF Accounts
<1>1. /\ infoTable' = infoTable /\ req' = req /\ pool' = pool /\ avail' = avail
      /\ picks' = picks \cup {g} /\ todo' = todo \ {s}
  BY DEF Trial, ledger
<1>2. s \in todo /\ q \in avail /\ req[s].step = 2 /\ \E t \in todo : req[t].step = 1
  BY DEF Trial, Fits
<1>3. Mixed /\ Mixed'
  BY <1>0, <1>1, <1>2 DEF Mixed, TypeOK
<1>4. g.slot = s /\ g.res = q
  BY DEF GrantOf
<1> HIDE DEF g
<1>5. ASSUME NEW r \in Res
      PROVE  SetAside(r)'
  <2>1. SetAside(r) /\ IsFiniteSet(Chosen(r))
    BY DEF Matched, SetAside
  <2>2. Chosen(r)' = Chosen(r) \cup (IF r = q THEN {g} ELSE {})
    BY <1>1, <1>4 DEF Chosen
  <2>3. IsFiniteSet(Chosen(r)')
    <3>1. CASE r = q
      BY <2>1, <2>2, <3>1, FS_AddElement
    <3>2. CASE r # q
      BY <2>1, <2>2, <3>2
    <3>3. QED
      BY <3>1, <3>2
  <2>4. Chosen(r)' # {} => Free(r)
    BY <1>2, <2>1, <2>2 DEF SetAside
  <2>5. QED
    BY <1>1, <1>3, <2>1, <2>3, <2>4 DEF SetAside, Free
<1>6. \A k \in picks' : k.slot \notin todo'
  BY <1>1, <1>4 DEF Matched
<1>7. QED
  BY <1>5, <1>6 DEF Matched

\* The part of the invariant about copies and choices.
LEMMA SelectionStep == Accounts /\ Selection /\ [Next]_vars => Selection'
<1> SUFFICES ASSUME Accounts, Selection, [Next]_vars PROVE Selection'
  OBVIOUS
<1> USE DEF ledger, matching
<1>0. TypeOK /\ Control /\ (phase = "match" => Matched)
  BY DEF Accounts, Selection, Matched
<1>1. \A r \in Res : ModeAllowed(r)' /\ CopyInLimits(r)'
  BY LimitsStep
<1>2. phase' \in {"idle", "free"} => picks' = {}
  BY DEF Selection, Next, Step, vars, Begin, Pick, PickNode, Trial, MatchFail,
         Mark, SchedAllocate, SchedFail, SchedDone, Commit, CommitRaise,
         CommitDone, BeginFree, FreeOne, FreeDone, FreeRaise, GiveBack, Finish
<1>3. phase' = "match" => Matched'
  <2>1. CASE UNCHANGED vars
    BY <1>0, <2>1 DEF vars, Matched, SetAside, Chosen, TakenWhole,
          TakenFromCopy, Mixed, Free
  <2>2. ASSUME NEW c \in Call, NEW u \in Uid, NEW q \in Requests,
               NEW d \in SUBSET Host, Begin(c, u, q, d)
        PROVE  Matched'
    BY <2>2, BeginMatches
  <2>3. ASSUME NEW s \in Slot, NEW q \in Res, Pick(s, q)
        PROVE  Matched'
    BY <1>0, <2>3, PickMatches DEF Pick
  <2>4. ASSUME NEW s \in Slot, NEW h \in Host, PickNode(s, h)
        PROVE  Matched'
    BY <1>0, <2>4, NodeMatches DEF PickNode
  <2>5. ASSUME NEW s \in Slot, NEW q \in Res, Trial(s, q)
        PROVE  Matched'
    BY <1>0, <2>5, TrialMatches DEF Trial
  <2>6. CASE \/ MatchFail \/ Mark \/ SchedAllocate \/ SchedFail \/ SchedDone
             \/ (\E g \in picks : Commit(g)) \/ (\E g \in picks : CommitRaise(g))
             \/ CommitDone \/ (\E c \in Call : BeginFree(c))
             \/ (\E g \in Grant : FreeOne(g)) \/ FreeDone \/ FreeRaise
    BY <2>6 DEF MatchFail, Mark, SchedAllocate, SchedFail, SchedDone, Commit,
                CommitRaise, CommitDone, BeginFree, FreeOne, FreeDone, FreeRaise, GiveBack, Finish
  <2>7. QED
    BY <2>1, <2>2, <2>3, <2>4, <2>5, <2>6 DEF Next, Step
<1>4. QED
  BY <1>1, <1>2, <1>3 DEF Selection, Matched

-----------------------------------------------------------------------------
(***************************************************************************)
(* Reservations, whole nodes, and the allocations in force.                *)
(***************************************************************************)
\* The schedulers are asked in order, and none is passed over.
LEMMA ReservationsStep ==
    Accounts /\ Selection /\ Reservations /\ [Next]_vars => Reservations'
<1> SUFFICES ASSUME Accounts, Selection, Reservations, [Next]_vars
             PROVE  Reservations'
  OBVIOUS
<1> USE ConstantTypes DEF ledger, matching, Finish, DropCopies
<1>0. TypeOK /\ Control /\ Len(SchedList) \in Nat /\ schedPos \in Nat \ {0}
  BY DEF Accounts, TypeOK
<1> DEFINE Asks(n, sel, j) ==
      \A i \in 1..(n - 1) :
         SchedNodes[SchedList[i]] \cap sel # {} => SchedList[i] \in j
<1>r. /\ phase = "match" => jobs[cur] = {}
      /\ phase \notin {"sched", "commit"} => schedPos = 1
      /\ schedPos = 1 /\ phase = "sched" => jobs[cur] = {}
      /\ phase = "commit" => schedPos > Len(SchedList) /\ held[cur] \subseteq picks
      /\ phase \in {"sched", "commit"} => Asks(schedPos, NodesToAlloc, jobs[cur])
  BY DEF Reservations
<1>s. ASSUME /\ phase' = "match" => jobs'[cur'] = {}
             /\ phase' \notin {"sched", "commit"} => schedPos' = 1
             /\ schedPos' = 1 /\ phase' = "sched" => jobs'[cur'] = {}
             /\ phase' = "commit" => schedPos' > Len(SchedList)
                                     /\ held'[cur'] \subseteq picks'
             /\ phase' \in {"sched", "commit"} =>
                  Asks(schedPos', NodesToAlloc', jobs'[cur'])
      PROVE  Reservations'
  BY <1>s DEF Reservations
<1>n. ASSUME picks' = picks PROVE NodesToAlloc' = NodesToAlloc
  BY <1>n DEF NodesToAlloc
<1>1. CASE UNCHANGED vars
  BY <1>1, <1>r, <1>s, <1>n DEF vars
<1>2. ASSUME NEW c \in Call, NEW u \in Uid, NEW q \in Requests,
             NEW d \in SUBSET Host, Begin(c, u, q, d)
      PROVE  Reservations'
  <2>1. cur' = c /\ jobs'[c] = {} /\ phase' = "match"
    BY <1>0, <1>2 DEF Begin, TypeOK
  <2>2. schedPos' = 1
    BY <1>2, <1>r DEF Begin
  <2>3. QED
    BY <2>1, <2>2, <1>s
<1>3. CASE \/ \E s \in Slot, r \in Res : Pick(s, r)
           \/ \E s \in Slot, h \in Host : PickNode(s, h)
           \/ \E s \in Slot, r \in Res : Trial(s, r)
  <2>1. UNCHANGED <<phase, jobs, cur, schedPos>> /\ phase = "match"
    BY <1>3 DEF Pick, PickNode, Trial
  <2>2. QED
    BY <2>1, <1>r, <1>s
<1>4. CASE MatchFail \/ SchedFail \/ (\E g \in picks : CommitRaise(g))
           \/ CommitDone \/ FreeDone \/ FreeRaise
  <2>1. phase' = "idle" /\ schedPos' = 1
    BY <1>4 DEF MatchFail, SchedFail, CommitRaise, CommitDone, FreeDone, FreeRaise, GiveBack
  <2>2. QED
    BY <2>1, <1>s
<1>5. CASE Mark
  <2>1. phase' = "sched" /\ schedPos' = 1 /\ jobs' = jobs /\ cur' = cur
        /\ phase = "match"
    BY <1>5, <1>r DEF Mark
  <2>2. Asks(schedPos', NodesToAlloc', jobs'[cur'])
    BY <2>1
  <2>3. QED
    BY <2>1, <2>2, <1>r, <1>s
<1>6. CASE SchedAllocate
  <2>1. /\ phase = "sched" /\ phase' = phase /\ cur' = cur /\ picks' = picks
        /\ schedPos' = schedPos + 1 /\ schedPos <= Len(SchedList)
        /\ jobs' = IF Needed THEN [jobs EXCEPT ![cur] = @ \cup {Asked}] ELSE jobs
    BY <1>6 DEF SchedAllocate
  <2>2. cur \in Call /\ jobs[cur] \subseteq jobs'[cur]
    BY <1>0, <2>1 DEF TypeOK, Control
  <2>3. SchedNodes[SchedList[schedPos]] \cap NodesToAlloc # {}
          => SchedList[schedPos] \in jobs'[cur]
    BY <1>0, <2>1, <2>2 DEF Needed, Asked, TypeOK
  <2>4. Asks(schedPos, NodesToAlloc, jobs[cur])
    BY <1>r, <2>1
  <2>5. ASSUME NEW i \in 1..(schedPos' - 1),
               SchedNodes[SchedList[i]] \cap NodesToAlloc # {}
        PROVE  SchedList[i] \in jobs'[cur]
    <3>1. CASE i = schedPos
      BY <2>3, <2>5, <3>1
    <3>2. CASE i # schedPos
      <4>1. i \in 1..(schedPos - 1)
        BY <1>0, <2>1, <3>2
      <4>2. QED
        BY <2>2, <2>4, <2>5, <4>1
    <3>3. QED
      BY <3>1, <3>2
  <2>6. Asks(schedPos', NodesToAlloc', jobs'[cur'])
    BY <2>1, <2>5, <1>n
  <2>7. schedPos' # 1
    BY <1>0, <2>1
  <2>8. QED
    BY <2>1, <2>6, <2>7, <1>s
<1>7. CASE SchedDone
  <2>1. /\ phase = "sched" /\ phase' = "commit" /\ schedPos' = schedPos
        /\ schedPos > Len(SchedList) /\ cur' = cur /\ picks' = picks
        /\ jobs' = jobs /\ held' = held
    BY <1>7 DEF SchedDone
  <2>2. held[cur] = {}
    BY <1>0, <2>1 DEF Control
  <2>3. QED
    BY <2>1, <2>2, <1>r, <1>s, <1>n
<1>8. ASSUME NEW g \in picks, Commit(g)
      PROVE  Reservations'
  <2>1. /\ phase = "commit" /\ phase' = phase /\ schedPos' = schedPos
        /\ cur' = cur /\ picks' = picks /\ jobs' = jobs
        /\ held' = [held EXCEPT ![cur] = @ \cup {g}]
    BY <1>8 DEF Commit
  <2>2. held'[cur] = held[cur] \cup {g}
    BY <1>0, <2>1 DEF TypeOK, Control
  <2>3. QED
    BY <2>1, <2>2, <1>r, <1>s, <1>n
<1>9. CASE (\E c \in Call : BeginFree(c)) \/ (\E g \in Grant : FreeOne(g))
  <2>1. phase' = "free" /\ phase \in {"idle", "free"} /\ schedPos' = schedPos
    BY <1>9 DEF BeginFree, FreeOne
  <2>2. QED
    BY <2>1, <1>r, <1>s
<1>10. QED
  BY <1>1, <1>2, <1>3, <1>4, <1>5, <1>6, <1>7, <1>8, <1>9 DEF Next, Step

\* An allocation in force keeps what it holds and its reservations; the only
\* new one is that of the call that has just committed everything it chose.
LEMMA LiveKeeps ==
    ASSUME Accounts, Reservations, [Next]_vars, NEW c \in live'
    PROVE  \/ c \in live /\ held'[c] = held[c] /\ jobs'[c] = jobs[c]
           \/ /\ c = cur /\ phase = "commit" /\ held' = held /\ jobs' = jobs
              /\ held[cur] = picks /\ picks' = {}
<1> USE ConstantTypes DEF ledger, matching, Finish, DropCopies
<1> DEFINE Keeps == c \in live /\ held'[c] = held[c] /\ jobs'[c] = jobs[c]
<1>0. TypeOK /\ Control /\ cur \notin live
  BY DEF Accounts, Control
<1>1. CASE UNCHANGED <<live, held, jobs>>
  BY <1>1
<1>2. CASE \E g \in picks : Commit(g)
  <2>1. Keeps
    BY <1>0, <1>2 DEF Commit, TypeOK
  <2>2. QED
    BY <2>1
<1>3. CASE \E g \in Grant : FreeOne(g)
  <2>1. Keeps
    BY <1>0, <1>3 DEF FreeOne, TypeOK
  <2>2. QED
    BY <2>1
<1>4. CASE SchedAllocate
  <2>1. Keeps
    BY <1>0, <1>4 DEF SchedAllocate, TypeOK
  <2>2. QED
    BY <2>1
<1>5. CASE SchedFail \/ FreeDone \/ FreeRaise
  <2>1. Keeps
    BY <1>0, <1>5 DEF SchedFail, FreeDone, FreeRaise, GiveBack, TypeOK
  <2>2. QED
    BY <2>1
<1>6. ASSUME NEW d \in Call, BeginFree(d)
      PROVE  Keeps
  BY <1>6 DEF BeginFree
<1>7. CASE CommitDone
  <2>1. held[cur] = picks /\ held' = held /\ jobs' = jobs /\ picks' = {}
        /\ phase = "commit" /\ live' = live \cup {cur}
    BY <1>7 DEF CommitDone, Reservations
  <2>2. QED
    BY <2>1
<1>8. ASSUME \/ (\E s \in Slot, r \in Res : Pick(s, r) \/ Trial(s, r))
             \/ (\E s \in Slot, h \in Host : PickNode(s, h))
             \/ MatchFail \/ Mark \/ SchedDone
             \/ (\E g \in picks : CommitRaise(g)) \/ UNCHANGED vars
      PROVE  UNCHANGED <<live, held, jobs>>
  BY <1>8 DEF Pick, Trial, PickNode, MatchFail, Mark, SchedDone, CommitRaise, vars
<1>9. ASSUME NEW d \in Call, NEW u \in Uid, NEW q \in Requests, NEW n \in SUBSET Host,
             Begin(d, u, q, n)
      PROVE  Keeps
  BY <1>0, <1>9 DEF Begin, TypeOK
<1>10. QED
  BY <1>1, <1>2, <1>3, <1>4, <1>5, <1>6, <1>7, <1>8, <1>9 DEF Next, Step

\* Every scheduler is in the list, so the one of a node has been asked.
LEMMA GpuReservationStep ==
    ASSUME Accounts, Reservations, GpuHasReservation, [Next]_vars
    PROVE  GpuHasReservation'
<1> SUFFICES ASSUME NEW c \in live', NEW g \in Grant,
                    g \in held'[c], g.res \in Gpu,
                    NEW s \in Sched, HostOf[g.res] \in SchedNodes[s]
             PROVE  \E x \in jobs'[c] : HostOf[g.res] \in SchedNodes[x]
  BY DEF GpuHasReservation
<1>1. CASE c \in live /\ held'[c] = held[c] /\ jobs'[c] = jobs[c]
  BY <1>1 DEF GpuHasReservation
<1>2. CASE /\ c = cur /\ phase = "commit" /\ held' = held /\ jobs' = jobs
           /\ held[cur] = picks
  <2>1. HostOf[g.res] \in NodesToAlloc
    BY <1>2 DEF NodesToAlloc
  <2>2. PICK i \in 1..Len(SchedList) : SchedList[i] = s
    BY MetaschedulerAssumption DEF Range
  <2>3. schedPos > Len(SchedList) /\ schedPos \in Nat /\ Len(SchedList) \in Nat
    BY <1>2, ConstantTypes DEF Reservations, Accounts, TypeOK
  <2>4. i \in 1..(schedPos - 1)
    BY <2>2, <2>3
  <2>5. s \in jobs[cur]
    BY <1>2, <2>1, <2>2, <2>4 DEF Reservations
  <2>6. QED
    BY <1>2, <2>5
<1>3. QED
  BY <1>1, <1>2, LiveKeeps

\* A node is given away in one piece and committed in one piece.
LEMMA NodesStep ==
    ASSUME Accounts, Selection, Reservations, Nodes, [Next]_vars
    PROVE  Nodes'
<1> USE ConstantTypes DEF ledger, matching, Finish
<1>0. TypeOK /\ Control
  BY DEF Accounts
<1>1. ASSUME NEW c \in live'
      PROVE  WholeIn(held'[c])
  <2>1. CASE c \in live /\ held'[c] = held[c]
    BY <2>1 DEF Nodes, NodeIsWhole
  <2>2. CASE c = cur /\ held' = held /\ held[cur] = picks
    BY <2>2 DEF Nodes
  <2>3. QED
    BY <2>1, <2>2, LiveKeeps
<1>2. WholeIn(picks')
  <2>1. CASE picks' = picks
    BY <2>1 DEF Nodes
  <2>2. CASE picks' = {}
    BY <2>2 DEF WholeIn
  <2>3. ASSUME NEW s \in Slot, NEW r \in Res, Pick(s, r) \/ Trial(s, r)
        PROVE  WholeIn(picks')
    <3>1. picks' = picks \cup {GrantOf(s, r)} /\ ~GrantOf(s, r).whole
      BY <2>3 DEF Pick, Trial, GrantOf
    <3>2. QED
      BY <3>1 DEF Nodes, WholeIn
  <2>4. ASSUME NEW s \in Slot, NEW h \in Host, PickNode(s, h)
        PROVE  WholeIn(picks')
    <3> DEFINE Given(r) == [slot |-> s, res |-> r, shared |-> pool[r].shared,
                            whole |-> TRUE]
    <3>1. picks' = picks \cup {Given(r) : r \in OnHost(h) \cap avail}
      BY <2>4 DEF PickNode
    <3>2. \A r : Given(r).slot = s /\ Given(r).res = r
      OBVIOUS
    <3> HIDE DEF Given
    <3>3. NodeWeight(h) = NodeWeightWhenFree(h) /\ \A x \in Res : CopyInLimits(x)
      BY <2>4 DEF PickNode, Selection
    <3>4. ASSUME NEW r \in OnHost(h), Weight[r] # 0
          PROVE  r \in avail
      BY <1>0, <3>3, <3>4, WholeNode
    <3>5. ASSUME NEW g \in picks', g.whole, NEW r \in OnHost(HostOf[g.res]),
                 Weight[r] # 0
          PROVE  \E k \in picks' : k.slot = g.slot /\ k.res = r
      <4>1. CASE g \in picks
        BY <3>1, <3>5, <4>1 DEF Nodes, WholeIn
      <4>2. CASE g \notin picks
        <5>1. g.slot = s /\ HostOf[g.res] = h
          BY <3>1, <3>2, <4>2 DEF OnHost
        <5>2. Given(r) \in picks'
          BY <3>1, <3>4, <3>5, <5>1
        <5>3. QED
          BY <3>2, <5>1, <5>2
      <4>3. QED
        BY <4>1, <4>2
    <3>6. QED
      BY <3>5 DEF WholeIn
  <2>5. \/ picks' = picks \/ picks' = {}
        \/ \E s \in Slot, r \in Res : Pick(s, r) \/ Trial(s, r)
        \/ \E s \in Slot, h \in Host : PickNode(s, h)
    BY DEF Next, Step, vars, Begin, MatchFail, Mark, SchedAllocate, SchedFail,
           SchedDone, Commit, CommitRaise, CommitDone, BeginFree, FreeOne, FreeDone, FreeRaise, GiveBack
  <2>6. QED
    BY <2>1, <2>2, <2>3, <2>4, <2>5
<1>3. QED
  BY <1>1, <1>2 DEF Nodes, NodeIsWhole

-----------------------------------------------------------------------------
(***************************************************************************)
(* The whole inductive invariant.                                          *)
(***************************************************************************)
LEMMA IInvInit == Init => IInv
<1> SUFFICES ASSUME Init PROVE IInv
  OBVIOUS
<1>1. Accounts
  BY AccountsInit
<1>2. ASSUME NEW r \in Res
      PROVE  ModeAllowed(r) /\ CopyInLimits(r)
  <2>1. /\ pool[r].owners = NoOwners /\ pool[r].shared = FALSE
        /\ infoTable[r].shared = FALSE
    BY DEF Init, NoPool, Unowned
  <2>2. QED
    BY <2>1, NoOwnersNoEntry, FS_EmptySet DEF ModeAllowed, CopyInLimits, maxUsers
<1>3. Selection
  BY <1>2 DEF Init, Selection
<1>4. Reservations
  BY DEF Init, Reservations
<1>5. Nodes /\ GpuHasReservation
  BY DEF Init, Nodes, WholeIn, NodeIsWhole, GpuHasReservation
<1>6. QED
  BY <1>1, <1>3, <1>4, <1>5 DEF IInv

LEMMA IInvStep == IInv /\ [Next]_vars => IInv'
<1> SUFFICES ASSUME IInv, [Next]_vars PROVE IInv'
  OBVIOUS
<1>1. Accounts /\ Selection /\ Reservations /\ Nodes /\ GpuHasReservation
  BY DEF IInv
<1>2. Accounts' /\ Selection' /\ Reservations'
  BY <1>1, AccountsStep, SelectionStep, ReservationsStep
<1>3. Nodes' /\ GpuHasReservation'
  BY <1>1, NodesStep, GpuReservationStep
<1>4. QED
  BY <1>2, <1>3 DEF IInv

\* What the table, the copies, the reservations and the nodes keep together,
\* through every failure of allocate() and deallocate().
THEOREM Invariance == Spec => []IInv
<1>1. QED
  BY IInvInit, IInvStep, PTL DEF Spec

\* The check of allocate() against the table ("This is not supposed to
\* happen!") never fails, and unless trials mixed in, no commit raises.
THEOREM ChoicesHold == Spec => []ChoicesStand
<1>1. ASSUME IInv, phase = "match", NEW g \in picks
      PROVE  LET rivals == {k \in picks : k.res = g.res}
             IN  /\ Free(g.res)
                 /\ ~Mixed => CanCommit(g)
                 /\ ~Mixed /\ Cardinality(rivals) > 1 =>
                      /\ g.shared
                      /\ NumOwners(infoTable[g.res].owners) + Cardinality(rivals)
                           <= ShareLimit[g.res]
  <2> DEFINE r == g.res
  <2> DEFINE n == Cardinality(Chosen(r))
  <2>1. Accounts /\ Selection /\ r \in Res /\ g.shared \in BOOLEAN
    BY <1>1 DEF IInv, Accounts, TypeOK, Grant
  <2>2. SetAside(r) /\ CopyInLimits(r) /\ ModeAllowed(r) /\ g \in Chosen(r)
    BY <1>1, <2>1 DEF Selection, Chosen
  <2>3. Free(r) /\ IsFiniteSet(Chosen(r))
    BY <2>2 DEF SetAside
  <2>4. n \in Nat /\ n # 0
    BY <2>2, <2>3, FS_CardinalityType, FS_EmptySet
  <2>5. NumOwners(infoTable[r].owners) \in Nat /\ NumOwners(pool[r].owners) \in Nat
    BY <2>1, <2>2, TableInLimits, FS_CardinalityType DEF CopyInLimits, NumOwners
  <2>6. pool[r].shared \in BOOLEAN /\ ShareLimit[r] \in Nat \ {0}
    BY <2>1, ShareLimitAssumption DEF Accounts, TypeOK, State
  <2>7. CASE TakenWhole(r)
    <3>1. Chosen(r) = {g} /\ ~g.shared /\ ~infoTable[r].shared
      BY <2>2, <2>7 DEF TakenWhole
    <3>2. Cardinality(Chosen(r)) = 1
      BY <3>1, FS_Singleton
    <3>3. CanCommit(g)
      BY <2>3, <3>1 DEF CanCommit, canAllocate, Free
    <3>4. QED
      BY <2>3, <3>2, <3>3 DEF Chosen
  <2>8. CASE TakenFromCopy(r)
    <3>1. /\ NumOwners(pool[r].owners) = NumOwners(infoTable[r].owners) + n
          /\ g.shared = pool[r].shared
          /\ infoTable[r].shared => pool[r].shared
      BY <2>2, <2>8 DEF TakenFromCopy
    <3>2. NumOwners(infoTable[r].owners) + n <= maxUsers(r, pool[r])
      BY <2>2, <3>1 DEF CopyInLimits
    <3>3. n > 1 => pool[r].shared
      BY <2>4, <2>5, <3>2 DEF maxUsers
    <3>4. CanCommit(g)
      BY <2>2, <2>3, <3>1 DEF CanCommit, canAllocate, Free, CopyInLimits
    <3>5. n > 1 => /\ g.shared
                   /\ NumOwners(infoTable[r].owners) + n <= ShareLimit[r]
      BY <3>1, <3>2, <3>3 DEF maxUsers
    <3>6. QED
      BY <2>3, <3>4, <3>5 DEF Chosen
  <2>9. CASE Mixed
    BY <2>3, <2>9
  <2>10. QED
    BY <2>2, <2>7, <2>8, <2>9 DEF SetAside
<1>2. IInv => ChoicesStand
  BY <1>1 DEF ChoicesStand
<1>3. QED
  BY <1>2, Invariance, PTL

\* Nobody uses a GPU of a managed node without a reservation of that node.
THEOREM GpusAreReserved == Spec => []GpuHasReservation
<1>1. IInv => GpuHasReservation
  BY DEF IInv
<1>2. QED
  BY <1>1, Invariance, PTL

\* Who asks for a node gets all of it that weighs anything: nothing of it was allocated,
\* chosen or shared when it was matched, and it is committed in one piece.
THEOREM WholeNodes == Spec => []NodeIsWhole
<1>1. IInv => NodeIsWhole
  BY DEF IInv, Nodes
<1>2. QED
  BY <1>1, Invariance, PTL
=============================================================================
