----------------------------- MODULE SSMProofs -----------------------------
(***************************************************************************)
(* Theorems about SSM, for any users, X servers, connections and requests: *)
(* types, X clients whose allocation is gone have been told to exit,       *)
(* allocations are removed on behalf of somebody who may, tables count the *)
(* X clients there are, and, as long as no client dies while it waits for  *)
(* a response, no allocation is left that nobody cleans up and, with other *)
(* conditions, the loop goes on.                                           *)
(*                                                                         *)
(* Handlers pass the tables on, as one record.  So the lemmas are about    *)
(* what an operator on tables returns, and what is Sound stays Sound; the  *)
(* steps come next, each with the tables its handler leaves.  The count of *)
(* X clients is an invariant of its own on top of that, and what keeps the *)
(* loop going one on top of both, with lemmas in the same order.           *)
(***************************************************************************)
EXTENDS SSM, SequenceTheorems, FiniteSetTheorems, TLAPS

Connection == {NoConn} \cup ClientConn \cup XConn

\* The types of the tables, as handlers pass them on.
TableSet == [clients : Seq(Conn), conn : [Conn -> Connection], live : SUBSET AllocId,
             users : Tally, avail : Tally]
USE DEF TableSet

Good(t) ==
    /\ t \in TableSet
    /\ IsInjective(t.clients)
    /\ ToSet(t.clients) = {c \in Conn : t.conn[c] # NoConn}

\* The three kinds of entries are told apart by their kind.
LEMMA Kinds ==
    ASSUME NEW x \in Connection
    PROVE  /\ x = NoConn <=> x.kind = "none"
           /\ x \in ClientConn <=> x.kind = "client"
           /\ x \in XConn <=> x.kind = "x"
  BY DEF Connection, NoConn, ClientConn, XConn

\* An entry keeps its kind when allocations are removed.
LEMMA Removed ==
    ASSUME NEW t, Good(t), NEW as \in SUBSET AllocId, NEW c \in Conn
    PROVE  /\ AfterRemoval(t, as, c) \in Connection
           /\ AfterRemoval(t, as, c).kind = t.conn[c].kind
<1>1. t.conn[c] \in Connection
  BY DEF Good
<1>2. CASE c \in XClientsOf(t, as)
  <2>1. t.conn[c] \in XConn
    BY <1>1, <1>2, Kinds DEF XClientsOf
  <2>2. [t.conn[c] EXCEPT !.shut = TRUE] \in XConn /\ [t.conn[c] EXCEPT !.shut = TRUE].kind = "x"
    BY <2>1 DEF XConn
  <2> QED
    BY <1>2, <2>1, <2>2, Kinds, <1>1 DEF AfterRemoval, Connection
<1>3. CASE c \notin XClientsOf(t, as) /\ t.conn[c].kind = "client"
  <2>1. t.conn[c] \in ClientConn
    BY <1>1, <1>3, Kinds
  <2>2. /\ [t.conn[c] EXCEPT !.toClean = @ \ as] \in ClientConn
        /\ [t.conn[c] EXCEPT !.toClean = @ \ as].kind = "client"
    BY <2>1 DEF ClientConn
  <2> QED
    BY <1>3, <2>2 DEF AfterRemoval, Connection
<1>4. CASE c \notin XClientsOf(t, as) /\ t.conn[c].kind # "client"
  BY <1>1, <1>4 DEF AfterRemoval
<1> QED
  BY <1>2, <1>3, <1>4

\* The tables after the removal of allocations.
LEMMA RemoveEffect ==
    ASSUME NEW t, Good(t), NEW as \in SUBSET AllocId
    PROVE  /\ Good(RemoveAllocations(t, as))
           /\ RemoveAllocations(t, as).clients = t.clients
           /\ RemoveAllocations(t, as).live = t.live \ as
           /\ \A c \in Conn : RemoveAllocations(t, as).conn[c] = AfterRemoval(t, as, c)
<1> DEFINE cn == [c \in Conn |-> AfterRemoval(t, as, c)]
           us == [a \in AllocId |-> IF a \in as THEN Nobody ELSE t.users[a]]
           av == [a \in AllocId |-> IF a \in as THEN Nobody ELSE t.avail[a]]
           r == RemoveAllocations(t, as)
<1>1. /\ t.clients \in Seq(Conn) /\ t.conn \in [Conn -> Connection] /\ t.live \in SUBSET AllocId
      /\ t.users \in Tally /\ t.avail \in Tally
  BY DEF Good
<1>2. cn \in [Conn -> Connection]
  BY Removed
<1>3. us \in Tally /\ av \in Tally
  <2>1. Nobody \in [Server -> [Uid -> Nat]]
    BY DEF Nobody
  <2> QED
    BY <1>1, <2>1 DEF Tally
<1>4. r = [clients |-> t.clients, conn |-> cn, live |-> t.live \ as, users |-> us, avail |-> av]
  <2>1. r = [t EXCEPT !.conn = cn, !.live = t.live \ as, !.users = us, !.avail = av]
    BY DEF RemoveAllocations
  <2> HIDE DEF cn, us, av, r
  <2>2. t \in TableSet
    BY DEF Good
  <2> QED
    BY <2>1, <2>2
<1> HIDE DEF cn, us, av, r
<1>5. r \in TableSet
  <2>1. t.live \ as \in SUBSET AllocId
    BY <1>1
  <2> QED
    BY <1>1, <1>2, <1>3, <1>4, <2>1, Zenon
<1>6. {c \in Conn : cn[c] # NoConn} = {c \in Conn : t.conn[c] # NoConn}
  <2>1. ASSUME NEW c \in Conn PROVE cn[c] # NoConn <=> t.conn[c] # NoConn
    <3>1. cn[c] \in Connection /\ cn[c].kind = t.conn[c].kind /\ t.conn[c] \in Connection
      BY <1>1, Removed DEF cn
    <3> QED
      BY <3>1, Kinds
  <2> QED
    BY <2>1
<1>7. r.clients = t.clients /\ r.live = t.live \ as /\ r.conn = cn
  BY <1>4
<1>8. Good(r)
  BY <1>5, <1>6, <1>7 DEF Good
<1> QED
  BY <1>7, <1>8 DEF cn, r

\* A tally with one other number.
LEMMA TallyChanged ==
    ASSUME NEW f \in Tally, NEW a \in AllocId, NEW s \in Server, NEW u \in Uid, NEW n \in Nat
    PROVE  [f EXCEPT ![a][s][u] = n] \in Tally
  BY DEF Tally

\* Forgetting an X client changes how often its server is connected and available only.
LEMMA ForgetEffect ==
    ASSUME NEW t, Good(t), NEW c \in Conn, t.conn[c].kind = "x"
    PROVE  /\ Good(ForgetX(t, c))
           /\ ForgetX(t, c).clients = t.clients /\ ForgetX(t, c).live = t.live
           /\ ForgetX(t, c).conn = t.conn
<1> DEFINE x == t.conn[c]
           us == [t.users EXCEPT ![x.alloc][x.srv][x.uid] = Less(@)]
           av == [t.avail EXCEPT ![x.alloc][x.srv][x.uid] = IF x.running THEN Less(@) ELSE @]
<1>1. CASE x.alloc \notin t.live
  BY <1>1 DEF ForgetX
<1>2. CASE x.alloc \in t.live
  <2>1. t \in TableSet
    BY DEF Good
  <2>2. x \in XConn
    BY <2>1, Kinds, SMTT(30)
  <2>3. us \in Tally
    <3>1. \A n \in Nat : Less(n) \in Nat
      BY DEF Less
    <3>2. t.users[x.alloc][x.srv][x.uid] \in Nat
      BY <2>1, <2>2 DEF Tally, XConn
    <3> QED
      BY <2>1, <2>2, <3>1, <3>2, TallyChanged, SMTT(30) DEF XConn
  <2>4. av \in Tally
    <3>1. \A n \in Nat : Less(n) \in Nat
      BY DEF Less
    <3>2. t.avail[x.alloc][x.srv][x.uid] \in Nat
      BY <2>1, <2>2 DEF Tally, XConn
    <3> QED
      BY <2>1, <2>2, <3>1, <3>2, TallyChanged, SMTT(30) DEF XConn
  <2>5. ForgetX(t, c) = [t EXCEPT !.users = us, !.avail = av]
    BY <1>2, <2>1 DEF ForgetX
  <2> HIDE DEF us, av
  <2>6. ForgetX(t, c) = [clients |-> t.clients, conn |-> t.conn, live |-> t.live,
                         users |-> us, avail |-> av]
    BY <2>1, <2>5
  <2> QED
    BY <2>1, <2>3, <2>4, <2>6 DEF Good
<1> QED
  BY <1>1, <1>2

\* Popping an entry of a list without duplicates.
LEMMA RemoveAtEffect ==
    ASSUME NEW q \in Seq(Conn), IsInjective(q), NEW i \in DOMAIN q
    PROVE  /\ RemoveAt(q, i) \in Seq(Conn)
           /\ IsInjective(RemoveAt(q, i))
           /\ ToSet(RemoveAt(q, i)) = ToSet(q) \ {q[i]}
<1> DEFINE r == RemoveAt(q, i)
<1>1. /\ r \in Seq(Conn) /\ Len(r) = Len(q) - 1
      /\ \A j \in 1..Len(r) : r[j] = IF j < i THEN q[j] ELSE q[j + 1]
  <2> DEFINE front == SubSeq(q, 1, i - 1)
             back == SubSeq(q, i + 1, Len(q))
  <2>1. i \in 1..Len(q) /\ Len(q) \in Nat
    OBVIOUS
  <2>2. /\ front \in Seq(Conn) /\ Len(front) = i - 1
        /\ \A j \in 1..(i - 1) : front[j] = q[j]
    BY <2>1, SubSeqProperties
  <2>3. /\ back \in Seq(Conn) /\ Len(back) = Len(q) - i
        /\ \A j \in 1..(Len(q) - i) : back[j] = q[i + j]
    BY <2>1, SubSeqProperties
  <2>4. r = front \o back
    BY DEF RemoveAt
  <2> HIDE DEF front, back, r
  <2>5. /\ r \in Seq(Conn) /\ Len(r) = Len(q) - 1
        /\ \A j \in 1..Len(r) : r[j] = IF j <= i - 1 THEN front[j] ELSE back[j - (i - 1)]
    <3>1. /\ front \o back \in Seq(Conn) /\ Len(front \o back) = Len(front) + Len(back)
          /\ \A j \in 1..Len(front) + Len(back) : (front \o back)[j] =
                 IF j <= Len(front) THEN front[j] ELSE back[j - Len(front)]
      BY <2>2, <2>3, ConcatProperties
    <3>2. Len(front) = i - 1 /\ Len(back) = Len(q) - i /\ Len(r) = Len(q) - 1
      BY <2>1, <2>2, <2>3, <2>4, <3>1
    <3> QED
      BY <2>1, <2>4, <3>1, <3>2
  <2>6. ASSUME NEW j \in 1..Len(r) PROVE r[j] = IF j < i THEN q[j] ELSE q[j + 1]
    <3>1. CASE j < i
      BY <2>1, <2>2, <2>5, <3>1
    <3>2. CASE j >= i
      <4>1. j - (i - 1) \in 1..(Len(q) - i) /\ i + (j - (i - 1)) = j + 1
        BY <2>1, <2>5, <3>2
      <4>2. back[j - (i - 1)] = q[j + 1]
        BY <2>3, <4>1
      <4> QED
        BY <2>1, <2>5, <3>2, <4>2
    <3> QED
      BY <2>1, <2>5, <3>1, <3>2
  <2> QED
    BY <2>5, <2>6
<1> HIDE DEF r
<1>2. IsInjective(r)
  <2> SUFFICES ASSUME NEW j \in 1..Len(r), NEW k \in 1..Len(r), r[j] = r[k], j # k
               PROVE  FALSE
    BY <1>1 DEF IsInjective
  <2> DEFINE at(n) == IF n < i THEN n ELSE n + 1
  <2>1. i \in 1..Len(q) /\ Len(q) \in Nat
    OBVIOUS
  <2>2. at(j) \in DOMAIN q /\ at(k) \in DOMAIN q /\ at(j) # at(k)
    BY <1>1, <2>1
  <2>3. q[at(j)] = r[j] /\ q[at(k)] = r[k]
    BY <1>1
  <2> QED
    BY <2>2, <2>3 DEF IsInjective
<1>3. ASSUME NEW c PROVE c \in ToSet(r) <=> c \in ToSet(q) \ {q[i]}
  <2>1. ASSUME c \in ToSet(r) PROVE c \in ToSet(q) \ {q[i]}
    <3>1. PICK j \in 1..Len(r) : c = r[j]
      BY <1>1, <2>1 DEF ToSet
    <3> QED
      BY <1>1, <3>1, SMTT(30) DEF ToSet, IsInjective
  <2>2. ASSUME c \in ToSet(q) \ {q[i]} PROVE c \in ToSet(r)
    <3>1. PICK j \in 1..Len(q) : c = q[j]
      BY <2>2 DEF ToSet
    <3>2. CASE j < i
      BY <1>1, <2>2, <3>1, <3>2 DEF ToSet
    <3>3. CASE j > i
      <4>1. j - 1 \in 1..Len(r) /\ r[j - 1] = q[j]
        BY <1>1, <3>1, <3>3
      <4> QED
        BY <1>1, <3>1, <4>1 DEF ToSet
    <3> QED
      BY <2>2, <3>1, <3>2, <3>3
  <2> QED
    BY <2>1, <2>2
<1> QED
  BY <1>1, <1>2, <1>3 DEF r

\* The tables after an entry is popped from client_info.
LEMMA DropEffect ==
    ASSUME NEW t, Good(t), NEW c \in ToSet(t.clients)
    PROVE  /\ Good(Dropped(t, c))
           /\ ToSet(Dropped(t, c).clients) = ToSet(t.clients) \ {c}
           /\ Dropped(t, c).live = t.live
           /\ Dropped(t, c).conn = [t.conn EXCEPT ![c] = NoConn]
<1> DEFINE i == CHOOSE j \in DOMAIN t.clients : t.clients[j] = c
           cl == RemoveAt(t.clients, i)
           cn == [t.conn EXCEPT ![c] = NoConn]
<1>1. t \in TableSet
  BY DEF Good
<1>2. i \in DOMAIN t.clients /\ t.clients[i] = c
  BY DEF ToSet
<1>3. cl \in Seq(Conn) /\ IsInjective(cl) /\ ToSet(cl) = ToSet(t.clients) \ {c}
  BY <1>1, <1>2, RemoveAtEffect DEF Good
<1>4. c \in Conn /\ cn \in [Conn -> Connection]
  BY <1>1 DEF Good, Connection
<1>5. Dropped(t, c) = [t EXCEPT !.clients = cl, !.conn = cn]
  BY DEF Dropped
<1>6. ToSet(cl) = {d \in Conn : cn[d] # NoConn}
  BY <1>1, <1>3, <1>4 DEF Good
<1> HIDE DEF i, cl, cn
<1>7. Dropped(t, c) = [clients |-> cl, conn |-> cn, live |-> t.live,
                       users |-> t.users, avail |-> t.avail]
  BY <1>1, <1>5
<1>8. Good(Dropped(t, c))
  BY <1>1, <1>3, <1>4, <1>6, <1>7 DEF Good
<1> QED
  BY <1>3, <1>7, <1>8 DEF cn

\* What a client leaves to be cleaned up is a set of allocations.
LEMMA ToCleanUpType ==
    ASSUME NEW t, Good(t), NEW c \in Conn
    PROVE  ToCleanUp(t, c) \in SUBSET AllocId
<1>1. t.conn[c] \in Connection
  BY DEF Good
<1> QED
  BY <1>1, Kinds DEF ToCleanUp, ClientConn

\* The tables after a client is disconnected and cleaned up after.
LEMMA DisconnectEffect ==
    ASSUME NEW t, Good(t), NEW c \in ToSet(t.clients)
    PROVE  /\ Good(Disconnect(t, c))
           /\ ToSet(Disconnect(t, c).clients) = ToSet(t.clients) \ {c}
           /\ Disconnect(t, c).live = t.live \ ToCleanUp(t, c)
           /\ \A d \in Conn \ {c} :
                  Disconnect(t, c).conn[d] = AfterRemoval(t, ToCleanUp(t, c), d)
<1> DEFINE as == ToCleanUp(t, c)
           known == IF t.conn[c].kind = "x" THEN ForgetX(t, c) ELSE t
           r == RemoveAllocations(known, as)
<1>1. c \in Conn
  BY DEF Good
<1>2. Good(known) /\ known.clients = t.clients /\ known.live = t.live /\ known.conn = t.conn
  BY <1>1, ForgetEffect
<1>3. \A d \in Conn : AfterRemoval(known, as, d) = AfterRemoval(t, as, d)
  BY <1>2 DEF AfterRemoval, XClientsOf
<1>0. as \in SUBSET AllocId
  BY <1>1, ToCleanUpType
<1>4. Disconnect(t, c) = Dropped(r, c)
  BY DEF Disconnect
<1> HIDE DEF as, known
<1>5. /\ Good(r) /\ r.clients = t.clients /\ r.live = t.live \ as
      /\ \A d \in Conn : r.conn[d] = AfterRemoval(t, as, d)
  <2>1. /\ Good(r) /\ r.clients = known.clients /\ r.live = known.live \ as
        /\ \A d \in Conn : r.conn[d] = AfterRemoval(known, as, d)
    <3>1. Good(known)
      BY <1>2
    <3> QED
      BY <1>0, <3>1, RemoveEffect
  <2> QED
    BY <1>2, <1>3, <2>1
<1> HIDE DEF r
<1>6. c \in ToSet(r.clients)
  BY <1>5
<1>7. /\ Good(Dropped(r, c))
      /\ ToSet(Dropped(r, c).clients) = ToSet(r.clients) \ {c}
      /\ Dropped(r, c).live = r.live
      /\ Dropped(r, c).conn = [r.conn EXCEPT ![c] = NoConn]
  BY <1>5, <1>6, DropEffect
<1>8. \A d \in Conn \ {c} : Dropped(r, c).conn[d] = AfterRemoval(t, as, d)
  BY <1>5, <1>7 DEF Good
<1> QED
  BY <1>4, <1>5, <1>7, <1>8 DEF as

\* An X client whose allocation is gone has been told to exit.
Told(t) ==
    \A c \in ToSet(t.clients) :
        t.conn[c].kind = "x" /\ t.conn[c].alloc \notin t.live => t.conn[c].shut

\* Each allocation has a client that cleans it up, and clients do clean up.
Owned(t) ==
    ~LeaveAlive =>
        /\ \A a \in t.live : \E c \in ToSet(t.clients) :
               t.conn[c].kind = "client" /\ a \in t.conn[c].toClean
        /\ \A c \in ToSet(t.clients) : t.conn[c].kind = "client" => t.conn[c].cleanup

\* Nobody who has closed its end waits for a response.
Present(t) == \A c \in gone : t.conn[c].kind = "client" => t.conn[c].wait = NoWait

Sound(t) == Good(t) /\ Told(t) /\ (LateDeaths \/ (Owned(t) /\ Present(t)))

\* A handler that changes nothing but what clients wait for, in part of those that are there,
\* and who has been told to exit.
Alike(t, r) ==
    /\ r.clients = t.clients /\ r.live = t.live
    /\ \A c \in Conn :
         /\ r.conn[c].kind = t.conn[c].kind
         /\ t.conn[c].kind = "x" =>
                r.conn[c].alloc = t.conn[c].alloc /\ (t.conn[c].shut => r.conn[c].shut)
         /\ t.conn[c].kind = "client" =>
                /\ r.conn[c].toClean = t.conn[c].toClean /\ r.conn[c].cleanup = t.conn[c].cleanup
                /\ ~LateDeaths /\ c \in gone => r.conn[c].wait \in {t.conn[c].wait, NoWait}

LEMMA AlikeSound ==
    ASSUME NEW t, Sound(t), NEW r, Good(r), Alike(t, r), gone \subseteq Conn
    PROVE  Sound(r)
<1>1. ToSet(t.clients) \subseteq Conn /\ ToSet(r.clients) = ToSet(t.clients)
  BY DEF Sound, Good, Alike
<1>2. Told(r)
  BY <1>1 DEF Sound, Told, Alike
<1>3. Owned(t) => Owned(r)
  BY <1>1 DEF Owned, Alike
<1>4. ~LateDeaths /\ Present(t) => Present(r)
  BY DEF Present, Alike
<1> QED
  BY <1>2, <1>3, <1>4, Zenon DEF Sound

\* e is what the removal of as leaves of the entry of c, as far as the proofs look at it.
Left(t, as, c, e) ==
    /\ e.kind = t.conn[c].kind
    /\ e.kind = "x" => /\ e.alloc = t.conn[c].alloc
                       /\ t.conn[c].shut => e.shut
                       /\ c \in ToSet(t.clients) /\ e.alloc \in as => e.shut
    /\ e.kind = "client" => /\ e.toClean = t.conn[c].toClean \ as
                            /\ e.cleanup = t.conn[c].cleanup
                            /\ e.wait = t.conn[c].wait

\* The removal of allocations leaves what it should of each entry.
LEMMA RemovedEntry ==
    ASSUME NEW t, Good(t), NEW as \in SUBSET AllocId, NEW c \in Conn
    PROVE  Left(t, as, c, AfterRemoval(t, as, c))
<1>1. t.conn[c] \in Connection
  BY DEF Good
<1>2. CASE c \in XClientsOf(t, as)
  <2>1. t.conn[c] \in XConn
    BY <1>1, <1>2, Kinds DEF XClientsOf
  <2>2. AfterRemoval(t, as, c) = [t.conn[c] EXCEPT !.shut = TRUE]
    BY <1>2, <2>1 DEF AfterRemoval, XConn
  <2> QED
    BY <2>1, <2>2 DEF XConn, Left
<1>3. CASE c \notin XClientsOf(t, as) /\ t.conn[c].kind = "client"
  <2>1. t.conn[c] \in ClientConn
    BY <1>1, <1>3, Kinds
  <2>2. AfterRemoval(t, as, c) = [t.conn[c] EXCEPT !.toClean = @ \ as]
    BY <1>3 DEF AfterRemoval
  <2> QED
    BY <2>1, <2>2 DEF ClientConn, Left
<1>4. CASE c \notin XClientsOf(t, as) /\ t.conn[c].kind # "client"
  <2>1. AfterRemoval(t, as, c) = t.conn[c]
    BY <1>4 DEF AfterRemoval
  <2> QED
    BY <1>4, <2>1 DEF XClientsOf, Left
<1> QED
  BY <1>2, <1>3, <1>4

\* The X clients of allocations that are removed are told to exit.
LEMMA RemoveSound ==
    ASSUME NEW t, Sound(t), NEW as \in SUBSET AllocId, gone \subseteq Conn
    PROVE  Sound(RemoveAllocations(t, as))
<1> DEFINE r == RemoveAllocations(t, as)
<1>1. /\ Good(r) /\ r.clients = t.clients /\ r.live = t.live \ as
      /\ \A c \in Conn : r.conn[c] = AfterRemoval(t, as, c)
  BY RemoveEffect DEF Sound
<1> HIDE DEF r
<1>2. ToSet(t.clients) \subseteq Conn
  BY DEF Sound, Good
<1>3. ASSUME NEW c \in Conn
      PROVE  Left(t, as, c, r.conn[c])
  <2>1. Good(t) /\ r.conn[c] = AfterRemoval(t, as, c)
    BY <1>1 DEF Sound
  <2>2. Left(t, as, c, AfterRemoval(t, as, c))
    BY <2>1, RemovedEntry
  <2> QED
    BY <2>1, <2>2
<1>4. Told(r)
  BY <1>1, <1>2, <1>3 DEF Sound, Told, Left
<1>5. Owned(t) => Owned(r)
  <2> SUFFICES ASSUME Owned(t), ~LeaveAlive PROVE Owned(r)
    BY DEF Owned
  <2>1. \A c \in ToSet(r.clients) : r.conn[c].kind = "client" => r.conn[c].cleanup
    BY <1>1, <1>2, <1>3 DEF Owned, Left
  <2>2. ASSUME NEW a \in r.live
        PROVE  \E c \in ToSet(r.clients) : r.conn[c].kind = "client" /\ a \in r.conn[c].toClean
    <3>1. a \in t.live /\ a \notin as
      BY <1>1
    <3>2. PICK c \in ToSet(t.clients) : t.conn[c].kind = "client" /\ a \in t.conn[c].toClean
      BY <3>1 DEF Owned
    <3>3. Left(t, as, c, r.conn[c]) /\ c \in ToSet(r.clients)
      BY <1>1, <1>2, <1>3, <3>2
    <3>4. r.conn[c].kind = "client" /\ r.conn[c].toClean = t.conn[c].toClean \ as
      BY <3>2, <3>3 DEF Left
    <3>5. a \in r.conn[c].toClean
      BY <3>1, <3>2, <3>4
    <3> QED
      BY <3>3, <3>4, <3>5, Zenon
  <2> QED
    BY <2>1, <2>2 DEF Owned
<1>6. Present(t) => Present(r)
  BY <1>3 DEF Present, Left
<1> QED
  BY <1>1, <1>4, <1>5, <1>6 DEF Sound, r

\* A client that disconnects takes along the allocations that only it has to clean up.
LEMMA DisconnectSound ==
    ASSUME NEW t, Sound(t), NEW c \in ToSet(t.clients), gone \subseteq Conn
    PROVE  Sound(Disconnect(t, c))
<1> DEFINE d == Disconnect(t, c)
           as == ToCleanUp(t, c)
<1>1. /\ Good(d) /\ ToSet(d.clients) = ToSet(t.clients) \ {c} /\ d.live = t.live \ as
      /\ \A b \in Conn \ {c} : d.conn[b] = AfterRemoval(t, as, b)
  BY DisconnectEffect DEF Sound
<1> HIDE DEF d
<1>2. ToSet(t.clients) \subseteq Conn /\ c \in Conn
  BY DEF Sound, Good
<1>0. as \in SUBSET AllocId
  BY <1>2, ToCleanUpType DEF Sound
<1>3. ASSUME NEW b \in Conn \ {c}
      PROVE  Left(t, as, b, d.conn[b])
  <2>1. Good(t) /\ b \in Conn /\ d.conn[b] = AfterRemoval(t, as, b)
    BY <1>1 DEF Sound
  <2> HIDE DEF as
  <2>2. Left(t, as, b, AfterRemoval(t, as, b))
    BY <1>0, <2>1, RemovedEntry
  <2> QED
    BY <2>1, <2>2
<1>4. Told(d)
  BY <1>1, <1>2, <1>3 DEF Sound, Told, Left
<1>5. Owned(t) => Owned(d)
  <2> SUFFICES ASSUME Owned(t), ~LeaveAlive PROVE Owned(d)
    BY DEF Owned
  <2>1. \A b \in ToSet(d.clients) : d.conn[b].kind = "client" => d.conn[b].cleanup
    BY <1>1, <1>2, <1>3 DEF Owned, Left
  <2>2. ASSUME NEW a \in d.live
        PROVE  \E b \in ToSet(d.clients) : d.conn[b].kind = "client" /\ a \in d.conn[b].toClean
    <3>1. a \in t.live /\ a \notin as
      BY <1>1
    <3>2. PICK b \in ToSet(t.clients) : t.conn[b].kind = "client" /\ a \in t.conn[b].toClean
      BY <3>1 DEF Owned
    <3>3. b # c
      BY <3>1, <3>2 DEF Owned, ToCleanUp
    <3>4. Left(t, as, b, d.conn[b]) /\ b \in ToSet(d.clients)
      BY <1>1, <1>2, <1>3, <3>2, <3>3
    <3>5. d.conn[b].kind = "client" /\ d.conn[b].toClean = t.conn[b].toClean \ as
      BY <3>2, <3>4 DEF Left
    <3>6. a \in d.conn[b].toClean
      BY <3>1, <3>2, <3>5
    <3> QED
      BY <3>4, <3>5, <3>6, Zenon
  <2> QED
    BY <2>1, <2>2 DEF Owned
<1>6. Present(t) => Present(d)
  <2>1. d.conn[c].kind = "none"
    <3>1. d.conn[c] = NoConn
      BY <1>1, <1>2 DEF Good
    <3> QED
      BY <3>1 DEF NoConn
  <2> QED
    BY <1>3, <2>1 DEF Present, Left
<1> QED
  BY <1>1, <1>4, <1>5, <1>6 DEF Sound, d

-----------------------------------------------------------------------------
Control ==
    /\ status \in {"up", "missed", "raised", "interrupted"}
    /\ phase \in {"loop", "serve"}
    /\ lastId \in 0..MaxAllocs
    /\ user \in [AllocId -> Uid]
    /\ used \in [AllocId -> SUBSET Server]

IInv ==
    /\ Control
    /\ Sound(Tables)
    /\ gone \subseteq ToSet(clients) /\ ready \subseteq ToSet(clients)
    /\ live \subseteq 1..lastId

\* The body of RemovedOnBehalfOf.
OnBehalf ==
    \A a \in live \ live' :
        \/ status' # "up"
        \/ \E c \in ready \ ready' :
               IsClient(c) /\ (conn[c].uid \in {Root, user[a]} \/ a \in conn[c].toClean)

\* The handler of c has removed what c may remove, and put no more on c's list of allocations to
\* clean up than was there or is new.
Rightful(c, t) ==
    \A a \in live :
        /\ a \notin t.live => conn[c].kind = "client" /\ conn[c].uid \in {Root, user[a]}
        /\ t.conn[c].kind = "client" /\ a \in t.conn[c].toClean =>
               conn[c].kind = "client" /\ a \in conn[c].toClean

\* A step to sound tables.
LEMMA BecomeKeeps ==
    ASSUME IInv, NEW STATE t, Sound(t), Become(t), Control',
           t.live \subseteq 1..lastId', ready' \subseteq ToSet(t.clients)
    PROVE  IInv'
<1>1. Tables' = t
  BY DEF Become, Tables, Sound, Good
<1>2. gone' \subseteq ToSet(t.clients) /\ gone' \subseteq gone
  BY DEF Become
<1>3. clients' = t.clients /\ live' = t.live
  BY DEF Become
<1>4. Good(Tables)' /\ Told(Tables)' /\ (Owned(t) => Owned(Tables)')
  BY <1>1 DEF Sound
<1>5. Present(t) => Present(Tables)'
  BY <1>1, <1>2 DEF Present
<1>6. Sound(Tables)'
  BY <1>4, <1>5 DEF Sound
<1> QED
  BY <1>2, <1>3, <1>6 DEF IInv

\* r is t with other entries, and with other allocations or X servers that are available.
Changed(t, r, lv, av, cn) ==
    \/ r = [t EXCEPT !.conn = cn] /\ lv = t.live
    \/ r = [t EXCEPT !.live = lv, !.conn = cn]
    \/ r = [t EXCEPT !.avail = av, !.conn = cn] /\ lv = t.live

KindsKept(t, cn) == \A c \in Conn : cn[c].kind = t.conn[c].kind

\* Tables with other entries are good when each entry keeps its kind.
LEMMA NewEntries ==
    ASSUME NEW t, Good(t), NEW lv \in SUBSET AllocId, NEW av \in Tally,
           NEW cn \in [Conn -> Connection], KindsKept(t, cn),
           NEW r, Changed(t, r, lv, av, cn)
    PROVE  Good(r) /\ r.clients = t.clients /\ r.live = lv /\ r.conn = cn
<1>1. t \in TableSet
  BY DEF Good
<1>2. \/ r = [clients |-> t.clients, conn |-> cn, live |-> lv, users |-> t.users, avail |-> t.avail]
      \/ r = [clients |-> t.clients, conn |-> cn, live |-> lv, users |-> t.users, avail |-> av]
  <2>1. CASE r = [t EXCEPT !.conn = cn] /\ lv = t.live
    BY <1>1, <2>1
  <2>2. CASE r = [t EXCEPT !.live = lv, !.conn = cn]
    BY <1>1, <2>2
  <2>3. CASE r = [t EXCEPT !.avail = av, !.conn = cn] /\ lv = t.live
    BY <1>1, <2>3
  <2> QED
    BY <2>1, <2>2, <2>3 DEF Changed
<1>3. r \in TableSet
  BY <1>1, <1>2
<1>4. r.clients = t.clients /\ r.live = lv /\ r.conn = cn
  BY <1>2
<1>5. \A c \in Conn : cn[c] # NoConn <=> t.conn[c] # NoConn
  BY <1>1, Kinds DEF KindsKept
<1> QED
  BY <1>3, <1>4, <1>5 DEF Good

\* Tables with other clients, field by field.
LEMMA NewClients ==
    ASSUME NEW t, Good(t), NEW cl, NEW cn, NEW r, r = [t EXCEPT !.clients = cl, !.conn = cn]
    PROVE  r = [clients |-> cl, conn |-> cn, live |-> t.live, users |-> t.users, avail |-> t.avail]
<1>1. t \in TableSet
  BY DEF Good
<1> QED
  BY <1>1

\* When the SSM ends nobody is left.
LEMMA ExitKeeps ==
    ASSUME IInv, NEW how \in {"missed", "raised", "interrupted"}, Exit(how),
           lastId' \in 0..MaxAllocs, user' \in [AllocId -> Uid],
           used' \in [AllocId -> SUBSET Server]
    PROVE  IInv' /\ OnBehalf
<1> DEFINE r == RemoveAllocations(Tables, live)
           cn == [c \in Conn |-> NoConn]
           none == <<>>
           t == [r EXCEPT !.clients = none, !.conn = cn]
<1>1. Good(Tables) /\ live \in SUBSET AllocId
  BY DEF IInv, Sound, Good, Tables
<1>2. Good(r) /\ r.live = {}
  <2>1. r.live = Tables.live \ live /\ Good(r)
    BY <1>1, RemoveEffect
  <2> QED
    BY <2>1 DEF Tables
<1> HIDE DEF r
<1>3. r \in TableSet
  BY <1>2 DEF Good
<1>4. cn \in [Conn -> Connection]
  BY DEF Connection
<1> HIDE DEF cn, none
<1>5. t = [clients |-> none, conn |-> cn, live |-> r.live, users |-> r.users, avail |-> r.avail]
  BY <1>2, NewClients
<1> HIDE DEF t
<1>6. Sound(t)
  <2>1. r.users \in Tally /\ r.avail \in Tally /\ none \in Seq(Conn)
    BY <1>3 DEF none
  <2>2. t \in TableSet
    BY <1>2, <1>5, <1>4, <2>1
  <2>3. IsInjective(t.clients) /\ ToSet(t.clients) = {} /\ t.live = {}
    BY <1>2, <1>5 DEF IsInjective, ToSet, none
  <2>4. \A c \in Conn : t.conn[c] = NoConn
    BY <1>5 DEF cn
  <2>5. Good(t)
    BY <2>2, <2>3, <2>4 DEF Good
  <2>6. Told(t) /\ Owned(t)
    BY <2>3 DEF Told, Owned
  <2>7. Present(t)
    BY <2>4 DEF Present, NoConn, IInv, Sound, Good, Tables
  <2> QED
    BY <2>5, <2>6, <2>7 DEF Sound
<1>7. Become(t) /\ status' = how /\ phase' = "loop" /\ ready' = {}
  BY DEF Exit, r, t, cn, none
<1>8. t.live = {}
  BY <1>2, <1>5
<1>9. OnBehalf
  BY <1>7 DEF OnBehalf
<1> QED
  BY <1>6, <1>7, <1>8, <1>9, BecomeKeeps DEF Control

-----------------------------------------------------------------------------
\* The last step of a handler, with the tables as it left them: when the peer is gone,
LEMMA DropKeeps ==
    ASSUME IInv, NEW c \in ready, NEW STATE t, Sound(t), ToSet(t.clients) = ToSet(clients),
           Rightful(c, t),
           t.live \subseteq 1..lastId', lastId' \in 0..MaxAllocs,
           user' \in [AllocId -> Uid], used' \in [AllocId -> SUBSET Server], Drop(c, t)
    PROVE  IInv' /\ OnBehalf
<1>1. CASE \E how \in {"missed", "raised"} : Exit(how)
  BY <1>1, ExitKeeps
<1>2. CASE Proceed(c, Disconnect(t, c))
  <2>1. Proceed(c, Disconnect(t, c))
    BY <1>2
  <2>2. c \in ToSet(t.clients) /\ ready \subseteq ToSet(t.clients) /\ gone \subseteq Conn
    BY DEF IInv, Sound, Good
  <2>3. Sound(Disconnect(t, c))
    BY <2>2, DisconnectSound
  <2>4. /\ ToSet(Disconnect(t, c).clients) = ToSet(t.clients) \ {c}
        /\ Disconnect(t, c).live = t.live \ ToCleanUp(t, c)
    BY <2>2, DisconnectEffect DEF Sound
  <2>5. Become(Disconnect(t, c)) /\ ready' = ready \ {c} /\ UNCHANGED <<status, phase>>
    BY <2>1 DEF Proceed
  <2>6. Control'
    BY <2>5 DEF IInv, Control
  <2>7. /\ Disconnect(t, c).live \subseteq 1..lastId'
        /\ ready' \subseteq ToSet(Disconnect(t, c).clients)
    BY <2>2, <2>4, <2>5
  <2>8. OnBehalf
    <3> SUFFICES ASSUME NEW a \in live \ live'
                 PROVE  IsClient(c) /\ (conn[c].uid \in {Root, user[a]} \/ a \in conn[c].toClean)
      BY <2>5 DEF OnBehalf
    <3>1. a \notin t.live \/ a \in ToCleanUp(t, c)
      BY <2>4, <2>5 DEF Become
    <3> QED
      BY <3>1 DEF Rightful, ToCleanUp, IsClient
  <2> QED
    BY <2>3, <2>5, <2>6, <2>7, <2>8, BecomeKeeps
<1> QED
  BY <1>1, <1>2 DEF Drop

\* ... when the reply is sent, or there is none,
LEMMA ProceedKeeps ==
    ASSUME IInv, NEW c \in ready, NEW STATE t, Sound(t), ToSet(t.clients) = ToSet(clients),
           Rightful(c, t),
           t.live \subseteq 1..lastId', lastId' \in 0..MaxAllocs,
           user' \in [AllocId -> Uid], used' \in [AllocId -> SUBSET Server], Proceed(c, t)
    PROVE  IInv' /\ OnBehalf
<1>1. Become(t) /\ ready' = ready \ {c} /\ UNCHANGED <<status, phase>>
  BY DEF Proceed
<1>2. Control' /\ ready' \subseteq ToSet(t.clients)
  BY <1>1 DEF IInv, Control
<1>3. OnBehalf
  BY <1>1 DEF OnBehalf, Rightful, Become, IsClient
<1> QED
  BY <1>1, <1>2, <1>3, BecomeKeeps

\* ... or when it may fail.
LEMMA ReplyKeeps ==
    ASSUME IInv, NEW c \in ready, NEW STATE t, Sound(t), ToSet(t.clients) = ToSet(clients),
           Rightful(c, t),
           t.live \subseteq 1..lastId', lastId' \in 0..MaxAllocs,
           user' \in [AllocId -> Uid], used' \in [AllocId -> SUBSET Server], Reply(c, t)
    PROVE  IInv' /\ OnBehalf
  BY DropKeeps, ProceedKeeps DEF Reply

\* What a handler finds.
LEMMA Here ==
    ASSUME IInv
    PROVE  /\ Good(Tables) /\ Sound(Tables)
           /\ Tables.clients = clients /\ Tables.conn = conn /\ Tables.live = live
           /\ clients \in Seq(Conn) /\ conn \in [Conn -> Connection]
           /\ live \in SUBSET AllocId /\ users \in Tally /\ avail \in Tally
           /\ ready \subseteq ToSet(clients) /\ gone \subseteq ToSet(clients)
           /\ ToSet(clients) = {c \in Conn : conn[c] # NoConn}
           /\ live \subseteq 1..lastId /\ Control
  BY DEF IInv, Sound, Good, Tables

\* A new allocation has its owner.
LEMMA AllocateKeeps ==
    ASSUME IInv, NEW c \in Conn, NEW wish \in Wishes, Allocate(c, wish)
    PROVE  IInv' /\ OnBehalf
<1> DEFINE a == lastId + 1
           rec == [conn[c] EXCEPT !.toClean = @ \cup {a}]
           cn == [conn EXCEPT ![c].toClean = @ \cup {a}]
           t == [Tables EXCEPT !.live = live \cup {a},
                               !.conn = [conn EXCEPT ![c].toClean = @ \cup {a}]]
<1>1. /\ c \in ready /\ conn[c].kind = "client" /\ lastId < MaxAllocs
      /\ lastId' = a /\ user' = [user EXCEPT ![a] = conn[c].uid]
      /\ used' = [used EXCEPT ![a] = wish] /\ Reply(c, t)
  BY DEF Allocate, Asks, Serving, IsClient
<1>2. a \in AllocId /\ a \in 0..MaxAllocs
  BY <1>1, SSMAssumption, Here DEF AllocId, Control
<1>3. conn[c] \in ClientConn
  BY <1>1, Here, Kinds
<1>4. rec \in ClientConn /\ rec.kind = "client" /\ rec.toClean = conn[c].toClean \cup {a}
      /\ rec.cleanup = conn[c].cleanup /\ rec.wait = conn[c].wait
  BY <1>2, <1>3 DEF ClientConn
<1>5. t = [Tables EXCEPT !.live = live \cup {a}, !.conn = cn]
  OBVIOUS
<1>6. /\ cn \in [Conn -> Connection] /\ cn[c] = rec
      /\ \A d \in Conn \ {c} : cn[d] = conn[d]
  BY <1>4, Here DEF Connection
<1> HIDE DEF rec, cn, t
<1>7. KindsKept(Tables, cn)
  BY <1>1, <1>4, <1>6, Here DEF KindsKept
<1>8. Good(t) /\ t.clients = clients /\ t.conn = cn /\ t.live = live \cup {a}
  <2>1. live \cup {a} \in SUBSET AllocId /\ avail \in Tally /\ Good(Tables)
        /\ Tables.clients = clients
    BY <1>2, Here
  <2>2. Changed(Tables, t, live \cup {a}, avail, cn)
    BY <1>5 DEF Changed
  <2> HIDE DEF a
  <2> QED
    BY <1>6, <1>7, <2>1, <2>2, NewEntries
<1>9. Sound(t)
  <2>1. Told(t)
    BY <1>1, <1>4, <1>6, <1>8, Here DEF Sound, Told
  <2>2. Owned(Tables) => Owned(t)
    BY <1>1, <1>4, <1>6, <1>8, Here DEF Owned
  <2>3. Present(Tables) => Present(t)
    BY <1>1, <1>4, <1>6, <1>8, Here DEF Present
  <2> QED
    BY <1>8, <2>1, <2>2, <2>3, Here DEF Sound
<1>10. user' \in [AllocId -> Uid] /\ used' \in [AllocId -> SUBSET Server]
  BY <1>1, <1>2, <1>3, SSMAssumption, Here DEF Control, ClientConn
<1>11. t.live \subseteq 1..lastId'
  BY <1>1, <1>2, <1>8, Here DEF AllocId, Control
<1>12. Rightful(c, t)
  BY <1>1, <1>4, <1>6, <1>8, Here DEF Rightful, Control
<1> QED
  BY <1>1, <1>2, <1>8, <1>9, <1>10, <1>11, <1>12, ReplyKeeps

\* Only root and the allocation's user deallocate.
LEMMA DeallocateKeeps ==
    ASSUME IInv, NEW c \in Conn, NEW a \in AllocId, Deallocate(c, a)
    PROVE  IInv' /\ OnBehalf
<1> DEFINE r == RemoveAllocations(Tables, {a})
<1>1. /\ c \in ready /\ UNCHANGED <<lastId, user, used>>
      /\ conn[c].kind = "client" /\ conn[c].uid \in {Root, user[a]}
  BY DEF Deallocate, Asks, Serving, IsClient, MayControl
<1>2. lastId' \in 0..MaxAllocs /\ user' \in [AllocId -> Uid] /\ used' \in [AllocId -> SUBSET Server]
  BY <1>1, Here DEF Control
<1>3. CASE Exit("raised")
  BY <1>2, <1>3, ExitKeeps
<1>4. CASE Reply(c, r)
  <2>1. {a} \in SUBSET AllocId /\ Sound(Tables) /\ Good(Tables) /\ gone \subseteq Conn
    BY Here
  <2>2. Sound(r)
    BY <2>1, RemoveSound
  <2>3. r.clients = Tables.clients /\ r.live = Tables.live \ {a}
    BY <2>1, RemoveEffect
  <2>4. r.live \subseteq 1..lastId' /\ ToSet(r.clients) = ToSet(clients)
    BY <1>1, <2>3, Here
  <2>5. Rightful(c, r)
    <3>1. r.conn[c] = AfterRemoval(Tables, {a}, c)
      BY <2>1, RemoveEffect
    <3>2. Left(Tables, {a}, c, AfterRemoval(Tables, {a}, c))
      BY <2>1, RemovedEntry
    <3> HIDE DEF r
    <3> QED
      BY <1>1, <2>3, <3>1, <3>2, Here DEF Rightful, Left
  <2> HIDE DEF r
  <2> QED
    BY <1>1, <1>2, <1>4, <2>2, <2>4, <2>5, ReplyKeeps
<1> QED
  BY <1>3, <1>4 DEF Deallocate

\* What a handler leaves that changes entries only, and no allocation.
LEMMA EntriesSound ==
    ASSUME IInv, NEW STATE t, NEW STATE cn, cn \in [Conn -> Connection],
           \E av \in Tally : Changed(Tables, t, live, av, cn),
           \A c \in Conn :
               /\ cn[c].kind = conn[c].kind
               /\ conn[c].kind = "x" =>
                      cn[c].alloc = conn[c].alloc /\ (conn[c].shut => cn[c].shut)
               /\ conn[c].kind = "client" =>
                      /\ cn[c].toClean = conn[c].toClean /\ cn[c].cleanup = conn[c].cleanup
                      /\ ~LateDeaths /\ c \in gone => cn[c].wait \in {conn[c].wait, NoWait}
    PROVE  /\ Sound(t) /\ ToSet(t.clients) = ToSet(clients) /\ t.live = live
           /\ \A c \in Conn : Rightful(c, t)
<1>1. PICK av \in Tally : Changed(Tables, t, live, av, cn)
  BY Here
<1>2. KindsKept(Tables, cn)
  BY Here DEF KindsKept
<1>3. Good(Tables) /\ live \in SUBSET AllocId
  BY Here
<1>4. Good(t) /\ t.clients = Tables.clients /\ t.live = live /\ t.conn = cn
  BY <1>1, <1>2, <1>3, NewEntries
<1>5. Alike(Tables, t)
  BY <1>4, Here DEF Alike
<1>6. gone \subseteq Conn /\ Sound(Tables) /\ Tables.clients = clients
  BY Here
<1>7. \A c \in Conn : Rightful(c, t)
  BY <1>4 DEF Rightful
<1> QED
  BY <1>4, <1>5, <1>6, <1>7, AlikeSound

\* StopXServer tells X clients to exit.
LEMMA StopKeeps ==
    ASSUME IInv, NEW c \in Conn, NEW a \in AllocId, NEW servers, StopXServer(c, a, servers)
    PROVE  IInv' /\ OnBehalf
<1> DEFINE hit(d) == d \in XClientsOf(Tables, {a}) /\ conn[d].srv \in servers
           cn == [d \in Conn |-> IF hit(d) THEN [conn[d] EXCEPT !.shut = TRUE] ELSE conn[d]]
           t == [Tables EXCEPT !.conn = cn]
<1>1. c \in ready /\ UNCHANGED <<lastId, user, used>> /\ Reply(c, t)
  BY DEF StopXServer, Asks, Serving
<1>2. lastId' \in 0..MaxAllocs /\ user' \in [AllocId -> Uid] /\ used' \in [AllocId -> SUBSET Server]
  BY <1>1, Here DEF Control
<1>3. ASSUME NEW d \in Conn
      PROVE  /\ cn[d] \in Connection
             /\ cn[d].kind = conn[d].kind
             /\ conn[d].kind = "x" =>
                    cn[d].alloc = conn[d].alloc /\ (conn[d].shut => cn[d].shut)
             /\ conn[d].kind = "client" => cn[d] = conn[d]
  <2>1. CASE hit(d)
    <3>1. conn[d].kind = "x"
      BY <2>1, Here DEF XClientsOf
    <3>2. conn[d] \in XConn
      BY <3>1, Here, Kinds
    <3> QED
      BY <2>1, <3>1, <3>2 DEF XConn, Connection
  <2>2. CASE ~hit(d)
    BY <2>2, Here
  <2> QED
    BY <2>1, <2>2
<1>4. cn \in [Conn -> Connection]
  BY <1>3
<1>5. \E av \in Tally : Changed(Tables, t, live, av, cn)
  BY Here DEF Changed
<1> HIDE DEF cn, t
<1>6. Sound(t) /\ ToSet(t.clients) = ToSet(clients) /\ t.live = live /\ Rightful(c, t)
  BY <1>3, <1>4, <1>5, EntriesSound
<1>7. t.live \subseteq 1..lastId'
  BY <1>1, <1>6, Here
<1> QED
  BY <1>1, <1>2, <1>6, <1>7, ReplyKeeps

\* A deferred response.
LEMMA WaitKeeps ==
    ASSUME IInv, NEW c \in Conn, NEW w \in Wait, WaitXState(c, w)
    PROVE  IInv' /\ OnBehalf
<1> DEFINE cn == [conn EXCEPT ![c].wait = w]
           t == [Tables EXCEPT !.conn = cn]
<1>1. /\ c \in ready /\ UNCHANGED <<lastId, user, used>> /\ Proceed(c, t)
      /\ conn[c].kind = "client" /\ (LateDeaths \/ c \notin gone)
  BY DEF WaitXState, Asks, Serving, IsClient
<1>2. lastId' \in 0..MaxAllocs /\ user' \in [AllocId -> Uid] /\ used' \in [AllocId -> SUBSET Server]
  BY <1>1, Here DEF Control
<1>3. conn[c] \in ClientConn /\ conn \in [Conn -> Connection]
  BY <1>1, Here, Kinds
<1>4. /\ cn \in [Conn -> Connection] /\ \A d \in Conn \ {c} : cn[d] = conn[d]
      /\ cn[c].kind = "client" /\ cn[c].toClean = conn[c].toClean
      /\ cn[c].cleanup = conn[c].cleanup
  BY <1>3 DEF ClientConn, Connection
<1>5. \E av \in Tally : Changed(Tables, t, live, av, cn)
  BY Here DEF Changed
<1> HIDE DEF cn, t
<1>6. Sound(t) /\ ToSet(t.clients) = ToSet(clients) /\ t.live = live /\ Rightful(c, t)
  BY <1>1, <1>4, <1>5, EntriesSound
<1>7. t.live \subseteq 1..lastId'
  BY <1>1, <1>6, Here
<1> QED
  BY <1>1, <1>2, <1>6, <1>7, ProceedKeeps

\* An X server comes up or goes down.
LEMMA UpdateKeeps ==
    ASSUME IInv, NEW c \in Conn, UpdateXAvail(c)
    PROVE  IInv' /\ OnBehalf
<1> DEFINE x == conn[c]
           av == [avail EXCEPT ![x.alloc][x.srv][x.uid] = IF x.running THEN Less(@) ELSE @ + 1]
           cn == [conn EXCEPT ![c].running = ~@]
           t == [Tables EXCEPT !.avail = av, !.conn = cn]
<1>1. /\ c \in ready /\ UNCHANGED <<lastId, user, used>> /\ x.kind = "x"
      /\ Reply(c, Tables) \/ Exit("missed") \/ Proceed(c, t)
  BY DEF UpdateXAvail, Serving, IsX
<1>2. lastId' \in 0..MaxAllocs /\ user' \in [AllocId -> Uid] /\ used' \in [AllocId -> SUBSET Server]
  BY <1>1, Here DEF Control
<1>3. x \in XConn /\ conn \in [Conn -> Connection]
  BY <1>1, Here, Kinds
<1>4. /\ cn \in [Conn -> Connection] /\ \A d \in Conn \ {c} : cn[d] = conn[d]
      /\ cn[c].kind = "x" /\ cn[c].alloc = x.alloc /\ cn[c].shut = x.shut
  BY <1>3 DEF XConn, Connection
<1>5. av \in Tally
  <2>1. \A n \in Nat : Less(n) \in Nat
    BY DEF Less
  <2>2. avail[x.alloc][x.srv][x.uid] \in Nat /\ avail \in Tally
    BY <1>3, Here DEF Tally, XConn
  <2> QED
    BY <1>3, <2>1, <2>2, TallyChanged, SMTT(30) DEF XConn
<1>6. Changed(Tables, t, live, av, cn)
  BY Here DEF Changed
<1> HIDE DEF av, cn, t
<1>7. Sound(t) /\ ToSet(t.clients) = ToSet(clients) /\ t.live = live /\ Rightful(c, t)
  BY <1>1, <1>4, <1>5, <1>6, EntriesSound
<1>8. t.live \subseteq 1..lastId' /\ Tables.live \subseteq 1..lastId'
  BY <1>1, <1>7, Here
<1>9. Sound(Tables) /\ ToSet(Tables.clients) = ToSet(clients) /\ Rightful(c, Tables)
  BY Here DEF Rightful
<1> QED
  <2>1. CASE Reply(c, Tables)
    BY <1>1, <1>2, <1>8, <1>9, <2>1, ReplyKeeps
  <2>2. CASE Exit("missed")
    BY <1>1, <1>2, <2>2, ExitKeeps
  <2>3. CASE Proceed(c, t)
    BY <1>1, <1>2, <1>7, <1>8, <2>3, ProceedKeeps
  <2> QED
    BY <1>1, <2>1, <2>2, <2>3

\* A client that cannot be answered is dropped without cleanup.
LEMMA DropLate ==
    ASSUME LateDeaths, NEW t, Sound(t), NEW c \in ToSet(t.clients)
    PROVE  /\ Sound(Dropped(t, c))
           /\ ToSet(Dropped(t, c).clients) = ToSet(t.clients) \ {c}
           /\ Dropped(t, c).live = t.live
<1>1. /\ Good(Dropped(t, c)) /\ ToSet(Dropped(t, c).clients) = ToSet(t.clients) \ {c}
      /\ Dropped(t, c).live = t.live /\ Dropped(t, c).conn = [t.conn EXCEPT ![c] = NoConn]
  BY DropEffect DEF Sound
<1>2. Told(Dropped(t, c))
  <2>1. ToSet(t.clients) \subseteq Conn /\ t.conn \in [Conn -> Connection]
    BY DEF Sound, Good
  <2> QED
    BY <1>1, <2>1 DEF Sound, Told
<1> QED
  BY <1>1, <1>2 DEF Sound

\* The answers at the start of a turn.  If no client dies while it waits, none of them fails.
LEMMA TurnKeeps ==
    ASSUME IInv, Turn
    PROVE  IInv' /\ OnBehalf
<1> DEFINE answered(e) == {c \in ToSet(clients) : Pending(c) /\ Answered(c, e)}
           cn(e) == [c \in Conn |-> IF c \in answered(e) THEN [conn[c] EXCEPT !.wait = NoWait]
                                                          ELSE conn[c]]
           t(e) == [Tables EXCEPT !.conn = cn(e)]
           left(e, failed) == IF failed = {} THEN t(e) ELSE Dropped(t(e), Last(clients))
<1>1. PICK e : \E failed \in SUBSET (answered(e) \cap gone) :
                   IF \A c \in failed : c = Last(clients)
                   THEN /\ Become(left(e, failed))
                        /\ \E batch \in SUBSET {c \in ToSet(clients) : Sends(t(e), c)} :
                               ready' = (batch \cup gone) \ failed
                        /\ phase' = "serve" /\ UNCHANGED status
                   ELSE Exit("raised")
  BY DEF Turn
<1>2. UNCHANGED <<lastId, user, used>>
  BY DEF Turn
<1>3. lastId' \in 0..MaxAllocs /\ user' \in [AllocId -> Uid] /\ used' \in [AllocId -> SUBSET Server]
  BY <1>2, Here DEF Control
<1>4. ASSUME NEW c \in Conn
      PROVE  /\ cn(e)[c] \in Connection
             /\ cn(e)[c].kind = conn[c].kind
             /\ conn[c].kind = "x" => cn(e)[c] = conn[c]
             /\ conn[c].kind = "client" =>
                    /\ cn(e)[c].toClean = conn[c].toClean /\ cn(e)[c].cleanup = conn[c].cleanup
                    /\ cn(e)[c].wait \in {conn[c].wait, NoWait}
  <2>1. CASE c \in answered(e)
    <3>1. conn[c].kind = "client"
      BY <2>1 DEF Pending, IsClient
    <3>2. conn[c] \in ClientConn
      BY <3>1, Here, Kinds
    <3> QED
      BY <2>1, <3>1, <3>2 DEF ClientConn, Connection
  <2>2. CASE c \notin answered(e)
    BY <2>2, Here
  <2> QED
    BY <2>1, <2>2
<1>5. cn(e) \in [Conn -> Connection]
  BY <1>4
<1>6. \E av \in Tally : Changed(Tables, t(e), live, av, cn(e))
  BY Here DEF Changed
<1> HIDE DEF cn, t
<1>7. Sound(t(e)) /\ ToSet(t(e).clients) = ToSet(clients) /\ t(e).live = live
  BY <1>4, <1>5, <1>6, EntriesSound
<1>8. PICK failed \in SUBSET (answered(e) \cap gone) :
          IF \A c \in failed : c = Last(clients)
          THEN /\ Become(left(e, failed))
               /\ \E batch \in SUBSET {c \in ToSet(clients) : Sends(t(e), c)} :
                      ready' = (batch \cup gone) \ failed
               /\ phase' = "serve" /\ UNCHANGED status
          ELSE Exit("raised")
  BY <1>1
<1>9. CASE Exit("raised")
  BY <1>3, <1>9, ExitKeeps
<1>10. CASE \A c \in failed : c = Last(clients)
  <2>1. /\ Become(left(e, failed)) /\ phase' = "serve" /\ UNCHANGED status
        /\ ready' \subseteq ToSet(clients) \ failed
    BY <1>8, <1>10, Here
  <2>2. Control'
    BY <1>3, <2>1, Here DEF Control
  <2>3. /\ Sound(left(e, failed)) /\ left(e, failed).live = live
        /\ ToSet(left(e, failed).clients) = ToSet(clients) \ failed
    <3>1. CASE failed = {}
      BY <1>7, <3>1
    <3>2. CASE failed # {}
      <4>1. failed = {Last(clients)} /\ Last(clients) \in ToSet(t(e).clients)
        BY <1>7, <1>10, <3>2
      <4>2. LateDeaths
        BY <4>1, Here DEF Sound, Present, Pending, IsClient
      <4>3. /\ Sound(Dropped(t(e), Last(clients)))
            /\ ToSet(Dropped(t(e), Last(clients)).clients) =
                   ToSet(t(e).clients) \ {Last(clients)}
            /\ Dropped(t(e), Last(clients)).live = t(e).live
        BY <1>7, <4>1, <4>2, DropLate
      <4>4. left(e, failed) = Dropped(t(e), Last(clients))
        BY <3>2
      <4> HIDE DEF left
      <4> QED
        BY <1>7, <4>1, <4>3, <4>4
    <3> QED
      BY <3>1, <3>2
  <2>4. left(e, failed).live \subseteq 1..lastId'
    BY <1>2, <2>3, Here
  <2> HIDE DEF left
  <2>5. OnBehalf
    BY <2>1, <2>3 DEF OnBehalf, Become
  <2> QED
    BY <2>1, <2>2, <2>3, <2>4, <2>5, BecomeKeeps
<1> QED
  BY <1>8, <1>9, <1>10

\* A new connection: an X client has an allocation, a client has none.
LEMMA AdmitKeeps ==
    ASSUME IInv, NEW c \in Conn, NEW rec \in ClientConn \cup XConn, Admit(c, rec), users' \in Tally,
           rec.kind = "x" => rec.alloc \in live,
           rec.kind = "client" => rec.cleanup \/ LeaveAlive,
           rec.kind = "client" => rec.wait = NoWait
    PROVE  IInv' /\ OnBehalf
<1>1. /\ c \notin ToSet(clients)
      /\ clients' = Append(clients, c) /\ conn' = [conn EXCEPT ![c] = rec]
      /\ UNCHANGED <<status, phase, gone, ready, lastId, live, user, used, avail>>
  BY DEF Admit, Slot
<1>2. clients' \in Seq(Conn) /\ IsInjective(clients') /\ ToSet(clients') = ToSet(clients) \cup {c}
  <2>1. clients \in Seq(Conn) /\ IsInjective(clients)
    BY Here DEF Good
  <2>2. /\ clients' \in Seq(Conn) /\ Len(clients') = Len(clients) + 1
        /\ \A i \in 1..Len(clients) : clients'[i] = clients[i]
        /\ clients'[Len(clients) + 1] = c
    BY <1>1, <2>1
  <2>3. IsInjective(clients')
    BY <1>1, <2>1, <2>2 DEF IsInjective, ToSet
  <2>4. ToSet(clients') = ToSet(clients) \cup {c}
    BY <1>1, <2>1, <2>2 DEF ToSet
  <2> QED
    BY <2>2, <2>3, <2>4
<1>3. /\ conn' \in [Conn -> Connection] /\ conn'[c] = rec /\ rec # NoConn
      /\ \A d \in Conn \ {c} : conn'[d] = conn[d]
  BY <1>1, Here DEF Connection, ClientConn, XConn, NoConn
<1>4. Tables' = [clients |-> clients', conn |-> conn', live |-> live,
               users |-> users', avail |-> avail]
  BY <1>1 DEF Tables
<1>5. Good(Tables')
  <2>1. ToSet(clients') = {d \in Conn : conn'[d] # NoConn}
    BY <1>2, <1>3, Here
  <2>2. Tables' \in TableSet
    BY <1>2, <1>3, <1>4, Here
  <2> QED
    BY <1>2, <1>4, <2>1, <2>2 DEF Good
<1>6. Tables'.clients = clients' /\ Tables'.conn = conn' /\ Tables'.live = live
  BY <1>4
<1>7. Told(Tables')
  BY <1>2, <1>3, <1>6, Here DEF Sound, Told
<1>8. Owned(Tables) => Owned(Tables')
  BY <1>1, <1>2, <1>3, <1>6, Here DEF Owned
<1>9. Present(Tables) => Present(Tables)'
  BY <1>1, <1>3, <1>6, Here DEF Present
<1>10. Sound(Tables)'
  BY <1>5, <1>7, <1>8, <1>9, Here DEF Sound
<1>11. OnBehalf
  BY <1>1 DEF OnBehalf
<1> QED
  BY <1>1, <1>2, <1>10, <1>11 DEF IInv, Control

\* The end of a turn, of the SSM, and what peers do.
LEMMA OthersKeep ==
    ASSUME IInv
    PROVE  /\ EndTurn => IInv' /\ OnBehalf
           /\ Interrupt => IInv' /\ OnBehalf
           /\ \A c \in Conn : Leave(c) => IInv' /\ OnBehalf
           /\ Down \/ UNCHANGED vars => IInv' /\ OnBehalf
<1>1. EndTurn => IInv' /\ OnBehalf
  BY DEF OnBehalf, EndTurn, IInv, Control, Sound, Good, Told, Owned, Present, Tables
<1>2. Interrupt => IInv' /\ OnBehalf
  BY ExitKeeps, Here DEF Interrupt, Control
<1>3. ASSUME NEW c \in Conn, Leave(c) PROVE IInv' /\ OnBehalf
  <2>1. /\ c \in ToSet(clients) /\ gone' = gone \cup {c} /\ (LateDeaths \/ ~Pending(c))
        /\ UNCHANGED <<status, phase, clients, conn, ready, lastId, live, user, used, users, avail>>
    BY <1>3 DEF Leave
  <2>2. Tables' = Tables
    BY <2>1 DEF Tables
  <2>3. ~LateDeaths /\ Present(Tables) => Present(Tables)'
    BY <2>1, <2>2, Here DEF Present, Pending, IsClient
  <2>4. Sound(Tables)'
    BY <2>2, <2>3, Here DEF Sound
  <2> QED
    BY <2>1, <2>4 DEF IInv, Control, OnBehalf
<1>4. Down \/ UNCHANGED vars => IInv' /\ OnBehalf
  BY DEF OnBehalf, Down, vars, IInv, Control, Sound, Good, Told, Owned, Present, Tables
<1> QED
  BY <1>1, <1>2, <1>3, <1>4

\* Every step.
LEMMA NextKeeps == IInv /\ [Next]_vars => IInv' /\ OnBehalf
<1> SUFFICES ASSUME IInv, [Next]_vars PROVE IInv' /\ OnBehalf
  OBVIOUS
<1>1. ASSUME NEW c \in Conn, Serve(c) PROVE IInv' /\ OnBehalf
  <2>1. ASSUME Answer(c) PROVE IInv' /\ OnBehalf
    <3>1. c \in ready /\ UNCHANGED <<lastId, user, used>> /\ Reply(c, Tables)
      BY <2>1 DEF Answer, Asks, Serving
    <3> QED
      BY <3>1, Here, ReplyKeeps DEF Control, Rightful
  <2>2. ASSUME Eof(c) PROVE IInv' /\ OnBehalf
    <3>1. c \in ready /\ UNCHANGED <<lastId, user, used>> /\ Drop(c, Tables)
      BY <2>2 DEF Eof, Serving
    <3> QED
      BY <3>1, Here, DropKeeps DEF Control, Rightful
  <2>3. ASSUME NEW w \in Wait, WaitCrash(c, w) PROVE IInv' /\ OnBehalf
    <3>1. UNCHANGED <<lastId, user, used>> /\ Exit("raised")
      BY <2>3 DEF WaitCrash
    <3> QED
      BY <3>1, Here, ExitKeeps DEF Control
  <2> QED
    BY <1>1, <2>1, <2>2, <2>3, AllocateKeeps, DeallocateKeeps, StopKeeps, WaitKeeps, UpdateKeeps
    DEF Serve
<1>2. ASSUME NEW c \in Conn, NEW u \in Uid, NEW k \in BOOLEAN, AcceptClient(c, u, k)
      PROVE  IInv' /\ OnBehalf
  <2> DEFINE rec == [kind |-> "client", uid |-> u, cleanup |-> k, toClean |-> {}, wait |-> NoWait]
  <2>1. rec \in ClientConn /\ rec.cleanup = k /\ rec.wait = NoWait /\ rec.kind = "client"
    BY DEF ClientConn
  <2>2. Admit(c, rec) /\ (k \/ LeaveAlive) /\ users' \in Tally
    BY <1>2, Here DEF AcceptClient
  <2> HIDE DEF rec
  <2> QED
    BY <2>1, <2>2, AdmitKeeps
<1>3. ASSUME NEW c \in Conn, NEW s \in Server, NEW a \in AllocId, NEW u \in Uid, AcceptX(c, s, a, u)
      PROVE  IInv' /\ OnBehalf
  <2> DEFINE rec == [kind |-> "x", uid |-> u, srv |-> s, alloc |-> a,
                     running |-> FALSE, shut |-> FALSE]
  <2>1. rec \in XConn /\ rec.alloc = a /\ rec.kind = "x"
    BY DEF XConn
  <2>2. Admit(c, rec) /\ a \in live /\ users' = [users EXCEPT ![a][s][u] = @ + 1]
    BY <1>3 DEF AcceptX, MayConnect
  <2>3. users' \in Tally
    <3>1. users[a][s][u] + 1 \in Nat /\ users \in Tally
      BY Here DEF Tally
    <3> QED
      BY <2>2, <3>1, TallyChanged
  <2> HIDE DEF rec
  <2> QED
    BY <2>1, <2>2, <2>3, AdmitKeeps
<1>4. CASE Turn
  BY <1>4, TurnKeeps
<1>5. CASE EndTurn \/ (\E c \in Conn : Leave(c)) \/ Interrupt \/ Down \/ UNCHANGED vars
  BY <1>5, OthersKeep
<1>6. CASE AcceptCrash
  <2>1. UNCHANGED <<lastId, user, used>> /\ Exit("raised")
    BY <1>6 DEF AcceptCrash
  <2> QED
    BY <2>1, Here, ExitKeeps DEF Control
<1> QED
  BY <1>1, <1>2, <1>3, <1>4, <1>5, <1>6 DEF Next

\* Nobody is connected at first.
LEMMA InitInv == Init => IInv
<1> SUFFICES ASSUME Init PROVE IInv
  OBVIOUS
<1>1. Nobody \in [Server -> [Uid -> Nat]]
  BY DEF Nobody
<1>2. conn \in [Conn -> Connection] /\ users \in Tally /\ avail \in Tally /\ clients \in Seq(Conn)
  BY <1>1 DEF Init, Connection, Tally
<1>3. Tables \in TableSet
  BY <1>2 DEF Init, Tables
<1>4. Tables.clients = <<>> /\ Tables.conn = conn /\ Tables.live = {}
  BY DEF Init, Tables
<1>5. IsInjective(Tables.clients) /\ ToSet(Tables.clients) = {}
  BY <1>4 DEF IsInjective, ToSet
<1>6. \A c \in Conn : Tables.conn[c] = NoConn
  BY <1>4 DEF Init
<1>7. Good(Tables)
  BY <1>3, <1>5, <1>6 DEF Good
<1>8. Told(Tables) /\ Owned(Tables) /\ Present(Tables)
  BY <1>4, <1>5 DEF Told, Owned, Present, Init
<1>9. Control
  BY SSMAssumption DEF Init, Control
<1> QED
  BY <1>7, <1>8, <1>9 DEF Init, IInv, Sound

\* The inductive invariant: the tables are sound, whatever arrives and whoever goes away.
THEOREM SsmInvariance == Spec => []IInv
  BY InitInv, NextKeeps, PTL DEF Spec

\* Types, and that client_info lists each connection once (vs-ssm:1653-1701).
THEOREM TypeCorrect == Spec => []TypeOK
<1>1. IInv => TypeOK
  BY Here DEF IInv, Control, TypeOK, Good, Connection
<1> QED
  BY SsmInvariance, <1>1, PTL

\* No X client outlives its allocation without having been told to exit (vs-ssm:137-149).
THEOREM ExitIsTold == Spec => []XClientsToldToExit
<1>1. IInv => XClientsToldToExit
  BY Here DEF XClientsToldToExit, Sound, Told, IsX
<1> QED
  BY SsmInvariance, <1>1, PTL

\* While clients do not die with a response pending, each allocation has a client that cleans
\* it up (vs-ssm:463, 1682-1689).  Without the assumption it has not (vs-ssm:1545-1569).
THEOREM NobodyOrphaned ==
    ASSUME ~LateDeaths
    PROVE  Spec => []NoOrphan
<1>1. IInv => NoOrphan
  BY Here DEF NoOrphan, Sound, Owned, IsClient
<1> QED
  BY SsmInvariance, <1>1, PTL

\* An allocation goes away only for root, its user, or the client that has to clean it up
\* (vs-ssm:204-222, 1682), whatever requests arrive in one turn.
THEOREM OnlyOnBehalf == Spec => RemovedOnBehalfOf
<1>1. IInv /\ [Next]_vars =>
        [\A a \in live \ live' :
            \/ status' # "up"
            \/ \E c \in ready \ ready' :
                   IsClient(c) /\ (\/ conn[c].uid \in {Root, user[a]}
                                   \/ a \in conn[c].toClean)]_vars
  BY NextKeeps DEF OnBehalf
<1> QED
  BY SsmInvariance, <1>1, PTL DEF Spec, RemovedOnBehalfOf
-----------------------------------------------------------------------------
(* The count of X clients.                                                 *)

\* The X clients of a user for a server of an allocation, and those whose server is up.
Of(cn, a, s, u) ==
    {c \in Conn : cn[c].kind = "x" /\ cn[c].alloc = a /\ cn[c].srv = s /\ cn[c].uid = u}
Running(cn, a, s, u) == {c \in Of(cn, a, s, u) : cn[c].running}

\* The tables count them for the allocations in force, and hold nothing of the others.
Counts(t) ==
    \A a \in AllocId, s \in Server, u \in Uid :
        /\ t.users[a][s][u] = IF a \in t.live THEN Cardinality(Of(t.conn, a, s, u)) ELSE 0
        /\ t.avail[a][s][u] = IF a \in t.live THEN Cardinality(Running(t.conn, a, s, u)) ELSE 0

\* X clients have allocations that were made.
Early(cn, n) == \A c \in Conn : cn[c].kind = "x" => cn[c].alloc <= n

Counting == Counts(Tables) /\ Early(conn, lastId)

\* Two tables with the same X clients.
SameX(cn, dn) ==
    \A c \in Conn :
        /\ cn[c].kind = "x" <=> dn[c].kind = "x"
        /\ cn[c].kind = "x" => /\ dn[c].alloc = cn[c].alloc /\ dn[c].srv = cn[c].srv
                               /\ dn[c].uid = cn[c].uid /\ dn[c].running = cn[c].running

LEMMA SameXProperties ==
    ASSUME NEW cn, NEW dn, SameX(cn, dn)
    PROVE  /\ \A a \in AllocId, s \in Server, u \in Uid :
                  Of(dn, a, s, u) = Of(cn, a, s, u) /\ Running(dn, a, s, u) = Running(cn, a, s, u)
           /\ \A n \in Nat : Early(cn, n) => Early(dn, n)
  BY DEF SameX, Of, Running, Early

\* There are finitely many clients, and so finitely many of each kind.
LEMMA FiniteClients ==
    ASSUME NEW t, Good(t), NEW a, NEW s, NEW u
    PROVE  IsFiniteSet(Of(t.conn, a, s, u)) /\ IsFiniteSet(Running(t.conn, a, s, u))
<1>1. t.clients \in Seq(Conn)
  BY DEF Good
<1>2. t.clients \in [1..Len(t.clients) -> ToSet(t.clients)] /\ Len(t.clients) \in Nat
  BY <1>1 DEF ToSet
<1>3. t.clients \in Surjection(1..Len(t.clients), ToSet(t.clients))
  BY <1>1, <1>2 DEF Surjection, ToSet
<1>4. IsFiniteSet(ToSet(t.clients))
  <2> DEFINE n == Len(t.clients)
  <2>0. n \in Int
    BY <1>2
  <2> HIDE DEF n
  <2>1. IsFiniteSet(1..n)
    BY <2>0, FS_Interval
  <2> QED
    BY <1>3, <2>1, FS_Surjection DEF n
<1>5. Of(t.conn, a, s, u) \subseteq ToSet(t.clients)
  BY DEF Good, Of, NoConn
<1>6. Running(t.conn, a, s, u) \subseteq ToSet(t.clients)
  BY <1>5 DEF Running
<1> QED
  BY <1>4, <1>5, <1>6, FS_Subset

\* The same X clients are counted the same, in allocations that were in force or are new.
LEMMA SameCount ==
    ASSUME NEW t, Counts(t), NEW r, SameX(t.conn, r.conn),
           \A a \in AllocId, s \in Server, u \in Uid :
               IF a \in r.live
               THEN /\ r.users[a][s][u] = t.users[a][s][u] /\ r.avail[a][s][u] = t.avail[a][s][u]
                    /\ a \in t.live \/ Of(t.conn, a, s, u) = {}
               ELSE r.users[a][s][u] = 0 /\ r.avail[a][s][u] = 0
    PROVE  Counts(r)
<1> SUFFICES ASSUME NEW a \in AllocId, NEW s \in Server, NEW u \in Uid, a \in r.live
             PROVE  /\ r.users[a][s][u] = Cardinality(Of(r.conn, a, s, u))
                    /\ r.avail[a][s][u] = Cardinality(Running(r.conn, a, s, u))
  BY DEF Counts
<1>1. /\ Of(r.conn, a, s, u) = Of(t.conn, a, s, u)
      /\ Running(r.conn, a, s, u) = Running(t.conn, a, s, u)
  BY SameXProperties
<1>2. CASE a \in t.live
  BY <1>1, <1>2 DEF Counts
<1>3. CASE a \notin t.live
  <2>1. Of(t.conn, a, s, u) = {} /\ Running(t.conn, a, s, u) = {}
    BY <1>3 DEF Running
  <2>2. t.users[a][s][u] = 0 /\ t.avail[a][s][u] = 0
    BY <1>3 DEF Counts
  <2> QED
    BY <1>1, <2>1, <2>2, FS_EmptySet
<1> QED
  BY <1>2, <1>3

\* The removal of allocations empties their tables and leaves the others, ...
LEMMA RemoveTallies ==
    ASSUME NEW t, Good(t), NEW ids \in SUBSET AllocId,
           NEW a \in AllocId, NEW s \in Server, NEW u \in Uid
    PROVE  /\ RemoveAllocations(t, ids).users[a][s][u] = IF a \in ids THEN 0 ELSE t.users[a][s][u]
           /\ RemoveAllocations(t, ids).avail[a][s][u] = IF a \in ids THEN 0 ELSE t.avail[a][s][u]
<1> DEFINE r == RemoveAllocations(t, ids)
<1>1. t \in TableSet
  BY DEF Good
<1>2. /\ r.users = [b \in AllocId |-> IF b \in ids THEN Nobody ELSE t.users[b]]
      /\ r.avail = [b \in AllocId |-> IF b \in ids THEN Nobody ELSE t.avail[b]]
  BY <1>1 DEF RemoveAllocations
<1> HIDE DEF r
<1> QED
  BY <1>2 DEF r, Nobody

\* ... and leaves X clients what they are.
LEMMA RemoveSameX ==
    ASSUME NEW t, Good(t), NEW ids \in SUBSET AllocId
    PROVE  SameX(t.conn, RemoveAllocations(t, ids).conn)
<1> DEFINE r == RemoveAllocations(t, ids)
<1>1. t \in TableSet
  BY DEF Good
<1>3. \A c \in Conn : r.conn[c] = AfterRemoval(t, ids, c)
  BY RemoveEffect
<1> HIDE DEF r
<1>4. ASSUME NEW c \in Conn
      PROVE  /\ t.conn[c].kind = "x" <=> r.conn[c].kind = "x"
             /\ t.conn[c].kind = "x" =>
                    /\ r.conn[c].alloc = t.conn[c].alloc /\ r.conn[c].srv = t.conn[c].srv
                    /\ r.conn[c].uid = t.conn[c].uid /\ r.conn[c].running = t.conn[c].running
  <2>1. r.conn[c].kind = t.conn[c].kind
    BY <1>3, Removed
  <2>2. CASE t.conn[c].kind = "x"
    <3>1. t.conn[c] \in XConn
      BY <1>1, <2>2, Kinds
    <3>2. r.conn[c] \in {t.conn[c], [t.conn[c] EXCEPT !.shut = TRUE]}
      BY <1>3, <2>2 DEF AfterRemoval
    <3> QED
      BY <2>1, <2>2, <3>1, <3>2 DEF XConn
  <2> QED
    BY <2>1, <2>2
<1>5. SameX(t.conn, r.conn)
  BY <1>4 DEF SameX
<1> QED
  BY <1>5 DEF r

LEMMA RemoveCounts ==
    ASSUME NEW t, Good(t), Counts(t), NEW ids \in SUBSET AllocId
    PROVE  Counts(RemoveAllocations(t, ids))
<1> DEFINE r == RemoveAllocations(t, ids)
<1>1. r.live = t.live \ ids
  BY RemoveEffect
<1>2. SameX(t.conn, r.conn)
  BY RemoveSameX
<1> HIDE DEF r
<1>3. ASSUME NEW a \in AllocId, NEW s \in Server, NEW u \in Uid
      PROVE  IF a \in r.live
             THEN /\ r.users[a][s][u] = t.users[a][s][u] /\ r.avail[a][s][u] = t.avail[a][s][u]
                  /\ a \in t.live \/ Of(t.conn, a, s, u) = {}
             ELSE r.users[a][s][u] = 0 /\ r.avail[a][s][u] = 0
  <2>1. a \notin t.live => t.users[a][s][u] = 0 /\ t.avail[a][s][u] = 0
    BY DEF Counts
  <2>2. /\ r.users[a][s][u] = IF a \in ids THEN 0 ELSE t.users[a][s][u]
        /\ r.avail[a][s][u] = IF a \in ids THEN 0 ELSE t.avail[a][s][u]
    BY RemoveTallies DEF r
  <2> QED
    BY <1>1, <2>1, <2>2
<1>4. Counts(r)
  BY <1>2, <1>3, SameCount
<1> QED
  BY <1>4 DEF r

\* What the list loses does not count: an entry that is no X client's, ...
LEMMA DropCounts ==
    ASSUME NEW t, Good(t), Counts(t), NEW c \in ToSet(t.clients), t.conn[c].kind # "x"
    PROVE  Counts(Dropped(t, c)) /\ SameX(t.conn, Dropped(t, c).conn)
<1> DEFINE r == Dropped(t, c)
<1>1. t \in TableSet /\ c \in Conn
  BY DEF Good
<1>2. /\ r.live = t.live /\ r.conn = [t.conn EXCEPT ![c] = NoConn]
      /\ r.users = t.users /\ r.avail = t.avail
  <2>1. r.live = t.live /\ r.conn = [t.conn EXCEPT ![c] = NoConn]
    BY DropEffect
  <2> QED
    BY <1>1, <2>1 DEF Dropped
<1> HIDE DEF r
<1>3. SameX(t.conn, r.conn)
  BY <1>1, <1>2 DEF SameX, NoConn
<1>4. ASSUME NEW a \in AllocId, NEW s \in Server, NEW u \in Uid
      PROVE  IF a \in r.live
             THEN /\ r.users[a][s][u] = t.users[a][s][u] /\ r.avail[a][s][u] = t.avail[a][s][u]
                  /\ a \in t.live \/ Of(t.conn, a, s, u) = {}
             ELSE r.users[a][s][u] = 0 /\ r.avail[a][s][u] = 0
  BY <1>2 DEF Counts
<1>5. Counts(r)
  BY <1>3, <1>4, SameCount
<1> QED
  BY <1>3, <1>5 DEF r

\* Forgetting an X client takes it off the tables once.
LEMMA ForgetTallies ==
    ASSUME NEW t, Good(t), NEW c \in Conn, t.conn[c].kind = "x",
           NEW a \in AllocId, NEW s \in Server, NEW u \in Uid
    PROVE  LET x == t.conn[c]
               its == a \in t.live /\ x.alloc = a /\ x.srv = s /\ x.uid = u
           IN  /\ ForgetX(t, c).users[a][s][u] =
                      IF its THEN Less(t.users[a][s][u]) ELSE t.users[a][s][u]
               /\ ForgetX(t, c).avail[a][s][u] =
                      IF its /\ x.running THEN Less(t.avail[a][s][u]) ELSE t.avail[a][s][u]
<1> DEFINE x == t.conn[c]
           us == [t.users EXCEPT ![x.alloc][x.srv][x.uid] = Less(@)]
           av == [t.avail EXCEPT ![x.alloc][x.srv][x.uid] = IF x.running THEN Less(@) ELSE @]
<1>1. t \in TableSet
  BY DEF Good
<1>2. x \in XConn
  BY <1>1, Kinds, SMTT(30)
<1>3. CASE x.alloc \notin t.live
  BY <1>3 DEF ForgetX
<1>4. CASE x.alloc \in t.live
  <2>1. ForgetX(t, c) = [t EXCEPT !.users = us, !.avail = av]
    BY <1>1, <1>4 DEF ForgetX
  <2>2. /\ us[a][s][u] = IF x.alloc = a /\ x.srv = s /\ x.uid = u
                         THEN Less(t.users[a][s][u]) ELSE t.users[a][s][u]
        /\ av[a][s][u] = IF x.alloc = a /\ x.srv = s /\ x.uid = u /\ x.running
                         THEN Less(t.avail[a][s][u]) ELSE t.avail[a][s][u]
    <3>1. t.users \in Tally /\ t.avail \in Tally /\ x.alloc \in AllocId /\ x.srv \in Server
          /\ x.uid \in Uid
      BY <1>1, <1>2 DEF XConn
    <3> HIDE DEF x
    <3> QED
      BY <3>1, SMTT(30) DEF Tally
  <2> HIDE DEF us, av
  <2>3. ForgetX(t, c).users = us /\ ForgetX(t, c).avail = av
    BY <1>1, <2>1
  <2> QED
    BY <1>4, <2>2, <2>3
<1> QED
  BY <1>3, <1>4

\* An entry popped from the list leaves the others.
LEMMA DropTallies ==
    ASSUME NEW t, Good(t), NEW c \in ToSet(t.clients)
    PROVE  /\ Dropped(t, c).live = t.live /\ Dropped(t, c).conn = [t.conn EXCEPT ![c] = NoConn]
           /\ Dropped(t, c).users = t.users /\ Dropped(t, c).avail = t.avail
<1>1. t \in TableSet
  BY DEF Good
<1>2. Dropped(t, c).live = t.live /\ Dropped(t, c).conn = [t.conn EXCEPT ![c] = NoConn]
  BY DropEffect
<1>3. Dropped(t, c).users = t.users /\ Dropped(t, c).avail = t.avail
  BY <1>1 DEF Dropped
<1> QED
  BY <1>2, <1>3

\* An X client that disconnects is one less, in its tables and in the list.
LEMMA DisconnectXCounts ==
    ASSUME NEW t, Good(t), Counts(t), NEW c \in ToSet(t.clients), t.conn[c].kind = "x"
    PROVE  /\ Counts(Disconnect(t, c))
           /\ \A n \in Nat : Early(t.conn, n) => Early(Disconnect(t, c).conn, n)
<1> DEFINE x == t.conn[c]
           k == ForgetX(t, c)
           none == {}
           r == RemoveAllocations(k, none)
           d == Dropped(r, c)
<1>1. c \in Conn /\ none \in SUBSET AllocId /\ t \in TableSet
  BY DEF Good
<1>2. Good(k) /\ k.clients = t.clients /\ k.live = t.live /\ k.conn = t.conn
  BY <1>1, ForgetEffect
<1>3. Disconnect(t, c) = d
  BY DEF Disconnect, ToCleanUp
<1> HIDE DEF none, k
<1>4. Good(r) /\ r.clients = t.clients /\ r.live = t.live
  <2>1. Good(r) /\ r.clients = k.clients /\ r.live = k.live \ none
    BY <1>1, <1>2, RemoveEffect
  <2> QED
    BY <1>2, <2>1 DEF none
<1>5. SameX(t.conn, r.conn)
  BY <1>1, <1>2, RemoveSameX
<1> HIDE DEF r
<1>6. /\ d.live = t.live /\ d.conn = [r.conn EXCEPT ![c] = NoConn]
      /\ d.users = r.users /\ d.avail = r.avail
  BY <1>4, DropTallies
<1> HIDE DEF d
<1>7. r.conn \in [Conn -> Connection] /\ NoConn.kind # "x"
  BY <1>4 DEF Good, NoConn
<1>8. ASSUME NEW a \in AllocId, NEW s \in Server, NEW u \in Uid
      PROVE  /\ d.users[a][s][u] = IF a \in d.live THEN Cardinality(Of(d.conn, a, s, u)) ELSE 0
             /\ d.avail[a][s][u] = IF a \in d.live THEN Cardinality(Running(d.conn, a, s, u)) ELSE 0
  <2> DEFINE its == a \in t.live /\ x.alloc = a /\ x.srv = s /\ x.uid = u
             all == Of(t.conn, a, s, u)
             up == Running(t.conn, a, s, u)
  <2>1. d.users[a][s][u] = k.users[a][s][u] /\ d.avail[a][s][u] = k.avail[a][s][u]
    <3>1. /\ r.users[a][s][u] = IF a \in none THEN 0 ELSE k.users[a][s][u]
          /\ r.avail[a][s][u] = IF a \in none THEN 0 ELSE k.avail[a][s][u]
      BY <1>1, <1>2, RemoveTallies DEF r
    <3> QED
      BY <1>6, <3>1 DEF none
  <2>2. /\ k.users[a][s][u] = IF its THEN Less(t.users[a][s][u]) ELSE t.users[a][s][u]
        /\ k.avail[a][s][u] = IF its /\ x.running THEN Less(t.avail[a][s][u]) ELSE t.avail[a][s][u]
    BY <1>1, ForgetTallies DEF k
  <2>3. Of(d.conn, a, s, u) = all \ {c} /\ Running(d.conn, a, s, u) = up \ {c}
    <3>1. Of(r.conn, a, s, u) = all /\ Running(r.conn, a, s, u) = up
      BY <1>5, SameXProperties
    <3>2. Of(d.conn, a, s, u) = Of(r.conn, a, s, u) \ {c}
      BY <1>1, <1>6, <1>7 DEF Of
    <3>3. Running(d.conn, a, s, u) = Running(r.conn, a, s, u) \ {c}
      BY <1>1, <1>6, <1>7, <3>2 DEF Running, Of
    <3> QED
      BY <3>1, <3>2, <3>3
  <2>4. a \in t.live => /\ c \in all <=> its
                        /\ c \in up <=> its /\ x.running
    BY <1>1 DEF Of, Running
  <2>5. /\ t.users[a][s][u] = IF a \in t.live THEN Cardinality(all) ELSE 0
        /\ t.avail[a][s][u] = IF a \in t.live THEN Cardinality(up) ELSE 0
    BY DEF Counts
  <2>6. IsFiniteSet(all) /\ IsFiniteSet(up)
    BY FiniteClients
  <2> HIDE DEF all, up, its, x
  <2>7. /\ Cardinality(all \ {c}) = IF c \in all THEN Cardinality(all) - 1 ELSE Cardinality(all)
        /\ Cardinality(up \ {c}) = IF c \in up THEN Cardinality(up) - 1 ELSE Cardinality(up)
        /\ Cardinality(all) \in Nat /\ Cardinality(up) \in Nat
        /\ c \in all => Cardinality(all) # 0
        /\ c \in up => Cardinality(up) # 0
    BY <2>6, FS_RemoveElement, FS_EmptySet, FS_CardinalityType
  <2>8. a \notin t.live => ~its
    BY DEF its
  <2> QED
    BY <1>6, <2>1, <2>2, <2>3, <2>4, <2>5, <2>7, <2>8 DEF Less
<1>9. Counts(d)
  BY <1>8 DEF Counts
<1>10. ASSUME NEW n \in Nat, Early(t.conn, n) PROVE Early(d.conn, n)
  <2>1. Early(r.conn, n)
    BY <1>5, <1>10, SameXProperties
  <2> QED
    BY <1>1, <1>6, <1>7, <2>1 DEF Early
<1> QED
  BY <1>3, <1>9, <1>10

\* A client that disconnects leaves X clients and what is counted of them.
LEMMA DisconnectCounts ==
    ASSUME NEW t, Good(t), Counts(t), NEW c \in ToSet(t.clients)
    PROVE  /\ Counts(Disconnect(t, c))
           /\ \A n \in Nat : Early(t.conn, n) => Early(Disconnect(t, c).conn, n)
<1>1. CASE t.conn[c].kind = "x"
  BY <1>1, DisconnectXCounts
<1>2. CASE t.conn[c].kind # "x"
  <2> DEFINE ids == ToCleanUp(t, c)
             r == RemoveAllocations(t, ids)
             d == Dropped(r, c)
  <2>1. c \in Conn
    BY DEF Good
  <2>2. ids \in SUBSET AllocId
    BY <2>1, ToCleanUpType
  <2>3. Disconnect(t, c) = d
    BY <1>2 DEF Disconnect
  <2> HIDE DEF ids
  <2>4. Good(r) /\ r.clients = t.clients
    BY <2>2, RemoveEffect
  <2>5. Counts(r) /\ SameX(t.conn, r.conn)
    BY <2>2, RemoveCounts, RemoveSameX
  <2> HIDE DEF r
  <2>6. r.conn[c].kind # "x" /\ c \in ToSet(r.clients)
    BY <1>2, <2>1, <2>4, <2>5 DEF SameX
  <2>7. Counts(d) /\ SameX(r.conn, d.conn)
    BY <2>4, <2>5, <2>6, DropCounts
  <2> HIDE DEF d
  <2>8. ASSUME NEW n \in Nat, Early(t.conn, n) PROVE Early(d.conn, n)
    BY <2>5, <2>7, <2>8, SameXProperties
  <2> QED
    BY <2>3, <2>7, <2>8
<1> QED
  BY <1>1, <1>2
-----------------------------------------------------------------------------
(* The count, step by step.                                                *)

\* The tables that a handler leaves.
LEMMA BecomeCounts ==
    ASSUME NEW STATE t, Good(t), Counts(t), Early(t.conn, lastId'), Become(t)
    PROVE  Counting'
<1>1. Tables' = t /\ conn' = t.conn
  BY DEF Become, Tables, Good
<1> QED
  BY <1>1 DEF Counting

\* The end of the SSM leaves nobody to count.
LEMMA ExitCounts ==
    ASSUME IInv, Counting, NEW how, Exit(how)
    PROVE  Counting'
<1> DEFINE r == RemoveAllocations(Tables, live)
<1>1. Good(Tables) /\ live \in SUBSET AllocId /\ Tables.live = live
  BY Here
<1>2. Counts(r) /\ r.live = {} /\ Good(r)
  <2>1. Counts(r)
    BY <1>1, RemoveCounts DEF Counting
  <2>2. Good(r) /\ r.live = Tables.live \ live
    BY <1>1, RemoveEffect
  <2> QED
    BY <1>1, <2>1, <2>2
<1>3. /\ conn' = [c \in Conn |-> NoConn] /\ live' = {}
      /\ users' = r.users /\ avail' = r.avail
  BY <1>2 DEF Exit, Become, Good
<1> HIDE DEF r
<1>4. /\ Tables'.users = r.users /\ Tables'.avail = r.avail
      /\ Tables'.live = {} /\ Tables'.conn = [c \in Conn |-> NoConn]
  BY <1>3 DEF Tables
<1>5. Counts(Tables')
  BY <1>2, <1>4 DEF Counts
<1>6. Early(conn', lastId')
  BY <1>3 DEF Early, NoConn
<1> QED
  BY <1>5, <1>6 DEF Counting

LEMMA ReplyCounts ==
    ASSUME IInv, Counting, NEW STATE t, NEW c \in ToSet(t.clients),
           Good(t), Counts(t), lastId' \in Nat, Early(t.conn, lastId')
    PROVE  /\ Drop(c, t) => Counting'
           /\ Proceed(c, t) => Counting'
           /\ Reply(c, t) => Counting'
<1>1. ASSUME Drop(c, t) PROVE Counting'
  <2>1. CASE \E how \in {"missed", "raised"} : Exit(how)
    BY <2>1, ExitCounts
  <2>2. CASE Proceed(c, Disconnect(t, c))
    <3>1. Become(Disconnect(t, c))
      BY <2>2 DEF Proceed
    <3>2. Good(Disconnect(t, c))
      BY DisconnectEffect
    <3>3. Counts(Disconnect(t, c)) /\ Early(Disconnect(t, c).conn, lastId')
      BY DisconnectCounts
    <3> QED
      BY <3>1, <3>2, <3>3, BecomeCounts
  <2> QED
    BY <1>1, <2>1, <2>2 DEF Drop
<1>2. ASSUME Proceed(c, t) PROVE Counting'
  BY <1>2, BecomeCounts DEF Proceed
<1> QED
  BY <1>1, <1>2 DEF Reply

\* A handler that changes no X client but what it has been told.
LEMMA EntriesCount ==
    ASSUME IInv, Counting, NEW STATE cn, cn \in [Conn -> Connection],
           \A c \in Conn : cn[c].kind = conn[c].kind, SameX(conn, cn)
    PROVE  LET t == [Tables EXCEPT !.conn = cn]
           IN  Good(t) /\ t.clients = clients /\ Counts(t) /\ Early(t.conn, lastId)
<1> DEFINE t == [Tables EXCEPT !.conn = cn]
<1>1. Good(Tables) /\ Tables.conn = conn /\ Tables.clients = clients /\ Tables.live = live
  BY Here
<1>2. Good(t) /\ t.clients = clients /\ t.conn = cn /\ t.live = live
  <2>1. KindsKept(Tables, cn)
    BY <1>1 DEF KindsKept
  <2>2. Changed(Tables, t, live, avail, cn) /\ live \in SUBSET AllocId /\ avail \in Tally
    BY <1>1, Here DEF Changed
  <2> QED
    BY <1>1, <2>1, <2>2, NewEntries
<1>3. t.users = Tables.users /\ t.avail = Tables.avail
  BY <1>1 DEF Good
<1> HIDE DEF t
<1>4. SameX(Tables.conn, t.conn)
  BY <1>1, <1>2
<1>5. Counts(t)
  <2>1. ASSUME NEW a \in AllocId, NEW s \in Server, NEW u \in Uid
        PROVE  IF a \in t.live
               THEN /\ t.users[a][s][u] = Tables.users[a][s][u]
                    /\ t.avail[a][s][u] = Tables.avail[a][s][u]
                    /\ a \in Tables.live \/ Of(Tables.conn, a, s, u) = {}
               ELSE t.users[a][s][u] = 0 /\ t.avail[a][s][u] = 0
    BY <1>1, <1>2, <1>3 DEF Counting, Counts
  <2>2. Counts(Tables)
    BY DEF Counting
  <2> QED
    BY <1>4, <2>1, <2>2, SameCount
<1>6. Early(t.conn, lastId)
  <2>1. lastId \in Nat
    BY SSMAssumption, Here DEF Control
  <2> QED
    BY <1>2, <2>1, SameXProperties DEF Counting
<1> QED
  BY <1>2, <1>5, <1>6 DEF t

\* A new allocation has no X client yet, and its tables are empty.
LEMMA AllocateCounts ==
    ASSUME IInv, Counting, NEW c \in Conn, NEW wish \in Wishes, Allocate(c, wish)
    PROVE  Counting'
<1> DEFINE a == lastId + 1
           cn == [conn EXCEPT ![c].toClean = @ \cup {a}]
           t == [Tables EXCEPT !.live = live \cup {a},
                               !.conn = [conn EXCEPT ![c].toClean = @ \cup {a}]]
<1>1. /\ c \in ready /\ conn[c].kind = "client" /\ lastId < MaxAllocs
      /\ lastId' = a /\ Reply(c, t)
  BY DEF Allocate, Asks, Serving, IsClient
<1>2. a \in AllocId /\ a \in Nat /\ lastId \in Nat /\ lastId < a
  BY <1>1, SSMAssumption, Here DEF AllocId, Control
<1>3. conn[c] \in ClientConn /\ conn \in [Conn -> Connection]
  BY <1>1, Here, Kinds
<1>4. /\ cn \in [Conn -> Connection] /\ cn[c].kind = "client"
      /\ \A d \in Conn \ {c} : cn[d] = conn[d]
  <2>1. [conn[c] EXCEPT !.toClean = @ \cup {a}] \in ClientConn
    BY <1>2, <1>3 DEF ClientConn
  <2>2. cn = [conn EXCEPT ![c] = [conn[c] EXCEPT !.toClean = @ \cup {a}]]
    BY <1>3
  <2> QED
    BY <1>3, <2>1, <2>2, Kinds DEF Connection
<1>5. t = [Tables EXCEPT !.live = live \cup {a}, !.conn = cn]
  OBVIOUS
<1> HIDE DEF a, cn, t
<1>6. Good(Tables) /\ Tables.conn = conn /\ Tables.clients = clients /\ Tables.live = live
  BY Here
<1>7. SameX(conn, cn)
  BY <1>1, <1>4 DEF SameX
<1>8. Good(t) /\ t.clients = clients /\ t.conn = cn /\ t.live = live \cup {a}
  <2>1. live \cup {a} \in SUBSET AllocId /\ avail \in Tally
    BY <1>2, Here
  <2>2. Changed(Tables, t, live \cup {a}, avail, cn)
    BY <1>5 DEF Changed
  <2>3. KindsKept(Tables, cn)
    BY <1>1, <1>4, <1>6 DEF KindsKept
  <2> QED
    BY <1>4, <1>6, <2>1, <2>2, <2>3, NewEntries
<1>9. t.users = Tables.users /\ t.avail = Tables.avail
  BY <1>5, <1>6 DEF Good
<1>10. Counts(t)
  <2>1. ASSUME NEW b \in AllocId, NEW s \in Server, NEW u \in Uid
        PROVE  IF b \in t.live
               THEN /\ t.users[b][s][u] = Tables.users[b][s][u]
                    /\ t.avail[b][s][u] = Tables.avail[b][s][u]
                    /\ b \in Tables.live \/ Of(Tables.conn, b, s, u) = {}
               ELSE t.users[b][s][u] = 0 /\ t.avail[b][s][u] = 0
    <3>1. Of(conn, a, s, u) = {}
      BY <1>2 DEF Counting, Early, Of
    <3>2. b \notin live => Tables.users[b][s][u] = 0 /\ Tables.avail[b][s][u] = 0
      BY <1>6 DEF Counting, Counts
    <3> QED
      BY <1>6, <1>8, <1>9, <3>1, <3>2
  <2> QED
    BY <1>6, <1>7, <1>8, <2>1, SameCount DEF Counting
<1>11. Early(cn, lastId')
  <2>1. Early(cn, lastId)
    BY <1>2, <1>7, SameXProperties DEF Counting
  <2>2. \A d \in Conn : cn[d].kind = "x" => cn[d].alloc \in Nat
    BY <1>4, Kinds DEF XConn, AllocId
  <2> QED
    BY <1>1, <1>2, <2>1, <2>2 DEF Early
<1>12. c \in ToSet(t.clients)
  BY <1>1, <1>8, Here
<1> QED
  BY <1>1, <1>2, <1>8, <1>10, <1>11, <1>12, ReplyCounts

\* The removal of an allocation empties its tables.
LEMMA DeallocateCounts ==
    ASSUME IInv, Counting, NEW c \in Conn, NEW a \in AllocId, Deallocate(c, a)
    PROVE  Counting'
<1> DEFINE ids == {a}
           r == RemoveAllocations(Tables, ids)
<1>1. c \in ready /\ lastId' = lastId /\ (Exit("raised") \/ Reply(c, r))
  BY DEF Deallocate, Asks, Serving
<1>2. ids \in SUBSET AllocId /\ Good(Tables) /\ Tables.conn = conn /\ Tables.clients = clients
      /\ lastId \in Nat /\ c \in ToSet(clients)
  BY <1>1, SSMAssumption, Here DEF Control
<1> HIDE DEF ids
<1>3. Good(r) /\ r.clients = clients
  BY <1>2, RemoveEffect
<1>4. Counts(r) /\ SameX(conn, r.conn)
  BY <1>2, RemoveCounts, RemoveSameX DEF Counting
<1> HIDE DEF r
<1>5. Early(r.conn, lastId)
  BY <1>2, <1>4, SameXProperties DEF Counting
<1> QED
  BY <1>1, <1>2, <1>3, <1>4, <1>5, ReplyCounts, ExitCounts

LEMMA StopCounts ==
    ASSUME IInv, Counting, NEW c \in Conn, NEW a \in AllocId, NEW servers, StopXServer(c, a, servers)
    PROVE  Counting'
<1> DEFINE hit(d) == d \in XClientsOf(Tables, {a}) /\ conn[d].srv \in servers
           cn == [d \in Conn |-> IF hit(d) THEN [conn[d] EXCEPT !.shut = TRUE] ELSE conn[d]]
           t == [Tables EXCEPT !.conn = cn]
<1>1. c \in ready /\ lastId' = lastId /\ Reply(c, t)
  BY DEF StopXServer, Asks, Serving
<1>2. lastId \in Nat /\ c \in ToSet(clients)
  BY <1>1, SSMAssumption, Here DEF Control
<1>3. ASSUME NEW d \in Conn
      PROVE  /\ cn[d] \in Connection
             /\ cn[d].kind = conn[d].kind
             /\ conn[d].kind = "x" =>
                    /\ cn[d].alloc = conn[d].alloc /\ cn[d].srv = conn[d].srv
                    /\ cn[d].uid = conn[d].uid /\ cn[d].running = conn[d].running
  <2>1. CASE hit(d)
    <3>1. conn[d].kind = "x"
      BY <2>1, Here DEF XClientsOf
    <3>2. conn[d] \in XConn
      BY <3>1, Here, Kinds
    <3> QED
      BY <2>1, <3>1, <3>2 DEF XConn, Connection
  <2>2. CASE ~hit(d)
    BY <2>2, Here
  <2> QED
    BY <2>1, <2>2
<1>4. cn \in [Conn -> Connection] /\ SameX(conn, cn)
  BY <1>3 DEF SameX
<1> HIDE DEF cn
<1>5. Good(t) /\ t.clients = clients /\ Counts(t) /\ Early(t.conn, lastId)
  BY <1>3, <1>4, EntriesCount
<1> QED
  BY <1>1, <1>2, <1>5, ReplyCounts

LEMMA WaitCounts ==
    ASSUME IInv, Counting, NEW c \in Conn, NEW w \in Wait, WaitXState(c, w)
    PROVE  Counting'
<1> DEFINE cn == [conn EXCEPT ![c].wait = w]
           t == [Tables EXCEPT !.conn = cn]
<1>1. c \in ready /\ lastId' = lastId /\ Proceed(c, t) /\ conn[c].kind = "client"
  BY DEF WaitXState, Asks, Serving, IsClient
<1>2. lastId \in Nat /\ c \in ToSet(clients)
  BY <1>1, SSMAssumption, Here DEF Control
<1>3. conn[c] \in ClientConn /\ conn \in [Conn -> Connection]
  BY <1>1, Here, Kinds
<1>4. /\ cn \in [Conn -> Connection] /\ \A d \in Conn \ {c} : cn[d] = conn[d]
      /\ cn[c].kind = "client"
  BY <1>3 DEF ClientConn, Connection
<1> HIDE DEF cn
<1>5. (\A d \in Conn : cn[d].kind = conn[d].kind) /\ SameX(conn, cn)
  BY <1>1, <1>4 DEF SameX
<1>6. Good(t) /\ t.clients = clients /\ Counts(t) /\ Early(t.conn, lastId)
  BY <1>4, <1>5, EntriesCount
<1> QED
  BY <1>1, <1>2, <1>6, ReplyCounts

\* An X server that comes up is one more that is available, one that goes down one less.
LEMMA UpdateCounts ==
    ASSUME IInv, Counting, NEW c \in Conn, UpdateXAvail(c)
    PROVE  Counting'
<1> DEFINE x == conn[c]
           new == IF x.running THEN Less(avail[x.alloc][x.srv][x.uid])
                  ELSE avail[x.alloc][x.srv][x.uid] + 1
           av == [avail EXCEPT ![x.alloc][x.srv][x.uid] = IF x.running THEN Less(@) ELSE @ + 1]
           cn == [conn EXCEPT ![c].running = ~@]
           t == [Tables EXCEPT !.avail = av, !.conn = cn]
<1>1. /\ c \in ready /\ lastId' = lastId /\ x.kind = "x"
      /\ \/ x.alloc \notin live /\ Reply(c, Tables)
         \/ Exit("missed")
         \/ /\ x.alloc \in live /\ ~(x.running /\ avail[x.alloc][x.srv][x.uid] = 0)
            /\ Proceed(c, t)
  BY DEF UpdateXAvail, Serving, IsX
<1>2. /\ lastId \in Nat /\ c \in ToSet(clients) /\ Good(Tables) /\ Tables.conn = conn
      /\ Tables.clients = clients /\ Tables.live = live
      /\ Tables.users = users /\ Tables.avail = avail
  BY <1>1, SSMAssumption, Here DEF Control, Tables
<1>3. CASE Reply(c, Tables)
  BY <1>1, <1>2, <1>3, ReplyCounts DEF Counting
<1>4. CASE Exit("missed")
  BY <1>4, ExitCounts
<1>5. CASE x.alloc \in live /\ ~(x.running /\ avail[x.alloc][x.srv][x.uid] = 0) /\ Proceed(c, t)
  <2>1. x \in XConn /\ conn \in [Conn -> Connection] /\ avail \in Tally
    BY <1>1, Here, Kinds
  <2>2. /\ cn \in [Conn -> Connection] /\ \A d \in Conn \ {c} : cn[d] = conn[d]
        /\ cn[c].kind = "x" /\ cn[c].alloc = x.alloc /\ cn[c].srv = x.srv /\ cn[c].uid = x.uid
        /\ cn[c].running = ~x.running
    BY <2>1 DEF XConn, Connection
  <2>3. /\ av \in Tally
        /\ \A a \in AllocId, s \in Server, u \in Uid :
               av[a][s][u] = IF a = x.alloc /\ s = x.srv /\ u = x.uid THEN new ELSE avail[a][s][u]
    <3>1. x.alloc \in AllocId /\ x.srv \in Server /\ x.uid \in Uid
      BY <2>1 DEF XConn
    <3>2. \A n \in Nat : Less(n) \in Nat
      BY DEF Less
    <3>3. avail[x.alloc][x.srv][x.uid] \in Nat
      BY <2>1, <3>1 DEF Tally
    <3>4. new \in Nat
      BY <3>2, <3>3
    <3>5. av = [avail EXCEPT ![x.alloc][x.srv][x.uid] = new]
      BY <2>1, <3>1, SMTT(30) DEF Tally
    <3> HIDE DEF new, av, x
    <3> QED
      BY <2>1, <3>1, <3>4, <3>5, SMTT(30) DEF Tally
  <2> HIDE DEF av, cn
  <2>4. Good(t) /\ t.clients = clients /\ t.conn = cn /\ t.live = live
    <3>1. KindsKept(Tables, cn)
      BY <1>1, <1>2, <2>2 DEF KindsKept
    <3>2. Changed(Tables, t, live, av, cn) /\ live \in SUBSET AllocId
      BY <1>2, Here DEF Changed
    <3> HIDE DEF t
    <3> QED
      BY <1>2, <2>2, <2>3, <3>1, <3>2, NewEntries
  <2>5. t.users = users /\ t.avail = av
    BY <1>2 DEF Good
  <2> HIDE DEF t
  <2>6. ASSUME NEW a \in AllocId, NEW s \in Server, NEW u \in Uid
        PROVE  /\ t.users[a][s][u] = IF a \in t.live THEN Cardinality(Of(t.conn, a, s, u)) ELSE 0
               /\ t.avail[a][s][u] =
                      IF a \in t.live THEN Cardinality(Running(t.conn, a, s, u)) ELSE 0
    <3> DEFINE its == x.alloc = a /\ x.srv = s /\ x.uid = u
               up == Running(conn, a, s, u)
    <3>1. Of(cn, a, s, u) = Of(conn, a, s, u)
      BY <1>1, <2>2 DEF Of
    <3>2. /\ users[a][s][u] = IF a \in live THEN Cardinality(Of(conn, a, s, u)) ELSE 0
          /\ avail[a][s][u] = IF a \in live THEN Cardinality(up) ELSE 0
      BY <1>2 DEF Counting, Counts
    <3>3. Running(cn, a, s, u) = IF its THEN IF x.running THEN up \ {c} ELSE up \cup {c} ELSE up
      BY <1>1, <2>2, <3>1 DEF Running, Of
    <3>4. its => (c \in up <=> x.running)
      BY <1>1 DEF Running, Of
    <3>5. IsFiniteSet(up)
      BY <1>2, FiniteClients
    <3>6. av[a][s][u] = IF its THEN new ELSE avail[a][s][u]
      BY <2>3
    <3>7. its => a \in live /\ avail[x.alloc][x.srv][x.uid] = avail[a][s][u]
      BY <1>5
    <3>8. x.running \in BOOLEAN
      BY <2>1 DEF XConn
    <3> DEFINE run == x.running
    <3>9. its => new = IF run THEN avail[a][s][u] - 1 ELSE avail[a][s][u] + 1
      BY <1>5, <3>7 DEF Less
    <3> HIDE DEF up, its, new, run
    <3>10. /\ Cardinality(up \ {c}) = IF c \in up THEN Cardinality(up) - 1 ELSE Cardinality(up)
           /\ Cardinality(up \cup {c}) = IF c \in up THEN Cardinality(up) ELSE Cardinality(up) + 1
      BY <3>5, FS_RemoveElement, FS_AddElement
    <3> QED
      BY <2>4, <2>5, <3>1, <3>2, <3>3, <3>4, <3>6, <3>7, <3>9, <3>10 DEF run
  <2>7. Counts(t)
    BY <2>6 DEF Counts
  <2>8. Early(t.conn, lastId)
    BY <1>1, <2>2, <2>4 DEF Counting, Early
  <2> QED
    BY <1>1, <1>2, <1>5, <2>4, <2>7, <2>8, ReplyCounts
<1> QED
  BY <1>1, <1>3, <1>4, <1>5

\* Who is answered or dropped at the start of a turn is no X client.
LEMMA TurnCounts ==
    ASSUME IInv, Counting, Turn
    PROVE  Counting'
<1> DEFINE answered(e) == {c \in ToSet(clients) : Pending(c) /\ Answered(c, e)}
           cn(e) == [c \in Conn |-> IF c \in answered(e) THEN [conn[c] EXCEPT !.wait = NoWait]
                                                          ELSE conn[c]]
           t(e) == [Tables EXCEPT !.conn = cn(e)]
           left(e, failed) == IF failed = {} THEN t(e) ELSE Dropped(t(e), Last(clients))
<1>1. PICK e : \E failed \in SUBSET (answered(e) \cap gone) :
                   \/ (\A c \in failed : c = Last(clients)) /\ Become(left(e, failed))
                   \/ Exit("raised")
  BY DEF Turn
<1>2. lastId' = lastId /\ lastId \in Nat
  BY SSMAssumption, Here DEF Turn, Control
<1>3. ASSUME NEW c \in Conn
      PROVE  /\ cn(e)[c] \in Connection
             /\ cn(e)[c].kind = conn[c].kind
             /\ conn[c].kind = "x" => cn(e)[c] = conn[c]
             /\ c \in answered(e) => conn[c].kind = "client"
  <2>1. CASE c \in answered(e)
    <3>1. conn[c].kind = "client"
      BY <2>1 DEF Pending, IsClient
    <3>2. conn[c] \in ClientConn
      BY <3>1, Here, Kinds
    <3> QED
      BY <2>1, <3>1, <3>2 DEF ClientConn, Connection
  <2>2. CASE c \notin answered(e)
    BY <2>2, Here
  <2> QED
    BY <2>1, <2>2
<1>4. cn(e) \in [Conn -> Connection] /\ SameX(conn, cn(e))
  BY <1>3 DEF SameX
<1>5. Good(t(e)) /\ t(e).clients = clients /\ Counts(t(e)) /\ Early(t(e).conn, lastId)
  <2> HIDE DEF cn
  <2> QED
    BY <1>3, <1>4, EntriesCount
<1>6. t(e).conn = cn(e)
  BY Here DEF Good
<1> HIDE DEF cn, t
<1>7. PICK failed \in SUBSET (answered(e) \cap gone) :
          \/ (\A c \in failed : c = Last(clients)) /\ Become(left(e, failed))
          \/ Exit("raised")
  BY <1>1
<1>8. CASE Exit("raised")
  BY <1>8, ExitCounts
<1>9. CASE failed = {} /\ Become(t(e))
  BY <1>2, <1>5, <1>9, BecomeCounts
<1>10. CASE /\ failed # {} /\ \A c \in failed : c = Last(clients)
            /\ Become(Dropped(t(e), Last(clients)))
  <2> DEFINE d == Last(clients)
             r == Dropped(t(e), d)
  <2>1. d \in answered(e) /\ d \in ToSet(clients) /\ d \in Conn
    BY <1>10, Here
  <2> HIDE DEF d
  <2>2. t(e).conn[d].kind # "x" /\ d \in ToSet(t(e).clients)
    BY <1>3, <1>5, <1>6, <2>1
  <2>3. Good(r)
    BY <1>5, <2>2, DropEffect
  <2>4. Counts(r) /\ SameX(t(e).conn, r.conn)
    BY <1>5, <2>2, DropCounts
  <2>5. Become(r)
    BY <1>10 DEF d
  <2> HIDE DEF r
  <2>6. Early(r.conn, lastId)
    BY <1>2, <1>5, <2>4, SameXProperties
  <2> QED
    BY <1>2, <2>3, <2>4, <2>5, <2>6, BecomeCounts
<1> QED
  BY <1>7, <1>8, <1>9, <1>10

\* A new client is no X client, and a new X client is one more for its server.
LEMMA AcceptCounts ==
    ASSUME IInv, Counting
    PROVE  /\ \A c \in Conn, u \in Uid, k \in BOOLEAN : AcceptClient(c, u, k) => Counting'
           /\ \A c \in Conn, s \in Server, a \in AllocId, u \in Uid :
                  AcceptX(c, s, a, u) => Counting'
<1>1. ASSUME NEW c \in Conn, NEW u \in Uid, NEW k \in BOOLEAN, AcceptClient(c, u, k)
      PROVE  Counting'
  <2> DEFINE rec == [kind |-> "client", uid |-> u, cleanup |-> k, toClean |-> {}, wait |-> NoWait]
  <2>1. /\ c \in Conn \ ToSet(clients) /\ conn' = [conn EXCEPT ![c] = rec]
        /\ UNCHANGED <<lastId, live, users, avail>>
    BY <1>1 DEF AcceptClient, Admit, Slot
  <2>2. rec.kind = "client"
    OBVIOUS
  <2> HIDE DEF rec
  <2>3. conn[c].kind # "x"
    BY <2>1, Here DEF NoConn
  <2>4. SameX(conn, conn')
    BY <2>1, <2>2, <2>3, Here DEF SameX
  <2>5. /\ Tables'.live = live /\ Tables'.users = users /\ Tables'.avail = avail
        /\ Tables'.conn = conn' /\ Tables.live = live /\ Tables.users = users
        /\ Tables.avail = avail /\ Tables.conn = conn
    BY <2>1 DEF Tables
  <2>6. \A a \in AllocId, s \in Server, v \in Uid :
            /\ Of(conn', a, s, v) = Of(conn, a, s, v)
            /\ Running(conn', a, s, v) = Running(conn, a, s, v)
    BY <2>4, SameXProperties
  <2>7. Counts(Tables')
    BY <2>5, <2>6 DEF Counting, Counts
  <2>8. Early(conn', lastId')
    BY <2>1, <2>4 DEF Counting, Early, SameX
  <2> QED
    BY <2>7, <2>8 DEF Counting
<1>2. ASSUME NEW c \in Conn, NEW s \in Server, NEW a \in AllocId, NEW u \in Uid, AcceptX(c, s, a, u)
      PROVE  Counting'
  <2> DEFINE rec == [kind |-> "x", uid |-> u, srv |-> s, alloc |-> a,
                     running |-> FALSE, shut |-> FALSE]
  <2>1. /\ c \in Conn \ ToSet(clients) /\ conn' = [conn EXCEPT ![c] = rec] /\ a \in live
        /\ users' = [users EXCEPT ![a][s][u] = @ + 1] /\ UNCHANGED <<lastId, live, avail>>
    BY <1>2 DEF AcceptX, Admit, Slot, MayConnect
  <2>2. rec.kind = "x" /\ rec.alloc = a /\ rec.srv = s /\ rec.uid = u /\ rec.running = FALSE
    OBVIOUS
  <2> HIDE DEF rec
  <2>3. conn[c].kind # "x" /\ conn \in [Conn -> Connection]
    BY <2>1, Here DEF NoConn
  <2>4. /\ Tables'.live = live /\ Tables'.users = users' /\ Tables'.avail = avail
        /\ Tables'.conn = conn' /\ Tables.live = live /\ Tables.users = users
        /\ Tables.avail = avail /\ Tables.conn = conn
    BY <2>1 DEF Tables
  <2>5. ASSUME NEW b \in AllocId, NEW r \in Server, NEW v \in Uid
        PROVE  /\ users'[b][r][v] = IF b \in live THEN Cardinality(Of(conn', b, r, v)) ELSE 0
               /\ avail[b][r][v] = IF b \in live THEN Cardinality(Running(conn', b, r, v)) ELSE 0
    <3> DEFINE its == b = a /\ r = s /\ v = u
               all == Of(conn, b, r, v)
    <3>1. users'[b][r][v] = IF its THEN users[b][r][v] + 1 ELSE users[b][r][v]
      BY <2>1, Here, SMTT(30) DEF Tally
    <3>2. Of(conn', b, r, v) = (IF its THEN all \cup {c} ELSE all) /\ c \notin all
      BY <2>1, <2>2, <2>3 DEF Of
    <3>3. Running(conn', b, r, v) = Running(conn, b, r, v)
      BY <2>1, <2>2, <2>3 DEF Running, Of
    <3>4. /\ users[b][r][v] = IF b \in live THEN Cardinality(all) ELSE 0
          /\ avail[b][r][v] = IF b \in live THEN Cardinality(Running(conn, b, r, v)) ELSE 0
      BY <2>4 DEF Counting, Counts
    <3>5. IsFiniteSet(all)
      BY <2>4, Here, FiniteClients
    <3>6. its => b \in live
      BY <2>1
    <3> HIDE DEF its, all
    <3>7. Cardinality(all \cup {c}) = Cardinality(all) + 1
      BY <3>2, <3>5, FS_AddElement
    <3> QED
      BY <3>1, <3>2, <3>3, <3>4, <3>6, <3>7
  <2>6. Counts(Tables')
    BY <2>4, <2>5 DEF Counts
  <2>7. a <= lastId
    BY <2>1, SSMAssumption, Here DEF Control
  <2>8. Early(conn', lastId')
    BY <2>1, <2>2, <2>3, <2>7 DEF Counting, Early
  <2> QED
    BY <2>6, <2>8 DEF Counting
<1> QED
  BY <1>1, <1>2

\* Every step.
LEMMA NextCounts == IInv /\ Counting /\ [Next]_vars => Counting'
<1> SUFFICES ASSUME IInv, Counting, [Next]_vars PROVE Counting'
  OBVIOUS
<1>1. Good(Tables) /\ Counts(Tables) /\ Tables.conn = conn /\ Tables.clients = clients
      /\ lastId \in Nat /\ Early(conn, lastId) /\ ready \subseteq ToSet(clients)
  BY SSMAssumption, Here DEF Counting, Control
<1>2. ASSUME NEW c \in Conn, Serve(c) PROVE Counting'
  <2>1. ASSUME Answer(c) \/ Eof(c) PROVE Counting'
    <3>1. c \in ready /\ lastId' = lastId /\ (Reply(c, Tables) \/ Drop(c, Tables))
      BY <2>1 DEF Answer, Asks, Eof, Serving
    <3> QED
      BY <1>1, <3>1, ReplyCounts
  <2>2. ASSUME NEW w \in Wait, WaitCrash(c, w) PROVE Counting'
    BY <2>2, ExitCounts DEF WaitCrash
  <2> QED
    BY <1>2, <2>1, <2>2, AllocateCounts, DeallocateCounts, StopCounts, WaitCounts, UpdateCounts
    DEF Serve
<1>3. CASE EndTurn \/ (\E c \in Conn : Leave(c)) \/ Down \/ UNCHANGED vars
  <2>1. UNCHANGED <<clients, conn, live, users, avail, lastId>>
    BY <1>3 DEF EndTurn, Leave, Down, vars
  <2>2. Tables' = Tables
    BY <2>1 DEF Tables
  <2> QED
    BY <2>1, <2>2 DEF Counting
<1>4. CASE Interrupt \/ AcceptCrash
  BY <1>4, ExitCounts DEF Interrupt, AcceptCrash
<1> QED
  BY <1>2, <1>3, <1>4, TurnCounts, AcceptCounts DEF Next

\* The invariant of the count.
THEOREM CountingInvariance == Spec => []Counting
<1>1. Init => Counting
  <2> SUFFICES ASSUME Init PROVE Counting
    OBVIOUS
  <2>1. Tables.live = {} /\ Tables.users = users /\ Tables.avail = avail
    BY DEF Init, Tables
  <2>2. \A a \in AllocId, s \in Server, u \in Uid : users[a][s][u] = 0 /\ avail[a][s][u] = 0
    BY DEF Init, Nobody
  <2>3. Early(conn, lastId)
    BY DEF Init, Early, NoConn
  <2> QED
    BY <2>1, <2>2, <2>3 DEF Counting, Counts
<1> QED
  BY SsmInvariance, NextCounts, <1>1, PTL DEF Spec

\* The tables of each allocation count its X clients and those whose server runs, through any
\* order of connections, updates, shutdowns and disconnections, for any number of allocations
\* and of users that share an X server (vs-ssm:1340-1346, 1666-1670, 1899).
THEOREM TablesAreExact == Spec => []TablesCountXClients
<1>1. IInv /\ Counting => TablesCountXClients
  <2> SUFFICES ASSUME IInv, Counting, NEW a \in live, NEW s \in Server, NEW u \in Uid
               PROVE  /\ users[a][s][u] = Cardinality(XConns(a, s, u))
                      /\ avail[a][s][u] = Cardinality({c \in XConns(a, s, u) : conn[c].running})
    BY DEF TablesCountXClients
  <2>1. XConns(a, s, u) = Of(conn, a, s, u)
    BY Here DEF XConns, Of, IsX, NoConn
  <2>2. {c \in XConns(a, s, u) : conn[c].running} = Running(conn, a, s, u)
    BY <2>1 DEF Running
  <2>3. a \in AllocId /\ Tables.live = live /\ Tables.users = users /\ Tables.avail = avail
        /\ Tables.conn = conn
    BY Here DEF Tables
  <2>4. /\ Tables.users[a][s][u] = Cardinality(Of(Tables.conn, a, s, u))
        /\ Tables.avail[a][s][u] = Cardinality(Running(Tables.conn, a, s, u))
    BY <2>3 DEF Counting, Counts
  <2> QED
    BY <2>1, <2>2, <2>3, <2>4
<1> QED
  BY SsmInvariance, CountingInvariance, <1>1, PTL
-----------------------------------------------------------------------------
(* What keeps the loop going.                                              *)

\* What clients have to clean up is there.
Clean(t) == \A c \in Conn : t.conn[c].kind = "client" => t.conn[c].toClean \subseteq t.live

GoesOn == status # "missed" /\ Clean(Tables)

\* When the SSM ends nobody is left to clean up anything.
LEMMA ExitGoesOn ==
    ASSUME NEW how, how # "missed", Exit(how)
    PROVE  GoesOn'
<1>1. status' = how /\ conn' = [c \in Conn |-> NoConn]
  BY DEF Exit, Become
<1>2. Tables'.conn = conn'
  BY DEF Tables
<1> QED
  BY <1>1, <1>2 DEF GoesOn, Clean, NoConn

\* An allocation that goes away is taken off the lists of all clients.
LEMMA RemoveClean ==
    ASSUME NEW t, Good(t), Clean(t), NEW ids \in SUBSET AllocId
    PROVE  Clean(RemoveAllocations(t, ids))
<1> DEFINE r == RemoveAllocations(t, ids)
<1>1. r.live = t.live \ ids /\ \A c \in Conn : r.conn[c] = AfterRemoval(t, ids, c)
  BY RemoveEffect
<1>2. \A c \in Conn : Left(t, ids, c, AfterRemoval(t, ids, c))
  BY RemovedEntry
<1> HIDE DEF r
<1>3. Clean(r)
  BY <1>1, <1>2 DEF Clean, Left
<1> QED
  BY <1>3 DEF r

LEMMA DisconnectClean ==
    ASSUME NEW t, Good(t), Clean(t), NEW c \in ToSet(t.clients)
    PROVE  Clean(Disconnect(t, c))
<1> DEFINE r == Disconnect(t, c)
           ids == ToCleanUp(t, c)
<1>1. c \in Conn /\ ids \in SUBSET AllocId
  BY ToCleanUpType DEF Good
<1>2. /\ Good(r) /\ ToSet(r.clients) = ToSet(t.clients) \ {c} /\ r.live = t.live \ ids
      /\ \A d \in Conn \ {c} : r.conn[d] = AfterRemoval(t, ids, d)
  BY DisconnectEffect
<1> HIDE DEF r, ids
<1>3. \A d \in Conn : Left(t, ids, d, AfterRemoval(t, ids, d))
  BY <1>1, RemovedEntry
<1>4. r.conn[c].kind # "client"
  BY <1>1, <1>2 DEF Good, NoConn
<1>5. Clean(r)
  BY <1>2, <1>3, <1>4 DEF Clean, Left
<1> QED
  BY <1>5 DEF r

\* A handler's last step finds what its peer has to clean up.
LEMMA ReplyGoesOn ==
    ASSUME GoesOn, NEW STATE t, Good(t), Clean(t), NEW c \in ToSet(t.clients)
    PROVE  /\ Drop(c, t) => GoesOn'
           /\ Proceed(c, t) => GoesOn'
           /\ Reply(c, t) => GoesOn'
<1>1. ASSUME NEW STATE r, Good(r), Clean(r), Proceed(c, r) PROVE GoesOn'
  <2>1. Tables' = r /\ status' = status
    BY <1>1 DEF Proceed, Become, Tables, Good
  <2> QED
    BY <1>1, <2>1 DEF GoesOn
<1>2. ~RemovalMisses(t, ToCleanUp(t, c))
  BY DEF RemovalMisses, ToCleanUp, Clean, Good
<1>3. ASSUME Drop(c, t) PROVE GoesOn'
  <2>1. Exit("raised") \/ Proceed(c, Disconnect(t, c))
    BY <1>2, <1>3 DEF Drop
  <2>2. Good(Disconnect(t, c)) /\ Clean(Disconnect(t, c))
    BY DisconnectEffect, DisconnectClean
  <2> QED
    BY <1>1, <2>1, <2>2, ExitGoesOn
<1> QED
  BY <1>1, <1>3 DEF Reply

\* A handler that changes neither what clients have to clean up nor what there is.
LEMMA EntriesClean ==
    ASSUME IInv, GoesOn, NEW STATE t, NEW STATE cn, cn \in [Conn -> Connection],
           \E av \in Tally : Changed(Tables, t, live, av, cn),
           \A c \in Conn : cn[c].kind = conn[c].kind /\
               (conn[c].kind = "client" => cn[c].toClean = conn[c].toClean)
    PROVE  Good(t) /\ t.clients = clients /\ Clean(t)
<1>1. PICK av \in Tally : Changed(Tables, t, live, av, cn)
  OBVIOUS
<1>2. Good(t) /\ t.clients = clients /\ t.conn = cn /\ t.live = live
  <2>1. KindsKept(Tables, cn)
    BY Here DEF KindsKept
  <2> QED
    BY <1>1, <2>1, Here, NewEntries
<1>3. Clean(t)
  BY <1>2, Here DEF GoesOn, Clean
<1> QED
  BY <1>2, <1>3

LEMMA AllocateGoesOn ==
    ASSUME IInv, GoesOn, NEW c \in Conn, NEW wish \in Wishes, Allocate(c, wish)
    PROVE  GoesOn'
<1> DEFINE a == lastId + 1
           cn == [conn EXCEPT ![c].toClean = @ \cup {a}]
           t == [Tables EXCEPT !.live = live \cup {a},
                               !.conn = [conn EXCEPT ![c].toClean = @ \cup {a}]]
<1>1. c \in ready /\ conn[c].kind = "client" /\ lastId < MaxAllocs /\ Reply(c, t)
  BY DEF Allocate, Asks, Serving, IsClient
<1>2. a \in AllocId
  BY <1>1, SSMAssumption, Here DEF AllocId, Control
<1>3. conn[c] \in ClientConn /\ conn \in [Conn -> Connection]
  BY <1>1, Here, Kinds
<1>4. /\ cn \in [Conn -> Connection] /\ cn[c].kind = "client"
      /\ cn[c].toClean = conn[c].toClean \cup {a} /\ \A d \in Conn \ {c} : cn[d] = conn[d]
  <2> DEFINE rec == [conn[c] EXCEPT !.toClean = @ \cup {a}]
  <2>1. rec \in ClientConn /\ rec.toClean = conn[c].toClean \cup {a}
    BY <1>2, <1>3 DEF ClientConn
  <2>2. cn = [conn EXCEPT ![c] = rec]
    BY <1>3
  <2> HIDE DEF rec, cn
  <2> QED
    BY <1>3, <2>1, <2>2, Kinds DEF Connection
<1>5. t = [Tables EXCEPT !.live = live \cup {a}, !.conn = cn]
  OBVIOUS
<1> HIDE DEF a, cn, t
<1>6. Good(Tables) /\ Tables.conn = conn /\ Tables.clients = clients /\ Tables.live = live
  BY Here
<1>7. Good(t) /\ t.clients = clients /\ t.conn = cn /\ t.live = live \cup {a}
  <2>1. live \cup {a} \in SUBSET AllocId /\ avail \in Tally
    BY <1>2, Here
  <2>2. Changed(Tables, t, live \cup {a}, avail, cn)
    BY <1>5 DEF Changed
  <2>3. KindsKept(Tables, cn)
    BY <1>1, <1>4, <1>6 DEF KindsKept
  <2> QED
    BY <1>4, <1>6, <2>1, <2>2, <2>3, NewEntries
<1>8. Clean(t)
  BY <1>1, <1>4, <1>6, <1>7 DEF GoesOn, Clean
<1>9. c \in ToSet(t.clients)
  BY <1>1, <1>7, Here
<1> QED
  BY <1>1, <1>7, <1>8, <1>9, ReplyGoesOn

LEMMA DeallocateGoesOn ==
    ASSUME IInv, GoesOn, NEW c \in Conn, NEW a \in AllocId, Deallocate(c, a)
    PROVE  GoesOn'
<1> DEFINE ids == {a}
           r == RemoveAllocations(Tables, ids)
<1>1. ids \in SUBSET AllocId /\ Good(Tables) /\ Tables.clients = clients /\ Tables.live = live
  BY Here
<1>2. c \in ready /\ (Reply(c, r) \/ Exit("raised"))
  BY <1>1 DEF Deallocate, Asks, Serving
<1> HIDE DEF ids
<1>3. Good(r) /\ r.clients = clients
  BY <1>1, RemoveEffect
<1>4. Clean(r)
  BY <1>1, RemoveClean DEF GoesOn
<1> HIDE DEF r
<1> QED
  BY <1>2, <1>3, <1>4, Here, ReplyGoesOn, ExitGoesOn

LEMMA StopGoesOn ==
    ASSUME IInv, GoesOn, NEW c \in Conn, NEW a \in AllocId, NEW servers, StopXServer(c, a, servers)
    PROVE  GoesOn'
<1> DEFINE hit(d) == d \in XClientsOf(Tables, {a}) /\ conn[d].srv \in servers
           cn == [d \in Conn |-> IF hit(d) THEN [conn[d] EXCEPT !.shut = TRUE] ELSE conn[d]]
           t == [Tables EXCEPT !.conn = cn]
<1>1. c \in ready /\ Reply(c, t)
  BY DEF StopXServer, Asks, Serving
<1>2. ASSUME NEW d \in Conn
      PROVE  /\ cn[d] \in Connection /\ cn[d].kind = conn[d].kind
             /\ conn[d].kind = "client" => cn[d].toClean = conn[d].toClean
  <2>1. CASE hit(d)
    <3>1. conn[d].kind = "x"
      BY <2>1, Here DEF XClientsOf
    <3>2. conn[d] \in XConn
      BY <3>1, Here, Kinds
    <3> QED
      BY <2>1, <3>1, <3>2 DEF XConn, Connection
  <2>2. CASE ~hit(d)
    BY <2>2, Here
  <2> QED
    BY <2>1, <2>2
<1>3. cn \in [Conn -> Connection]
  BY <1>2
<1>4. \E av \in Tally : Changed(Tables, t, live, av, cn)
  BY Here DEF Changed
<1> HIDE DEF cn, t
<1>5. Good(t) /\ t.clients = clients /\ Clean(t)
  BY <1>2, <1>3, <1>4, EntriesClean
<1> QED
  BY <1>1, <1>5, Here, ReplyGoesOn

LEMMA WaitGoesOn ==
    ASSUME IInv, GoesOn, NEW c \in Conn, NEW w \in Wait, WaitXState(c, w)
    PROVE  GoesOn'
<1> DEFINE cn == [conn EXCEPT ![c].wait = w]
           t == [Tables EXCEPT !.conn = cn]
<1>1. c \in ready /\ Proceed(c, t) /\ conn[c].kind = "client"
  BY DEF WaitXState, Asks, Serving, IsClient
<1>2. conn[c] \in ClientConn /\ conn \in [Conn -> Connection]
  BY <1>1, Here, Kinds
<1>3. /\ cn \in [Conn -> Connection] /\ \A d \in Conn \ {c} : cn[d] = conn[d]
      /\ cn[c].kind = "client" /\ cn[c].toClean = conn[c].toClean
  BY <1>2 DEF ClientConn, Connection
<1>4. \E av \in Tally : Changed(Tables, t, live, av, cn)
  BY Here DEF Changed
<1> HIDE DEF cn, t
<1>5. Good(t) /\ t.clients = clients /\ Clean(t)
  BY <1>1, <1>3, <1>4, EntriesClean
<1> QED
  BY <1>1, <1>5, Here, ReplyGoesOn

\* A server that runs is counted, so that the look-up of its count finds it.
LEMMA UpdateGoesOn ==
    ASSUME IInv, Counting, GoesOn, NEW c \in Conn, UpdateXAvail(c)
    PROVE  GoesOn'
<1> DEFINE x == conn[c]
           av == [avail EXCEPT ![x.alloc][x.srv][x.uid] = IF x.running THEN Less(@) ELSE @ + 1]
           cn == [conn EXCEPT ![c].running = ~@]
           t == [Tables EXCEPT !.avail = av, !.conn = cn]
<1>1. /\ c \in ready /\ x.kind = "x"
      /\ \/ Reply(c, Tables)
         \/ x.alloc \in live /\ x.running /\ avail[x.alloc][x.srv][x.uid] = 0
         \/ Proceed(c, t)
  BY DEF UpdateXAvail, Serving, IsX
<1>2. x \in XConn /\ conn \in [Conn -> Connection] /\ avail \in Tally
  BY <1>1, Here, Kinds
<1>3. ~(x.alloc \in live /\ x.running /\ avail[x.alloc][x.srv][x.uid] = 0)
  <2> SUFFICES ASSUME x.alloc \in live, x.running, avail[x.alloc][x.srv][x.uid] = 0 PROVE FALSE
    OBVIOUS
  <2> DEFINE up == Running(conn, x.alloc, x.srv, x.uid)
  <2>1. c \in up
    BY <1>1 DEF Running, Of
  <2>2. IsFiniteSet(up)
    BY Here, FiniteClients
  <2>3. x.alloc \in AllocId /\ x.srv \in Server /\ x.uid \in Uid
    BY <1>2 DEF XConn
  <2>4. Cardinality(up) = 0
    <3>1. Tables.live = live /\ Tables.conn = conn /\ Tables.avail = avail
      BY DEF Tables
    <3> QED
      BY <2>3, <3>1 DEF Counting, Counts
  <2> HIDE DEF up
  <2> QED
    BY <2>1, <2>2, <2>4, FS_EmptySet
<1>4. CASE Reply(c, Tables)
  BY <1>1, <1>4, Here, ReplyGoesOn DEF GoesOn
<1>5. CASE Proceed(c, t)
  <2>1. av \in Tally
    <3>1. \A n \in Nat : Less(n) \in Nat
      BY DEF Less
    <3>2. avail[x.alloc][x.srv][x.uid] \in Nat
      BY <1>2 DEF Tally, XConn
    <3> QED
      BY <1>2, <3>1, <3>2, TallyChanged, SMTT(30) DEF XConn
  <2>2. cn \in [Conn -> Connection] /\ cn[c].kind = "x" /\ \A d \in Conn \ {c} : cn[d] = conn[d]
    BY <1>2 DEF XConn, Connection
  <2>3. Changed(Tables, t, live, av, cn)
    BY Here DEF Changed
  <2> HIDE DEF av, cn, t
  <2>4. Good(t) /\ t.clients = clients /\ Clean(t)
    BY <1>1, <2>1, <2>2, <2>3, EntriesClean
  <2> QED
    BY <1>1, <1>5, <2>4, Here, ReplyGoesOn
<1> QED
  BY <1>1, <1>3, <1>4, <1>5

\* A client whose answer fails takes its list with it.
LEMMA TurnGoesOn ==
    ASSUME IInv, GoesOn, Turn
    PROVE  GoesOn'
<1> DEFINE answered(e) == {c \in ToSet(clients) : Pending(c) /\ Answered(c, e)}
           cn(e) == [c \in Conn |-> IF c \in answered(e) THEN [conn[c] EXCEPT !.wait = NoWait]
                                                          ELSE conn[c]]
           t(e) == [Tables EXCEPT !.conn = cn(e)]
           left(e, failed) == IF failed = {} THEN t(e) ELSE Dropped(t(e), Last(clients))
<1>1. PICK e : \E failed \in SUBSET (answered(e) \cap gone) :
                   \/ /\ \A c \in failed : c = Last(clients)
                      /\ Become(left(e, failed)) /\ status' = status
                   \/ Exit("raised")
  BY DEF Turn
<1>2. PICK failed \in SUBSET (answered(e) \cap gone) :
                   \/ /\ \A c \in failed : c = Last(clients)
                      /\ Become(left(e, failed)) /\ status' = status
                   \/ Exit("raised")
  BY <1>1
<1>3. ASSUME NEW c \in Conn
      PROVE  /\ cn(e)[c] \in Connection /\ cn(e)[c].kind = conn[c].kind
             /\ conn[c].kind = "client" => cn(e)[c].toClean = conn[c].toClean
  <2>1. CASE c \in answered(e)
    <3>1. conn[c].kind = "client"
      BY <2>1 DEF Pending, IsClient
    <3>2. conn[c] \in ClientConn
      BY <3>1, Here, Kinds
    <3> QED
      BY <2>1, <3>1, <3>2 DEF ClientConn, Connection
  <2>2. CASE c \notin answered(e)
    BY <2>2, Here
  <2> QED
    BY <2>1, <2>2
<1>4. cn(e) \in [Conn -> Connection]
  BY <1>3
<1>5. \E av \in Tally : Changed(Tables, t(e), live, av, cn(e))
  BY Here DEF Changed
<1> HIDE DEF cn, t
<1>6. Good(t(e)) /\ t(e).clients = clients /\ Clean(t(e))
  BY <1>3, <1>4, <1>5, EntriesClean
<1>7. ASSUME NEW STATE r, Good(r), Clean(r), Become(r), status' = status PROVE GoesOn'
  <2>1. Tables' = r
    BY <1>7 DEF Become, Tables, Good
  <2> QED
    BY <1>7, <2>1 DEF GoesOn
<1>8. CASE failed = {} /\ Become(t(e)) /\ status' = status
  BY <1>6, <1>7, <1>8
<1>9. CASE /\ failed # {} /\ \A c \in failed : c = Last(clients)
           /\ Become(Dropped(t(e), Last(clients))) /\ status' = status
  <2> DEFINE d == Last(clients)
             r == Dropped(t(e), d)
  <2>1. d \in ToSet(t(e).clients)
    BY <1>6, <1>9, Here
  <2> HIDE DEF d
  <2>2. /\ Good(r) /\ r.live = t(e).live /\ r.conn = [t(e).conn EXCEPT ![d] = NoConn]
    BY <1>6, <2>1, DropEffect
  <2>3. Become(r) /\ status' = status
    BY <1>9 DEF d
  <2> HIDE DEF r
  <2>4. Clean(r)
    <3>1. t(e).conn \in [Conn -> Connection]
      BY <1>6 DEF Good
    <3> QED
      BY <1>6, <2>2, <3>1 DEF Clean, NoConn
  <2> QED
    BY <1>7, <2>2, <2>3, <2>4
<1> QED
  BY <1>2, <1>8, <1>9, ExitGoesOn

\* Every step.
LEMMA NextGoesOn == IInv /\ Counting /\ GoesOn /\ [Next]_vars => GoesOn'
<1> SUFFICES ASSUME IInv, Counting, GoesOn, [Next]_vars PROVE GoesOn'
  OBVIOUS
<1>1. ASSUME NEW c \in Conn, Serve(c) PROVE GoesOn'
  <2>1. ASSUME Answer(c) \/ Eof(c) PROVE GoesOn'
    <3>1. c \in ready /\ (Reply(c, Tables) \/ Drop(c, Tables))
      BY <2>1 DEF Answer, Asks, Eof, Serving
    <3> QED
      BY <3>1, Here, ReplyGoesOn DEF GoesOn
  <2>2. ASSUME NEW w \in Wait, WaitCrash(c, w) PROVE GoesOn'
    BY <2>2, ExitGoesOn DEF WaitCrash
  <2> QED
    BY <1>1, <2>1, <2>2, AllocateGoesOn, DeallocateGoesOn, StopGoesOn, WaitGoesOn, UpdateGoesOn
    DEF Serve
<1>2. ASSUME NEW c \in Conn, NEW rec, Admit(c, rec), rec.kind = "client" => rec.toClean = {}
      PROVE  GoesOn'
  <2>1. conn' = [conn EXCEPT ![c] = rec] /\ live' = live /\ status' = status
    BY <1>2 DEF Admit
  <2>2. Tables'.conn = conn' /\ Tables'.live = live' /\ Tables.conn = conn /\ Tables.live = live
    BY DEF Tables
  <2> QED
    BY <1>2, <2>1, <2>2, Here DEF GoesOn, Clean
<1>3. ASSUME NEW c \in Conn, NEW u \in Uid, NEW k \in BOOLEAN, AcceptClient(c, u, k) PROVE GoesOn'
  BY <1>2, <1>3 DEF AcceptClient
<1>4. ASSUME NEW c \in Conn, NEW s \in Server, NEW a \in AllocId, NEW u \in Uid, AcceptX(c, s, a, u)
      PROVE  GoesOn'
  BY <1>2, <1>4 DEF AcceptX
<1>5. CASE EndTurn \/ (\E c \in Conn : Leave(c)) \/ Down \/ UNCHANGED vars
  <2>1. UNCHANGED <<clients, conn, live, users, avail, status>>
    BY <1>5 DEF EndTurn, Leave, Down, vars
  <2> QED
    BY <2>1 DEF GoesOn, Tables
<1>6. CASE Interrupt \/ AcceptCrash
  BY <1>6, ExitGoesOn DEF Interrupt, AcceptCrash
<1> QED
  BY <1>1, <1>3, <1>4, <1>5, <1>6, TurnGoesOn DEF Next

\* Whatever the loop takes out of its own tables is there (vs-ssm:163, 1342): each allocation
\* that it removes is in force, and each running X server that goes down is counted.  It holds
\* however the peers are connected, whatever they ask for and whenever they die.  It does not
\* say that the loop goes on: look-ups of what a peer has sent, and sockets that report an error,
\* end it (vs-ssm:146, 1215, 1250, 1566, 1799), which is status "raised".
THEOREM TablesSuffice == Spec => []EntriesFound
<1>1. Init => GoesOn
  BY DEF Init, GoesOn, Clean, Tables, NoConn
<1>2. GoesOn => EntriesFound
  BY DEF GoesOn, EntriesFound
<1> QED
  BY SsmInvariance, InitInv, CountingInvariance, NextGoesOn, <1>1, <1>2, PTL DEF Spec
=============================================================================
