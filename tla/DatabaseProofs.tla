--------------------------- MODULE DatabaseProofs ---------------------------
(***************************************************************************)
(* Proofs about the database side of an application: SqlitePool, for any   *)
(* number of connections, callers and transactions and any maxConnections; *)
(* OrmSession and GroupArraySort, for any entities, references and types.  *)
(*                                                                         *)
(* In SqlitePool the books of one connection (Books) are in order as long  *)
(* as they are sure: until a race has happened, and for every connection   *)
(* but the first even after races, until a BEGIN has failed.               *)
(*                                                                         *)
(* In OrmSession a session keeps two things about an entity that is not    *)
(* excused (SessionInv): what it knows of the row, stage by stage of a     *)
(* group (Matches); and that the round to come, when it mentions the       *)
(* entity, does what was asked for last, and that otherwise the round in   *)
(* commit does it or it was done before (Words).                           *)
(***************************************************************************)
EXTENDS SqlitePool, OrmSession, QueueLemmas, FiniteSetTheorems, NaturalsInduction,
        WellFoundedInduction

-----------------------------------------------------------------------------
(* One connection                                                          *)

NoFailure == \A x \in Txn : txState[x] # "failed"
Sure(c) == ~raced \/ (c # first /\ NoFailure)

\* Who has c: it is open; handed over it is still marked as released, in use
\* it is not; a call without transaction has no transaction's connection, a
\* call of a transaction has its own.
Held(c) == \A t \in Task : conn[t] = c =>
    /\ db[c] = "open"
    /\ phase[t] = "handed" => released[c]
    /\ phase[t] # "handed" => ~released[c]
    /\ phase[t] # "handed" /\ TxnOf[t] = None => ~Kept(c)
    /\ phase[t] # "handed" /\ TxnOf[t] # None => owner[c] = TxnOf[t] /\ ~Ended(TxnOf[t])

\* Several callers have c only within one transaction.
Together(c) == \A t, u \in Task :
    t # u /\ conn[t] = c /\ conn[u] = c => TxnOf[t] # None /\ phase[t] # "handed"

\* A transaction and its connection know each other, and it is out.
Bound(c) == \A x \in Txn : txConn[x] = c /\ ~Ended(x) => owner[c] = x
Out(c)   == Kept(c) => db[c] = "open" /\ ~released[c]

Surplus(c) == c # first /\ db[c] = "open" /\ released[c] => Holders(c) # {}

Books(c) == Held(c) /\ Together(c) /\ Bound(c) /\ Out(c) /\ Surplus(c)

-----------------------------------------------------------------------------
(* The whole pool                                                          *)

\* A transaction has one connection, until a race.
OneEach == ~raced =>
    /\ \A t \in Task : conn[t] # None /\ phase[t] # "handed" /\ TxnOf[t] # None => txConn[TxnOf[t]] = conn[t]
    /\ \A c \in Conn : Kept(c) => txConn[owner[c]] = c

Counted == ~raced => IsFiniteSet(InHands) /\ active = Cardinality(InHands)

FirstIsOpen == first # None => db[first] = "open"
Unused == first = None => /\ \A t \in Task : conn[t] = None
                          /\ \A x \in Txn : txConn[x] = None

\* A transaction that is over, or is about to be, had a connection; it ends
\* when its calls have returned.
Lives == /\ \A x \in Txn : txState[x] # "open" => txConn[x] # None
         /\ \A t \in Task : TxnOf[t] # None /\ phase[t] # "idle" => txState[TxnOf[t]] # "ended"
         /\ \A t \in Task : phase[t] = "beginning" => TxnOf[t] # None /\ txConn[TxnOf[t]] # None

QueueIsQueued == Distinct(queue) /\ \A k \in DOMAIN queue : phase[queue[k]] = "queued"

Pool == FirstIsOpen /\ Unused /\ Lives /\ QueueIsQueued

IInv == /\ TypeOK /\ Pool
        /\ \A c \in Conn : Sure(c) => Books(c)
        /\ OneEach /\ Counted /\ NoLeak

-----------------------------------------------------------------------------
(* What no step disturbs                                                   *)

\* Whoever is sure after a step was sure before.
LEMMA SureBefore ==
  ASSUME NEW c \in Conn, raced => raced', NoFailure' => NoFailure, first = None \/ first' = first
  PROVE  Sure(c)' => Sure(c)
BY NoneAssumption DEF Sure

\* The books of a connection that the step is not about.
LEMMA BooksKept ==
  ASSUME NEW d \in Conn, Sure(d) => Books(d), Sure(d)' => Sure(d),
         first = None \/ first' = first,
         db'[d] = db[d], released'[d] = released[d], owner'[d] = owner[d],
         owner[d] \in Txn \cup {None},
         \A t \in Task : conn'[t] = d => conn[t] = d /\ (phase'[t] = "handed" <=> phase[t] = "handed"),
         Kept(d) \/ \A t \in Task : conn[t] = d => conn'[t] = d,
         \A x \in Txn : txConn'[x] = d => txConn[x] = d \/ Ended(x)',
         \A x \in Txn : Ended(x) => Ended(x)',
         Sure(d)' => \A t \in Task : conn[t] = d /\ phase[t] # "handed" /\ TxnOf[t] # None => ~Ended(TxnOf[t])'
  PROVE  Sure(d)' => Books(d)'
<1> SUFFICES ASSUME Sure(d)' PROVE Books(d)'
  OBVIOUS
<1>1. Held(d) /\ Together(d) /\ Bound(d) /\ Out(d) /\ Surplus(d)
  BY DEF Books
<1>2. Kept(d)' => Kept(d)
  BY DEF Kept
<1>3. Held(d)'
  BY <1>1, <1>2 DEF Held
<1>4. Together(d)'
  BY <1>1 DEF Together
<1>5. Bound(d)'
  BY <1>1 DEF Bound
<1>6. Out(d)'
  BY <1>1, <1>2 DEF Out
<1>7. Surplus(d)'
  BY <1>1, NoneAssumption DEF Surplus, Out, Holders
<1> QED
  BY <1>3, <1>4, <1>5, <1>6, <1>7 DEF Books

LEMMA CountIn ==
  ASSUME NEW c, IsFiniteSet(InHands), active = Cardinality(InHands),
         c \notin InHands, InHands' = InHands \cup {c}, active' = active + 1
  PROVE  IsFiniteSet(InHands') /\ active' = Cardinality(InHands')
<1>1. /\ IsFiniteSet(InHands \cup {c})
      /\ Cardinality(InHands \cup {c}) = IF c \in InHands THEN Cardinality(InHands) ELSE Cardinality(InHands) + 1
  BY FS_AddElement
<1> QED
  BY <1>1

LEMMA CountOut ==
  ASSUME NEW c, IsFiniteSet(InHands), active = Cardinality(InHands),
         c \in InHands, InHands' = InHands \ {c}, active' = active - 1
  PROVE  IsFiniteSet(InHands') /\ active' = Cardinality(InHands')
<1>1. /\ IsFiniteSet(InHands \ {c})
      /\ Cardinality(InHands \ {c}) = IF c \in InHands THEN Cardinality(InHands) - 1 ELSE Cardinality(InHands)
  BY FS_RemoveElement
<1> QED
  BY <1>1

LEMMA InitIInv == Init => IInv
<1> SUFFICES ASSUME Init PROVE IInv
  OBVIOUS
<1>1. TypeOK
  <2>1. <<>> \in Seq(Task) /\ 0 \in Int
    OBVIOUS
  <2>2. /\ db \in [Conn -> {"none", "open", "closed"}] /\ released \in [Conn -> BOOLEAN]
        /\ owner \in [Conn -> Txn \cup {None}]
        /\ phase \in [Task -> Using \cup {"idle", "queued"}] /\ conn \in [Task -> Conn \cup {None}]
        /\ txConn \in [Txn -> Conn \cup {None}]
        /\ txState \in [Txn -> {"open", "ending", "failed", "ended", "abandoned"}]
    BY DEF Init
  <2>3. \A t \in Task : conn[t] # None <=> phase[t] \in Using
    BY DEF Init, Using
  <2> QED
    BY <2>1, <2>2, <2>3 DEF Init, TypeOK
<1>2. Pool
  <2>1. DOMAIN queue = {}
    BY DEF Init
  <2> QED
    BY <2>1 DEF Init, Pool, FirstIsOpen, Unused, Lives, QueueIsQueued, Distinct
<1>3. ASSUME NEW c \in Conn PROVE Books(c)
  BY NoneAssumption DEF Init, Books, Held, Together, Bound, Out, Surplus, Kept
<1>4. OneEach
  BY DEF Init, OneEach, Kept
<1>5. InHands = {}
  BY DEF Init, InHands
<1>6. Counted
  BY <1>5, FS_EmptySet DEF Init, Counted
<1>7. NoLeak
  BY <1>5 DEF NoLeak
<1> QED
  BY <1>1, <1>2, <1>3, <1>4, <1>6, <1>7 DEF IInv

-----------------------------------------------------------------------------
(* getConnection()                                                         *)

\* t gets c, which was not out and which nobody else has (as far as the
\* books of c are sure afterwards).
LEMMA TakeInv ==
  ASSUME IInv, NEW t \in Task, NEW c \in Conn, Take(t, c),
         phase[t] = "idle" \/ (phase[t] = "handed" /\ conn[t] = c),
         queue' = queue, txState' = txState, raced' \in BOOLEAN, raced => raced',
         db' \in [Conn -> {"none", "open", "closed"}], \A d \in Conn : d # c => db'[d] = db[d],
         db[c] = "open" => db'[c] = "open",
         first = None \/ Sure(c)' => db'[c] = "open",
         Sure(c)' => /\ db[c] # "open" \/ released[c]
                     /\ \A u \in Task : conn[u] = c => u = t,
         TxnOf[t] # None => txState[TxnOf[t]] # "ended" /\ (Sure(c)' => ~Ended(TxnOf[t])),
         ~raced' => ~Sticky(t)
  PROVE  IInv'
<1> DEFINE x == TxnOf[t]
<1>1. /\ first' = IF first = None THEN c ELSE first
      /\ released' = [released EXCEPT ![c] = FALSE]
      /\ active' = active + 1
      /\ conn' = [conn EXCEPT ![t] = c]
      /\ phase' = [phase EXCEPT ![t] = IF x = None THEN "holding" ELSE "beginning"]
      /\ owner' = IF x = None THEN owner ELSE [owner EXCEPT ![c] = x]
      /\ txConn' = IF x = None THEN txConn ELSE [txConn EXCEPT ![x] = c]
  BY DEF Take
<1>2. TypeOK /\ Pool /\ x \in Txn \cup {None} /\ None \notin Txn /\ c # None
  BY TxnOfAssumption, NoneAssumption DEF IInv
<1>3. /\ first' \in Conn /\ released' \in [Conn -> BOOLEAN] /\ active' \in Int
      /\ conn' \in [Task -> Conn \cup {None}] /\ conn'[t] = c
      /\ phase' \in [Task -> Using \cup {"idle", "queued"}] /\ phase'[t] \in {"holding", "beginning"}
      /\ phase'[t] = "beginning" => x # None
      /\ owner' \in [Conn -> Txn \cup {None}]
      /\ txConn' \in [Txn -> Conn \cup {None}]
      /\ ~released'[c] /\ (x # None => owner'[c] = x /\ txConn'[x] = c)
      /\ x = None => owner' = owner /\ txConn' = txConn
  BY <1>1, <1>2 DEF TypeOK, Using
<1>4. /\ \A u \in Task : u # t => conn'[u] = conn[u] /\ phase'[u] = phase[u]
      /\ \A d \in Conn : d # c => released'[d] = released[d] /\ owner'[d] = owner[d]
      /\ \A y \in Txn : y # x => txConn'[y] = txConn[y]
  BY <1>1, <1>2 DEF TypeOK
<1>5. conn[t] = None \/ conn[t] = c
  BY <1>2 DEF TypeOK, Using
<1>6. /\ \A y \in Txn : Ended(y)' = Ended(y)
      /\ \A d \in Conn : (Sure(d)' => Sure(d)) /\ (Sure(d) => Books(d))
  <2>1. \A y \in Txn : Ended(y)' = Ended(y)
    BY DEF Ended
  <2>2. NoFailure' = NoFailure /\ (first = None \/ first' = first)
    BY <1>1 DEF NoFailure
  <2> QED
    BY <2>1, <2>2, SureBefore DEF IInv
<1> HIDE DEF x
<1>7. TypeOK'
  <2>1. \A u \in Task : conn'[u] # None <=> phase'[u] \in Using
    BY <1>2, <1>3, <1>4 DEF TypeOK, Using
  <2> QED
    BY <1>2, <1>3, <2>1 DEF TypeOK
<1>8. Pool'
  <2>1. FirstIsOpen' /\ Unused'
    BY <1>1, <1>2, <1>3 DEF Pool, FirstIsOpen, Unused, TypeOK
  <2>2. Lives'
    <3>1. \A y \in Txn : txConn[y] # None => txConn'[y] # None
      BY <1>2, <1>3, <1>4
    <3>2. \A u \in Task : TxnOf[u] # None => TxnOf[u] \in Txn
      BY TxnOfAssumption
    <3>3. \A u \in Task : phase'[u] = "beginning" => TxnOf[u] # None /\ txConn'[TxnOf[u]] # None
      BY <1>2, <1>3, <1>4, <3>1, <3>2 DEF Pool, Lives, x
    <3> QED
      BY <1>2, <1>3, <1>4, <3>1, <3>3 DEF Pool, Lives, x
  <2>3. QueueIsQueued'
    <3>1. \A k \in DOMAIN queue : phase[queue[k]] = "queued" /\ queue[k] \in Task
      BY <1>2 DEF Pool, QueueIsQueued, TypeOK
    <3>2. \A k \in DOMAIN queue : queue[k] # t
      BY <3>1
    <3> QED
      BY <1>2, <1>4, <3>1, <3>2 DEF Pool, QueueIsQueued
  <2> QED
    BY <2>1, <2>2, <2>3 DEF Pool
<1>9. Sure(c)' => ~Kept(c)
  BY <1>6 DEF Books, Out
<1>10. ASSUME NEW d \in Conn PROVE Sure(d)' => Books(d)'
  <2>1. CASE d # c
    <3>1. /\ \A u \in Task : conn'[u] = d => conn[u] = d /\ (phase'[u] = "handed" <=> phase[u] = "handed")
          /\ \A u \in Task : conn[u] = d => conn'[u] = d
      <4>1. d # None
        BY NoneAssumption
      <4> QED
        BY <1>3, <1>4, <1>5, <2>1, <4>1
    <3>2. \A y \in Txn : txConn'[y] = d => txConn[y] = d
      BY <1>3, <1>4, <2>1
    <3>3. Sure(d)' => \A u \in Task : conn[u] = d /\ phase[u] # "handed" /\ TxnOf[u] # None => ~Ended(TxnOf[u])'
      <4>1. \A u \in Task : TxnOf[u] # None => TxnOf[u] \in Txn
        BY TxnOfAssumption
      <4> QED
        BY <1>6, <4>1 DEF Books, Held
    <3>4. owner[d] \in Txn \cup {None} /\ (first = None \/ first' = first)
      BY <1>1, <1>2 DEF TypeOK
    <3> QED
      BY <1>4, <1>6, <2>1, <3>1, <3>2, <3>3, <3>4, BooksKept
  <2>2. CASE d = c
    <3> SUFFICES ASSUME Sure(c)' PROVE Books(c)'
      BY <2>2
    <3>1. \A u \in Task : conn'[u] = c => u = t
      BY <1>3, <1>4
    <3>2. db'[c] = "open"
      OBVIOUS
    <3>3. x = None => ~Kept(c)'
      <4>1. owner[c] \in Txn \cup {None}
        BY <1>2 DEF TypeOK
      <4> QED
        BY <1>3, <1>6, <1>9, <4>1 DEF Kept
    <3>4. Held(c)'
      BY <1>3, <1>6, <3>1, <3>2, <3>3 DEF Held, x
    <3>5. Together(c)'
      BY <3>1 DEF Together
    <3>6. Bound(c)'
      <4> SUFFICES ASSUME NEW y \in Txn, txConn'[y] = c, ~Ended(y)' PROVE owner'[c] = y
        BY DEF Bound
      <4>1. CASE y = x
        BY <1>2, <1>3, <4>1
      <4>2. CASE y # x
        <5>1. owner[c] = y
          BY <1>4, <1>6, <4>2 DEF Books, Bound
        <5>2. Kept(c)
          BY <1>2, <1>6, <5>1 DEF Kept
        <5> QED
          BY <1>9, <5>2
      <4> QED
        BY <4>1, <4>2
    <3>7. Out(c)' /\ Surplus(c)'
      BY <1>3, <3>2 DEF Out, Surplus
    <3> QED
      BY <3>4, <3>5, <3>6, <3>7 DEF Books
  <2> QED
    BY <2>1, <2>2
<1>11. OneEach'
  <2> SUFFICES ASSUME ~raced'
               PROVE  /\ \A u \in Task : conn'[u] # None /\ phase'[u] # "handed" /\ TxnOf[u] # None
                                         => txConn'[TxnOf[u]] = conn'[u]
                      /\ \A d \in Conn : Kept(d)' => txConn'[owner'[d]] = d
    BY DEF OneEach
  <2>1. ~raced /\ (x # None => txConn[x] = None)
    BY DEF Sticky, x
  <2>2. ASSUME NEW u \in Task, conn'[u] # None, phase'[u] # "handed", TxnOf[u] # None
        PROVE  txConn'[TxnOf[u]] = conn'[u]
    <3>1. TxnOf[u] \in Txn
      BY <2>2, TxnOfAssumption
    <3>2. CASE u = t
      BY <1>3, <2>2, <3>2 DEF x
    <3>3. CASE u # t
      <4>1. txConn[TxnOf[u]] = conn[u] /\ conn[u] # None
        BY <1>4, <2>1, <2>2, <3>3 DEF IInv, OneEach
      <4>2. TxnOf[u] # x
        BY <1>2, <2>1, <3>1, <4>1
      <4> QED
        BY <1>4, <3>1, <3>3, <4>1, <4>2
    <3> QED
      BY <3>2, <3>3
  <2>3. ASSUME NEW d \in Conn, Kept(d)' PROVE txConn'[owner'[d]] = d
    <3>1. owner[d] \in Txn \cup {None}
      BY <1>2 DEF TypeOK
    <3>2. CASE d = c
      <4>1. Sure(c)'
        BY DEF Sure
      <4>2. x # None
        BY <1>3, <1>6, <1>9, <2>3, <3>1, <3>2, <4>1 DEF Kept
      <4> QED
        BY <1>3, <3>2, <4>2
    <3>3. CASE d # c
      <4>1. Kept(d) /\ owner'[d] = owner[d] /\ owner[d] \in Txn
        BY <1>4, <1>6, <2>3, <3>1, <3>3 DEF Kept
      <4>2. txConn[owner[d]] = d /\ d # None
        BY <2>1, <4>1, NoneAssumption DEF IInv, OneEach
      <4>3. owner[d] # x
        BY <1>2, <2>1, <4>1, <4>2
      <4> QED
        BY <1>4, <4>1, <4>2, <4>3
    <3> QED
      BY <3>2, <3>3
  <2> QED
    BY <2>2, <2>3
<1>12. Counted'
  <2> SUFFICES ASSUME ~raced' PROVE IsFiniteSet(InHands') /\ active' = Cardinality(InHands')
    BY DEF Counted
  <2>1. Sure(c)' /\ ~raced
    BY DEF Sure
  <2>2. c \notin InHands /\ InHands' = InHands \cup {c}
    BY <1>3, <1>4, <2>1 DEF InHands
  <2> QED
    BY <1>1, <2>1, <2>2, CountIn DEF IInv, Counted
<1>13. NoLeak'
  <2> SUFFICES ASSUME ~raced', NEW d \in InHands' PROVE Holders(d)' # {} \/ Kept(d)'
    BY DEF NoLeak
  <2>1. CASE d = c
    BY <1>3, <2>1 DEF Holders
  <2>2. CASE d # c
    <3>1. d \in InHands /\ d \in Conn
      BY <1>4, <2>2 DEF InHands
    <3>2. Holders(d) # {} \/ Kept(d)
      BY <3>1 DEF IInv, NoLeak
    <3>3. Holders(d) \subseteq Holders(d)'
      BY <1>2, <1>4, <1>5, <2>2, <3>1, NoneAssumption DEF Holders
    <3>4. owner[d] \in Txn \cup {None}
      BY <1>2, <3>1 DEF TypeOK
    <3> QED
      BY <1>4, <1>6, <2>2, <3>1, <3>2, <3>3, <3>4 DEF Kept
  <2> QED
    BY <2>1, <2>2
<1> QED
  BY <1>7, <1>8, <1>10, <1>11, <1>12, <1>13 DEF IInv

-----------------------------------------------------------------------------
(* release()                                                               *)

\* c, which was out and which nobody has or keeps any longer (as far as its
\* books are sure afterwards), goes to the first waiter, or back to the pool.
LEMMA GiveBackInv ==
  ASSUME IInv, NEW c \in Conn, NEW ph, NEW cn, CountDown(c), Handover(c, ph, cn),
         owner' = owner, first' = first, txConn' = txConn, raced' \in BOOLEAN, raced => raced',
         first # None,
         ph \in [Task -> Using \cup {"idle", "queued"}], cn \in [Task -> Conn \cup {None}],
         \A u \in Task : \/ ph[u] = phase[u] /\ cn[u] = conn[u]
                         \/ conn[u] = c /\ ph[u] = "idle" /\ cn[u] = None,
         txState' \in [Txn -> {"open", "ending", "failed", "ended", "abandoned"}],
         \A y \in Txn : Ended(y) => Ended(y)', NoFailure' => NoFailure,
         \A y \in Txn : txState'[y] # "open" => txConn[y] # None,
         \A u \in Task : TxnOf[u] # None /\ ph[u] # "idle" => txState'[TxnOf[u]] # "ended",
         Sure(c)' => /\ db[c] = "open" /\ ~released[c] /\ ~Kept(c)'
                     /\ \A u \in Task : cn[u] # c,
         \A d \in Conn : d # c /\ Sure(d)' =>
             \A u \in Task : conn[u] = d /\ phase[u] # "handed" /\ TxnOf[u] # None => ~Ended(TxnOf[u])',
         ~raced' => \A d \in Conn : d # c /\ Kept(d) => Kept(d)'
  PROVE  IInv'
<1>1. TypeOK /\ Pool /\ c # None
  BY NoneAssumption DEF IInv
<1>2. /\ active' = active - 1 /\ released' = [released EXCEPT ![c] = TRUE]
      /\ active' \in Int /\ released' \in [Conn -> BOOLEAN] /\ released'[c]
      /\ \A d \in Conn : d # c => released'[d] = released[d]
  BY <1>1 DEF CountDown, TypeOK
<1>3. \/ /\ queue # <<>>
         /\ phase' = [ph EXCEPT ![Head(queue)] = "handed"]
         /\ conn' = [cn EXCEPT ![Head(queue)] = c]
         /\ queue' = Tail(queue) /\ db' = db
      \/ /\ queue = <<>> /\ queue' = queue /\ phase' = ph /\ conn' = cn
         /\ db' = [db EXCEPT ![c] = IF c = first THEN db[c] ELSE "closed"]
  BY DEF Handover
<1>4. queue # <<>> =>
         /\ Head(queue) \in Task /\ phase[Head(queue)] = "queued" /\ conn[Head(queue)] = None
         /\ ph[Head(queue)] = "queued" /\ cn[Head(queue)] = None
  <2> SUFFICES ASSUME queue # <<>>
               PROVE  /\ Head(queue) \in Task /\ phase[Head(queue)] = "queued" /\ conn[Head(queue)] = None
                      /\ ph[Head(queue)] = "queued" /\ cn[Head(queue)] = None
    OBVIOUS
  <2>1. Head(queue) \in Task /\ Head(queue) = queue[1] /\ 1 \in DOMAIN queue
    BY <1>1, TailIs DEF TypeOK, Pool, QueueIsQueued
  <2>2. phase[Head(queue)] = "queued"
    BY <1>1, <2>1 DEF Pool, QueueIsQueued
  <2>3. conn[Head(queue)] = None
    BY <1>1, <2>1, <2>2 DEF TypeOK, Using
  <2> QED
    BY <1>1, <2>1, <2>2, <2>3
<1>5. \A u \in Task :
         \/ phase'[u] = ph[u] /\ conn'[u] = cn[u] /\ (queue # <<>> => u # Head(queue))
         \/ /\ queue # <<>> /\ u = Head(queue) /\ phase[u] = "queued" /\ conn[u] = None
            /\ phase'[u] = "handed" /\ conn'[u] = c
  BY <1>3, <1>4
<1>6. /\ phase' \in [Task -> Using \cup {"idle", "queued"}]
      /\ conn' \in [Task -> Conn \cup {None}]
      /\ db' \in [Conn -> {"none", "open", "closed"}]
      /\ \A d \in Conn : d # c => db'[d] = db[d]
      /\ c = first => db'[c] = db[c]
      /\ queue # <<>> => db' = db /\ conn'[Head(queue)] = c
      /\ queue = <<>> /\ c # first => db'[c] = "closed"
  <2>1. CASE queue # <<>>
    BY <1>1, <1>3, <1>4, <2>1 DEF TypeOK, Using
  <2>2. CASE queue = <<>>
    <3>1. /\ phase' = ph /\ conn' = cn
          /\ db' = [db EXCEPT ![c] = IF c = first THEN db[c] ELSE "closed"]
      BY <1>3, <2>2
    <3> QED
      BY <1>1, <2>2, <3>1 DEF TypeOK
  <2> QED
    BY <2>1, <2>2
<1>7. \A d \in Conn : (Sure(d)' => Sure(d)) /\ (Sure(d) => Books(d))
  BY SureBefore DEF IInv
<1>8. TypeOK'
  <2>1. queue' \in Seq(Task)
    <3>1. queue \in Seq(Task) /\ Distinct(queue)
      BY <1>1 DEF TypeOK, Pool, QueueIsQueued
    <3>2. queue # <<>> => Tail(queue) \in Seq(Task)
      BY <3>1, TailIs
    <3> QED
      BY <1>3, <3>1, <3>2
  <2>2. \A u \in Task : conn'[u] # None <=> phase'[u] \in Using
    BY <1>1, <1>5 DEF TypeOK, Using
  <2> QED
    BY <1>1, <1>2, <1>6, <2>1, <2>2 DEF TypeOK
<1>9. Pool'
  <2>1. FirstIsOpen' /\ Unused'
    BY <1>1, <1>6 DEF Pool, FirstIsOpen, Unused, TypeOK
  <2>2. Lives'
    <3>1. \A u \in Task : TxnOf[u] # None /\ phase'[u] # "idle" => txState'[TxnOf[u]] # "ended"
      BY <1>4, <1>5
    <3>2. \A u \in Task : phase'[u] = "beginning" => TxnOf[u] # None /\ txConn'[TxnOf[u]] # None
      BY <1>1, <1>5 DEF Pool, Lives
    <3> QED
      BY <3>1, <3>2 DEF Lives
  <2>3. QueueIsQueued'
    <3>1. CASE queue # <<>>
      <4>1. /\ Distinct(queue') /\ queue \in Seq(Task)
            /\ \A k \in DOMAIN queue' : /\ k + 1 \in DOMAIN queue /\ queue'[k] = queue[k + 1]
                                         /\ queue'[k] # Head(queue)
        <5>1. queue \in Seq(Task) /\ Distinct(queue) /\ queue' = Tail(queue)
          BY <1>1, <1>3, <3>1 DEF TypeOK, Pool, QueueIsQueued
        <5> QED
          BY <3>1, <5>1, TailIs
      <4>2. \A k \in DOMAIN queue' : queue'[k] \in Task /\ phase[queue'[k]] = "queued"
        BY <1>1, <4>1 DEF Pool, QueueIsQueued
      <4>3. \A k \in DOMAIN queue' : phase'[queue'[k]] = "queued"
        BY <1>1, <1>5, <4>1, <4>2 DEF TypeOK, Using
      <4> QED
        BY <4>1, <4>3 DEF QueueIsQueued
    <3>2. CASE queue = <<>>
      <4>1. queue' = queue /\ DOMAIN queue = {}
        BY <1>3, <3>2
      <4> QED
        BY <4>1 DEF QueueIsQueued, Distinct
    <3> QED
      BY <3>1, <3>2
  <2> QED
    BY <2>1, <2>2, <2>3 DEF Pool
<1>10. ASSUME NEW d \in Conn PROVE Sure(d)' => Books(d)'
  <2>1. CASE d # c
    <3>1. d # None
      BY NoneAssumption
    <3>2. /\ \A u \in Task : conn'[u] = d => conn[u] = d /\ (phase'[u] = "handed" <=> phase[u] = "handed")
          /\ \A u \in Task : conn[u] = d => conn'[u] = d
      BY <1>5, <2>1, <3>1
    <3>3. owner[d] \in Txn \cup {None}
      BY <1>1 DEF TypeOK
    <3> QED
      BY <1>2, <1>6, <1>7, <2>1, <3>2, <3>3, BooksKept
  <2>2. CASE d = c
    <3> SUFFICES ASSUME Sure(c)' PROVE Books(c)'
      BY <2>2
    <3>1. \A u \in Task : conn'[u] = c => queue # <<>> /\ u = Head(queue) /\ phase'[u] = "handed"
      BY <1>5
    <3>2. queue # <<>> => db'[c] = "open"
      BY <1>6
    <3>3. Held(c)'
      BY <1>2, <3>1, <3>2 DEF Held
    <3>4. Together(c)'
      BY <3>1 DEF Together
    <3>5. Bound(c)'
      <4> SUFFICES ASSUME NEW y \in Txn, txConn[y] = c, ~Ended(y)' PROVE FALSE
        BY DEF Bound
      <4>1. owner[c] = y /\ y # None
        BY <1>7, NoneAssumption DEF Books, Bound
      <4> QED
        BY <4>1 DEF Kept
    <3>6. Out(c)'
      BY DEF Out
    <3>7. Surplus(c)'
      BY <1>4, <1>6 DEF Surplus, Holders
    <3> QED
      BY <3>3, <3>4, <3>5, <3>6, <3>7 DEF Books
  <2> QED
    BY <2>1, <2>2
<1>11. OneEach'
  <2> SUFFICES ASSUME ~raced'
               PROVE  /\ \A u \in Task : conn'[u] # None /\ phase'[u] # "handed" /\ TxnOf[u] # None
                                         => txConn[TxnOf[u]] = conn'[u]
                      /\ \A d \in Conn : Kept(d)' => txConn[owner[d]] = d
    BY DEF OneEach
  <2>1. ASSUME NEW u \in Task, conn'[u] # None, phase'[u] # "handed", TxnOf[u] # None
        PROVE  txConn[TxnOf[u]] = conn'[u]
    <3>1. conn'[u] = conn[u] /\ phase'[u] = phase[u]
      BY <1>5, <2>1
    <3> QED
      BY <2>1, <3>1 DEF IInv, OneEach
  <2>2. ASSUME NEW d \in Conn, Kept(d)' PROVE txConn[owner[d]] = d
    <3>1. Kept(d)
      BY <1>1, <2>2 DEF Kept, TypeOK
    <3> QED
      BY <3>1 DEF IInv, OneEach
  <2> QED
    BY <2>1, <2>2
<1>12. Counted'
  <2> SUFFICES ASSUME ~raced' PROVE IsFiniteSet(InHands') /\ active' = Cardinality(InHands')
    BY DEF Counted
  <2>1. Sure(c)' /\ ~raced
    BY DEF Sure
  <2>2. c \in InHands /\ InHands' = InHands \ {c}
    BY <1>2, <1>6, <2>1 DEF InHands
  <2> QED
    BY <1>2, <2>1, <2>2, CountOut DEF IInv, Counted
<1>13. NoLeak'
  <2> SUFFICES ASSUME ~raced', NEW d \in InHands' PROVE Holders(d)' # {} \/ Kept(d)'
    BY DEF NoLeak
  <2>1. d \in InHands /\ d \in Conn /\ d # c /\ d # None
    BY <1>2, <1>6, NoneAssumption DEF InHands
  <2>2. Holders(d) # {} \/ Kept(d)
    BY <2>1 DEF IInv, NoLeak
  <2>3. Holders(d) \subseteq Holders(d)'
    BY <1>5, <2>1 DEF Holders
  <2> QED
    BY <2>1, <2>2, <2>3
<1> QED
  BY <1>8, <1>9, <1>10, <1>11, <1>12, <1>13 DEF IInv

-----------------------------------------------------------------------------
(* Steps that take nothing out of the pool and bring nothing back          *)

\* A call may leave a connection that its transaction keeps.
LEMMA SameHands ==
  ASSUME IInv, UNCHANGED <<connVars, active, first, txConn, raced>>, Pool',
         queue' \in Seq(Task),
         phase' \in [Task -> Using \cup {"idle", "queued"}], conn' \in [Task -> Conn \cup {None}],
         txState' \in [Txn -> {"open", "ending", "failed", "ended", "abandoned"}],
         \A u \in Task : conn'[u] # None <=> phase'[u] \in Using,
         \A u \in Task : \/ conn'[u] = conn[u] /\ (phase'[u] = "handed" <=> phase[u] = "handed")
                         \/ conn'[u] = None /\ conn[u] \in Conn /\ Kept(conn[u]),
         \A y \in Txn : Ended(y) => Ended(y)', NoFailure' => NoFailure,
         \A d \in Conn : Sure(d)' =>
             \A u \in Task : conn[u] = d /\ phase[u] # "handed" /\ TxnOf[u] # None => ~Ended(TxnOf[u])',
         ~raced => \A d \in Conn : Kept(d) => Kept(d)'
  PROVE  IInv'
<1>1. TypeOK /\ db' = db /\ released' = released /\ owner' = owner /\ active' = active /\ first' = first
      /\ txConn' = txConn /\ raced' = raced
  BY DEF connVars, IInv
<1>2. TypeOK'
  BY <1>1 DEF TypeOK
<1>3. ASSUME NEW d \in Conn PROVE Sure(d)' => Books(d)'
  <2>1. Sure(d)' => Sure(d)
    BY <1>1, SureBefore
  <2>2. Sure(d) => Books(d)
    BY DEF IInv
  <2>3. owner[d] \in Txn \cup {None} /\ d # None
    BY <1>1, NoneAssumption DEF TypeOK
  <2>4. \A u \in Task : conn'[u] = d => conn[u] = d /\ (phase'[u] = "handed" <=> phase[u] = "handed")
    BY <2>3
  <2>5. Kept(d) \/ \A u \in Task : conn[u] = d => conn'[u] = d
    OBVIOUS
  <2> QED
    BY <1>1, <2>1, <2>2, <2>3, <2>4, <2>5, BooksKept
<1>4. OneEach'
  <2> SUFFICES ASSUME ~raced
               PROVE  /\ \A u \in Task : conn'[u] # None /\ phase'[u] # "handed" /\ TxnOf[u] # None
                                         => txConn[TxnOf[u]] = conn'[u]
                      /\ \A d \in Conn : Kept(d)' => txConn[owner[d]] = d
    BY <1>1 DEF OneEach
  <2>1. \A d \in Conn : Kept(d)' => Kept(d)
    BY <1>1 DEF Kept, TypeOK
  <2> QED
    BY <2>1 DEF IInv, OneEach
<1>5. InHands' = InHands
  BY <1>1 DEF InHands
<1>6. Counted'
  BY <1>1, <1>5 DEF IInv, Counted
<1>7. NoLeak'
  <2> SUFFICES ASSUME ~raced, NEW d \in InHands PROVE Holders(d)' # {} \/ Kept(d)'
    BY <1>1, <1>5 DEF NoLeak
  <2>1. d \in Conn /\ (Kept(d) => Kept(d)')
    BY DEF InHands
  <2>2. Holders(d) # {} \/ Kept(d)
    BY DEF IInv, NoLeak
  <2>3. ~Kept(d) => Holders(d) \subseteq Holders(d)'
    BY DEF Holders
  <2> QED
    BY <2>1, <2>2, <2>3
<1> QED
  BY <1>2, <1>3, <1>4, <1>6, <1>7 DEF IInv

\* A further call of a transaction, to the connection the transaction has.
LEMMA GetStickyInv ==
  ASSUME IInv, NEW t \in Task, GetSticky(t)
  PROVE  IInv'
<1> DEFINE x == TxnOf[t]
<1>0. PICK c \in Conn : c = txConn[x]
  BY TxnOfAssumption DEF IInv, GetSticky, Sticky, TypeOK
<1>1. TypeOK /\ Pool /\ x \in Txn /\ c \in Conn /\ None \notin Conn
  BY TxnOfAssumption, NoneAssumption DEF IInv, GetSticky, Sticky
<1>2. /\ db' = db /\ released' = released /\ owner' = owner /\ active' = active /\ first' = first
      /\ queue' = queue /\ txConn' = txConn /\ txState' = txState
      /\ raced' = (raced \/ Ended(x))
      /\ phase[t] = "idle" /\ txState[x] \in {"open", "failed"}
      /\ phase' = [phase EXCEPT ![t] = "holding"] /\ conn' = [conn EXCEPT ![t] = c]
  BY <1>0 DEF GetSticky, connVars, poolVars, txVars
<1>3. /\ phase' \in [Task -> Using \cup {"idle", "queued"}] /\ conn' \in [Task -> Conn \cup {None}]
      /\ phase'[t] = "holding" /\ conn'[t] = c /\ conn[t] = None
      /\ \A u \in Task : u # t => phase'[u] = phase[u] /\ conn'[u] = conn[u]
  BY <1>1, <1>2 DEF TypeOK, Using
<1>4. TypeOK'
  <2>1. \A u \in Task : conn'[u] # None <=> phase'[u] \in Using
    BY <1>1, <1>3 DEF TypeOK, Using
  <2> QED
    BY <1>1, <1>2, <1>3, <2>1 DEF TypeOK
<1>5. Pool'
  <2>1. FirstIsOpen' /\ Unused'
    BY <1>0, <1>1, <1>2 DEF Pool, FirstIsOpen, Unused
  <2>2. Lives'
    BY <1>1, <1>2, <1>3 DEF Pool, Lives
  <2>3. QueueIsQueued'
    <3>1. \A k \in DOMAIN queue : queue[k] \in Task /\ queue[k] # t
      BY <1>1, <1>2 DEF Pool, QueueIsQueued, TypeOK
    <3> QED
      BY <1>1, <1>2, <1>3, <3>1 DEF Pool, QueueIsQueued
  <2> QED
    BY <2>1, <2>2, <2>3 DEF Pool
<1>6. /\ \A y \in Txn : Ended(y)' = Ended(y)
      /\ \A d \in Conn : Kept(d)' = Kept(d) /\ (Sure(d)' => Sure(d)) /\ (Sure(d) => Books(d))
  <2>1. \A y \in Txn : Ended(y)' = Ended(y)
    BY <1>2 DEF Ended
  <2>2. \A d \in Conn : Kept(d)' = Kept(d)
    BY <1>1, <1>2, <2>1 DEF Kept, TypeOK
  <2>3. NoFailure' = NoFailure
    BY <1>2 DEF NoFailure
  <2> QED
    BY <1>2, <2>1, <2>2, <2>3, SureBefore DEF IInv
<1>7. ASSUME NEW d \in Conn PROVE Sure(d)' => Books(d)'
  <2>1. CASE d # c
    <3>1. /\ \A u \in Task : conn'[u] = d => conn[u] = d /\ (phase'[u] = "handed" <=> phase[u] = "handed")
          /\ \A u \in Task : conn[u] = d => conn'[u] = d
      BY <1>1, <1>3, <2>1
    <3>2. Sure(d)' => \A u \in Task : conn[u] = d /\ phase[u] # "handed" /\ TxnOf[u] # None => ~Ended(TxnOf[u])'
      <4>1. \A u \in Task : TxnOf[u] # None => TxnOf[u] \in Txn
        BY TxnOfAssumption
      <4> QED
        BY <1>6, <4>1 DEF Books, Held
    <3>3. owner[d] \in Txn \cup {None}
      BY <1>1 DEF TypeOK
    <3> QED
      BY <1>2, <1>6, <3>1, <3>2, <3>3, BooksKept
  <2>2. CASE d = c
    <3> SUFFICES ASSUME Sure(c)' PROVE Books(c)'
      BY <2>2
    <3>1. Held(c) /\ Together(c) /\ Bound(c) /\ Out(c)
      BY <1>1, <1>6 DEF Books
    <3>2. ~Ended(x)
      BY <1>1, <1>2 DEF Sure, NoFailure, Ended
    <3>3. owner[c] = x /\ Kept(c)
      BY <1>0, <1>1, <3>1, <3>2, NoneAssumption DEF Bound, Kept
    <3>4. db[c] = "open" /\ ~released[c]
      BY <3>1, <3>3 DEF Out
    <3>5. \A u \in Task : conn[u] = c => TxnOf[u] # None /\ phase[u] # "handed"
      BY <3>1, <3>3, <3>4 DEF Held
    <3>6. Held(c)'
      <4> SUFFICES ASSUME NEW u \in Task, conn'[u] = c
                   PROVE  /\ db[c] = "open" /\ ~released[c] /\ phase'[u] # "handed" /\ TxnOf[u] # None
                          /\ owner[c] = TxnOf[u] /\ ~Ended(TxnOf[u])'
        BY <1>2 DEF Held
      <4>1. CASE u = t
        BY <1>1, <1>3, <1>6, <3>2, <3>3, <3>4, <4>1, NoneAssumption
      <4>2. CASE u # t
        <5>1. conn[u] = c /\ phase'[u] = phase[u]
          BY <1>3, <4>2
        <5>2. TxnOf[u] # None /\ phase[u] # "handed" /\ owner[c] = TxnOf[u]
          BY <3>1, <3>5, <5>1 DEF Held
        <5> QED
          BY <1>1, <1>6, <3>2, <3>3, <3>4, <5>1, <5>2
      <4> QED
        BY <4>1, <4>2
    <3>7. Together(c)'
      <4>1. \A u \in Task : conn'[u] = c => TxnOf[u] # None /\ phase'[u] # "handed"
        BY <1>1, <1>3, <3>5, NoneAssumption
      <4> QED
        BY <4>1 DEF Together
    <3>8. Bound(c)'
      BY <1>2, <1>6, <3>1 DEF Bound
    <3>9. Out(c)' /\ Surplus(c)'
      BY <1>2, <3>4 DEF Out, Surplus
    <3> QED
      BY <3>6, <3>7, <3>8, <3>9 DEF Books
  <2> QED
    BY <2>1, <2>2
<1>8. OneEach'
  <2> SUFFICES ASSUME ~raced
               PROVE  /\ \A u \in Task : conn'[u] # None /\ phase'[u] # "handed" /\ TxnOf[u] # None
                                         => txConn[TxnOf[u]] = conn'[u]
                      /\ \A d \in Conn : Kept(d)' => txConn[owner[d]] = d
    BY <1>2 DEF OneEach
  <2>1. \A u \in Task : conn'[u] # None /\ phase'[u] # "handed" /\ TxnOf[u] # None
                         => txConn[TxnOf[u]] = conn'[u]
    BY <1>0, <1>3 DEF IInv, OneEach
  <2> QED
    BY <1>6, <2>1 DEF IInv, OneEach
<1>9. InHands' = InHands
  BY <1>2 DEF InHands
<1>10. Counted'
  BY <1>2, <1>9 DEF IInv, Counted
<1>11. NoLeak'
  <2> SUFFICES ASSUME ~raced, NEW d \in InHands PROVE Holders(d)' # {} \/ Kept(d)'
    BY <1>2, <1>9 DEF NoLeak
  <2>1. d \in Conn /\ d # None
    BY NoneAssumption DEF InHands
  <2>2. Holders(d) \subseteq Holders(d)'
    BY <1>3, <2>1 DEF Holders
  <2> QED
    BY <1>6, <2>1, <2>2 DEF IInv, NoLeak
<1> QED
  BY <1>4, <1>5, <1>7, <1>8, <1>10, <1>11 DEF IInv

\* The first connection again.
LEMMA GetFirstInv ==
  ASSUME IInv, NEW t \in Task, GetFirst(t)
  PROVE  IInv'
<1>0. PICK c \in Conn : c = first
  BY DEF GetFirst, FirstIsFree, IInv, TypeOK
<1>1. /\ Take(t, c) /\ phase[t] = "idle" /\ ~Sticky(t) /\ first # None /\ released[c]
      /\ (TxnOf[t] # None => txState[TxnOf[t]] = "open")
      /\ raced' = (raced \/ Holders(c) # {})
      /\ db' = db /\ queue' = queue /\ txState' = txState
  BY <1>0 DEF GetFirst, MayAsk, FirstIsFree
<1>2. TypeOK /\ db[c] = "open" /\ db \in [Conn -> {"none", "open", "closed"}]
  BY <1>0, <1>1 DEF IInv, TypeOK, Pool, FirstIsOpen
<1>3. Sure(c)' => Holders(c) = {}
  BY <1>0, <1>1 DEF Sure, Take
<1>4. Sure(c)' => \A u \in Task : conn[u] = c => u = t
  BY <1>3 DEF Holders
<1>5. raced' \in BOOLEAN /\ (raced => raced')
  BY <1>1, <1>2 DEF TypeOK
<1>6. TxnOf[t] # None => txState[TxnOf[t]] # "ended" /\ ~Ended(TxnOf[t])
  BY <1>1 DEF Ended
<1> QED
  BY <1>1, <1>2, <1>4, <1>5, <1>6, TakeInv

\* A new one, as long as there are few.
LEMMA GetNewInv ==
  ASSUME IInv, NEW t \in Task, GetNew(t)
  PROVE  IInv'
<1>1. PICK c \in Conn : Unreferenced(c) /\ db' = [db EXCEPT ![c] = "open"] /\ Take(t, c)
  BY DEF GetNew
<1>2. /\ phase[t] = "idle" /\ ~Sticky(t) /\ (TxnOf[t] # None => txState[TxnOf[t]] = "open")
      /\ queue' = queue /\ txState' = txState /\ raced' = raced
  BY DEF GetNew, MayAsk
<1>3. TypeOK
  BY DEF IInv
<1>4. /\ db' \in [Conn -> {"none", "open", "closed"}] /\ db'[c] = "open"
      /\ \A d \in Conn : d # c => db'[d] = db[d]
      /\ raced' \in BOOLEAN
  BY <1>1, <1>2, <1>3 DEF TypeOK
<1>5. db[c] # "open" /\ \A u \in Task : conn[u] = c => u = t
  BY <1>1 DEF Unreferenced, Holders
<1>6. TxnOf[t] # None => txState[TxnOf[t]] # "ended" /\ ~Ended(TxnOf[t])
  BY <1>2 DEF Ended
<1> QED
  BY <1>1, <1>2, <1>4, <1>5, <1>6, TakeInv

\* What a waiter was handed is still marked as released, and nobody has it
\* but the waiter.
LEMMA ResumeInv ==
  ASSUME IInv, NEW t \in Task, Resume(t)
  PROVE  IInv'
<1>0. PICK c \in Conn : c = conn[t]
  BY DEF Resume, IInv, TypeOK, Using
<1>1. /\ phase[t] = "handed" /\ Take(t, c) /\ raced' = (raced \/ Sticky(t))
      /\ db' = db /\ queue' = queue /\ txState' = txState
  BY <1>0 DEF Resume
<1>2. TypeOK /\ Pool /\ conn[t] = c /\ first # None
  BY <1>0, <1>1, NoneAssumption DEF IInv, Pool, Unused
<1>3. db \in [Conn -> {"none", "open", "closed"}] /\ raced' \in BOOLEAN
  BY <1>1, <1>2 DEF TypeOK, Sticky
<1>4. Sure(c)' => db[c] = "open" /\ released[c] /\ \A u \in Task : conn[u] = c => u = t
  <2>1. Sure(c)' => Sure(c)
    BY <1>1, <1>2 DEF Sure, NoFailure, Take
  <2> QED
    BY <1>1, <1>2, <2>1 DEF IInv, Books, Held, Together
<1>5. TxnOf[t] # None => txState[TxnOf[t]] # "ended"
  BY <1>1, <1>2 DEF Pool, Lives
<1>6. TxnOf[t] # None /\ Sure(c)' => ~Ended(TxnOf[t])
  <2> SUFFICES ASSUME TxnOf[t] # None, Sure(c)' PROVE txState[TxnOf[t]] # "failed"
    BY <1>5 DEF Ended
  <2>1. TxnOf[t] \in Txn
    BY TxnOfAssumption
  <2>2. CASE ~raced'
    BY <1>1, <1>2, <2>1, <2>2 DEF Sticky, Pool, Lives
  <2>3. CASE NoFailure'
    BY <1>1, <2>1, <2>3 DEF NoFailure
  <2> QED
    BY <2>2, <2>3 DEF Sure
<1> QED
  BY <1>1, <1>2, <1>3, <1>4, <1>5, <1>6, TakeInv

LEMMA WaitInv ==
  ASSUME IInv, NEW t \in Task, Wait(t)
  PROVE  IInv'
<1>1. /\ phase[t] = "idle" /\ (TxnOf[t] # None => txState[TxnOf[t]] = "open")
      /\ queue' = Append(queue, t) /\ phase' = [phase EXCEPT ![t] = "queued"]
      /\ UNCHANGED <<connVars, active, first, txConn, raced>> /\ conn' = conn /\ txState' = txState
      /\ txConn' = txConn /\ db' = db /\ first' = first /\ owner' = owner
  BY DEF Wait, MayAsk, txVars, connVars
<1>2. TypeOK /\ Pool /\ queue \in Seq(Task) /\ Distinct(queue)
  BY DEF IInv, TypeOK, Pool, QueueIsQueued
<1>3. \A k \in DOMAIN queue : queue[k] \in Task /\ phase[queue[k]] = "queued" /\ queue[k] # t
  BY <1>1, <1>2 DEF Pool, QueueIsQueued, TypeOK
<1>4. /\ queue' \in Seq(Task) /\ Distinct(queue')
      /\ \A k \in DOMAIN queue' : queue'[k] = t \/ \E j \in DOMAIN queue : queue'[k] = queue[j]
  BY <1>1, <1>2, <1>3, PushKeeps
<1>5. /\ phase' \in [Task -> Using \cup {"idle", "queued"}] /\ phase'[t] = "queued"
      /\ \A u \in Task : u # t => phase'[u] = phase[u]
      /\ conn[t] = None
  BY <1>1, <1>2 DEF TypeOK, Using
<1>6. Pool'
  <2>1. FirstIsOpen' /\ Unused'
    BY <1>1, <1>2 DEF Pool, FirstIsOpen, Unused
  <2>2. Lives'
    BY <1>1, <1>2, <1>5 DEF Pool, Lives
  <2>3. QueueIsQueued'
    BY <1>3, <1>4, <1>5 DEF QueueIsQueued
  <2> QED
    BY <2>1, <2>2, <2>3 DEF Pool
<1>7. \A y \in Txn : Ended(y)' = Ended(y)
  BY <1>1 DEF Ended
<1>8. NoFailure' = NoFailure /\ \A d \in Conn : Sure(d)' = Sure(d)
  BY <1>1 DEF NoFailure, Sure
<1>9. \A d \in Conn : Sure(d)' =>
         \A u \in Task : conn[u] = d /\ phase[u] # "handed" /\ TxnOf[u] # None => ~Ended(TxnOf[u])'
  BY <1>7, <1>8, TxnOfAssumption DEF IInv, Books, Held
<1>10. \A d \in Conn : Kept(d) => Kept(d)'
  BY <1>1, <1>2, <1>7 DEF Kept, TypeOK
<1>11. /\ \A u \in Task : conn'[u] # None <=> phase'[u] \in Using
       /\ \A u \in Task : conn'[u] = conn[u] /\ (phase'[u] = "handed" <=> phase[u] = "handed")
       /\ conn' \in [Task -> Conn \cup {None}]
  BY <1>1, <1>2, <1>5 DEF TypeOK, Using
<1>12. txState' \in [Txn -> {"open", "ending", "failed", "ended", "abandoned"}]
  BY <1>1, <1>2 DEF TypeOK
<1> QED
  BY <1>1, <1>4, <1>5, <1>6, <1>7, <1>8, <1>9, <1>10, <1>11, <1>12, SameHands

\* BEGIN came back.
LEMMA BegunInv ==
  ASSUME IInv, NEW t \in Task, Begun(t)
  PROVE  IInv'
<1>1. /\ phase[t] = "beginning" /\ phase' = [phase EXCEPT ![t] = "holding"]
      /\ UNCHANGED <<connVars, active, first, txConn, raced>> /\ conn' = conn /\ txState' = txState
      /\ txConn' = txConn /\ db' = db /\ first' = first /\ owner' = owner /\ queue' = queue
  BY DEF Begun, txVars, connVars, poolVars
<1>2. TypeOK /\ Pool
  BY DEF IInv
<1>3. /\ phase' \in [Task -> Using \cup {"idle", "queued"}] /\ phase'[t] = "holding"
      /\ \A u \in Task : u # t => phase'[u] = phase[u]
  BY <1>1, <1>2 DEF TypeOK, Using
<1>4. Pool'
  <2>1. FirstIsOpen' /\ Unused'
    BY <1>1, <1>2 DEF Pool, FirstIsOpen, Unused
  <2>2. Lives'
    BY <1>1, <1>2, <1>3 DEF Pool, Lives
  <2>3. QueueIsQueued'
    <3>1. \A k \in DOMAIN queue : queue[k] \in Task /\ phase[queue[k]] = "queued" /\ queue[k] # t
      BY <1>1, <1>2 DEF Pool, QueueIsQueued, TypeOK
    <3> QED
      BY <1>1, <1>2, <1>3, <3>1 DEF Pool, QueueIsQueued
  <2> QED
    BY <2>1, <2>2, <2>3 DEF Pool
<1>5. \A y \in Txn : Ended(y)' = Ended(y)
  BY <1>1 DEF Ended
<1>6. NoFailure' = NoFailure /\ \A d \in Conn : Sure(d)' = Sure(d)
  BY <1>1 DEF NoFailure, Sure
<1>7. \A d \in Conn : Sure(d)' =>
         \A u \in Task : conn[u] = d /\ phase[u] # "handed" /\ TxnOf[u] # None => ~Ended(TxnOf[u])'
  BY <1>5, <1>6, TxnOfAssumption DEF IInv, Books, Held
<1>8. \A d \in Conn : Kept(d) => Kept(d)'
  BY <1>1, <1>2, <1>5 DEF Kept, TypeOK
<1>9. /\ \A u \in Task : conn'[u] # None <=> phase'[u] \in Using
      /\ \A u \in Task : conn'[u] = conn[u] /\ (phase'[u] = "handed" <=> phase[u] = "handed")
      /\ conn' \in [Task -> Conn \cup {None}]
  BY <1>1, <1>2, <1>3 DEF TypeOK, Using
<1>10. /\ txState' \in [Txn -> {"open", "ending", "failed", "ended", "abandoned"}]
       /\ queue' \in Seq(Task)
  BY <1>1, <1>2 DEF TypeOK
<1> QED
  BY <1>1, <1>3, <1>4, <1>5, <1>6, <1>7, <1>8, <1>9, <1>10, SameHands

\* A query of a transaction leaves the connection with the transaction;
\* everybody else brings it back, alone with it.
LEMMA ReleaseInv ==
  ASSUME IInv, NEW t \in Task, Release(t)
  PROVE  IInv'
<1> DEFINE ph == [phase EXCEPT ![t] = "idle"]
           cn == [conn EXCEPT ![t] = None]
<1>0. PICK c \in Conn : c = conn[t]
  BY DEF Release, IInv, TypeOK, Using
<1>1. /\ phase[t] = "holding" /\ owner' = owner /\ first' = first /\ raced' = raced
      /\ txConn' = txConn /\ txState' = txState
      /\ IF Kept(c) THEN phase' = ph /\ conn' = cn /\ UNCHANGED <<db, released, active, queue>>
         ELSE CountDown(c) /\ Handover(c, ph, cn)
  BY <1>0 DEF Release, txVars
<1>2. TypeOK /\ Pool /\ conn[t] = c /\ c # None
  BY <1>0, NoneAssumption DEF IInv
<1>3. /\ ph \in [Task -> Using \cup {"idle", "queued"}] /\ cn \in [Task -> Conn \cup {None}]
      /\ ph[t] = "idle" /\ cn[t] = None
      /\ \A u \in Task : u # t => ph[u] = phase[u] /\ cn[u] = conn[u]
  BY <1>2 DEF TypeOK
<1> HIDE DEF ph, cn
<1>4. \A y \in Txn : Ended(y)' = Ended(y)
  BY <1>1 DEF Ended
<1>5. NoFailure' = NoFailure /\ \A d \in Conn : (Sure(d)' = Sure(d)) /\ (Kept(d)' = Kept(d))
  BY <1>1, <1>2, <1>4 DEF NoFailure, Sure, Kept, TypeOK
<1>6. \A d \in Conn : Sure(d)' =>
         \A u \in Task : conn[u] = d /\ phase[u] # "handed" /\ TxnOf[u] # None => ~Ended(TxnOf[u])'
  BY <1>4, <1>5, TxnOfAssumption DEF IInv, Books, Held
<1>7. /\ txState' \in [Txn -> {"open", "ending", "failed", "ended", "abandoned"}]
      /\ \A y \in Txn : txState'[y] # "open" => txConn[y] # None
      /\ \A u \in Task : TxnOf[u] # None /\ ph[u] # "idle" => txState'[TxnOf[u]] # "ended"
      /\ \A u \in Task : ph[u] = "beginning" => TxnOf[u] # None /\ txConn[TxnOf[u]] # None
      /\ first # None
  BY <1>1, <1>2, <1>3 DEF Pool, Lives, TypeOK, Unused
<1>8. CASE Kept(c)
  <2>1. /\ phase' = ph /\ conn' = cn /\ queue' = queue
        /\ db' = db /\ released' = released /\ active' = active
        /\ UNCHANGED <<connVars, active, first, txConn, raced>>
    BY <1>1, <1>8 DEF connVars
  <2>2. Pool'
    <3>1. FirstIsOpen' /\ Unused'
      BY <1>1, <1>2, <1>7, <2>1 DEF Pool, FirstIsOpen, Unused
    <3>2. Lives'
      BY <1>1, <1>7, <2>1 DEF Lives
    <3>3. QueueIsQueued'
      <4>1. \A k \in DOMAIN queue : queue[k] \in Task /\ phase[queue[k]] = "queued" /\ queue[k] # t
        BY <1>1, <1>2 DEF Pool, QueueIsQueued, TypeOK
      <4> QED
        BY <1>2, <1>3, <2>1, <4>1 DEF Pool, QueueIsQueued
    <3> QED
      BY <3>1, <3>2, <3>3 DEF Pool
  <2>3. \A u \in Task : conn'[u] # None <=> phase'[u] \in Using
    BY <1>2, <1>3, <2>1 DEF TypeOK, Using
  <2>4. \A u \in Task : \/ conn'[u] = conn[u] /\ (phase'[u] = "handed" <=> phase[u] = "handed")
                        \/ conn'[u] = None /\ conn[u] \in Conn /\ Kept(conn[u])
    BY <1>2, <1>3, <1>8, <2>1
  <2>5. queue' \in Seq(Task) /\ phase' \in [Task -> Using \cup {"idle", "queued"}]
        /\ conn' \in [Task -> Conn \cup {None}]
    BY <1>2, <1>3, <2>1 DEF TypeOK
  <2> QED
    BY <1>4, <1>5, <1>6, <1>7, <2>1, <2>2, <2>3, <2>4, <2>5, SameHands
<1>9. CASE ~Kept(c)
  <2>1. CountDown(c) /\ Handover(c, ph, cn)
    BY <1>1, <1>9
  <2>2. \A u \in Task : \/ ph[u] = phase[u] /\ cn[u] = conn[u]
                        \/ conn[u] = c /\ ph[u] = "idle" /\ cn[u] = None
    BY <1>2, <1>3
  <2>3. Sure(c)' => /\ db[c] = "open" /\ ~released[c] /\ ~Kept(c)'
                    /\ \A u \in Task : cn[u] # c
    <3> SUFFICES ASSUME Sure(c) PROVE db[c] = "open" /\ ~released[c] /\ \A u \in Task : cn[u] # c
      BY <1>5, <1>9
    <3>1. Held(c) /\ Together(c)
      BY DEF IInv, Books
    <3>2. db[c] = "open" /\ ~released[c]
      BY <1>1, <1>2, <3>1 DEF Held
    <3>3. \A u \in Task : u # t => conn[u] # c
      <4> SUFFICES ASSUME NEW u \in Task, u # t, conn[u] = c PROVE FALSE
        OBVIOUS
      <4>1. TxnOf[t] # None /\ TxnOf[t] \in Txn
        BY <1>2, <3>1, TxnOfAssumption DEF Together
      <4>2. owner[c] = TxnOf[t] /\ ~Ended(TxnOf[t])
        BY <1>1, <1>2, <3>1, <4>1 DEF Held
      <4> QED
        BY <1>9, <4>1, <4>2 DEF Kept
    <3> QED
      BY <1>2, <1>3, <3>2, <3>3
  <2>4. raced' \in BOOLEAN
    BY <1>1, <1>2 DEF TypeOK
  <2> QED
    BY <1>1, <1>3, <1>4, <1>5, <1>6, <1>7, <2>1, <2>2, <2>3, <2>4, GiveBackInv
<1> QED
  BY <1>8, <1>9

\* BEGIN failed: from here on nothing is sure but what never raced.
LEMMA BeginFailsInv ==
  ASSUME IInv, NEW t \in Task, BeginFails(t)
  PROVE  IInv'
<1> DEFINE x == TxnOf[t]
           ph == [phase EXCEPT ![t] = "idle"]
           cn == [conn EXCEPT ![t] = None]
<1>0. PICK c \in Conn : c = conn[t]
  BY DEF BeginFails, IInv, TypeOK, Using
<1>1. /\ phase[t] = "beginning" /\ txState' = [txState EXCEPT ![x] = "failed"]
      /\ CountDown(c) /\ Handover(c, ph, cn)
      /\ raced' = (raced \/ Holders(c) # {t})
      /\ owner' = owner /\ first' = first /\ txConn' = txConn
  BY <1>0 DEF BeginFails
<1>2. TypeOK /\ Pool /\ conn[t] = c /\ c # None /\ x \in Txn /\ x # None
  <2>1. TypeOK /\ Pool /\ x # None
    BY <1>1 DEF IInv, Pool, Lives
  <2> QED
    BY <1>0, <2>1, NoneAssumption, TxnOfAssumption
<1>3. /\ ph \in [Task -> Using \cup {"idle", "queued"}] /\ cn \in [Task -> Conn \cup {None}]
      /\ ph[t] = "idle" /\ cn[t] = None
      /\ \A u \in Task : u # t => ph[u] = phase[u] /\ cn[u] = conn[u]
  BY <1>2 DEF TypeOK
<1> HIDE DEF ph, cn
<1>4. /\ txState' \in [Txn -> {"open", "ending", "failed", "ended", "abandoned"}]
      /\ txState'[x] = "failed" /\ \A y \in Txn : y # x => txState'[y] = txState[y]
  BY <1>1, <1>2 DEF TypeOK
<1> HIDE DEF x
<1>5. /\ Ended(x)' /\ \A y \in Txn : (Ended(y) => Ended(y)') /\ (y # x => Ended(y)' = Ended(y))
      /\ ~NoFailure'
  BY <1>2, <1>4 DEF Ended, NoFailure
<1>6. \A d \in Conn : Sure(d)' => ~raced /\ Holders(c) = {t} /\ Books(d)
  <2>1. \A d \in Conn : Sure(d)' => ~raced /\ Holders(c) = {t}
    BY <1>1, <1>5 DEF Sure
  <2> QED
    BY <2>1 DEF Sure, IInv
<1>7. /\ \A y \in Txn : txState'[y] # "open" => txConn[y] # None
      /\ \A u \in Task : TxnOf[u] # None /\ ph[u] # "idle" => txState'[TxnOf[u]] # "ended"
      /\ first # None
  <2>1. \A u \in Task : TxnOf[u] # None => TxnOf[u] \in Txn
    BY TxnOfAssumption
  <2>2. txConn[x] # None
    BY <1>1, <1>2 DEF Pool, Lives, x
  <2> QED
    BY <1>2, <1>3, <1>4, <2>1, <2>2 DEF Pool, Lives, Unused
<1>8. ~raced => txConn[x] = c
  BY <1>1, <1>2 DEF IInv, OneEach, x
<1>9. Sure(c)' => /\ db[c] = "open" /\ ~released[c] /\ ~Kept(c)'
                  /\ \A u \in Task : cn[u] # c
  <2> SUFFICES ASSUME Sure(c)'
               PROVE  /\ db[c] = "open" /\ ~released[c] /\ ~Kept(c)'
                      /\ \A u \in Task : cn[u] # c
    OBVIOUS
  <2>1. db[c] = "open" /\ ~released[c] /\ owner[c] = x
    BY <1>1, <1>2, <1>6 DEF Books, Held, x
  <2>2. ~Kept(c)'
    BY <1>1, <1>5, <2>1 DEF Kept
  <2>3. \A u \in Task : cn[u] # c
    BY <1>2, <1>3, <1>6 DEF Holders
  <2> QED
    BY <2>1, <2>2, <2>3
<1>10. \A d \in Conn : d # c /\ Sure(d)' =>
          \A u \in Task : conn[u] = d /\ phase[u] # "handed" /\ TxnOf[u] # None => ~Ended(TxnOf[u])'
  <2> SUFFICES ASSUME NEW d \in Conn, d # c, Sure(d)',
                      NEW u \in Task, conn[u] = d, phase[u] # "handed", TxnOf[u] # None
               PROVE  ~Ended(TxnOf[u])'
    OBVIOUS
  <2>1. d # None /\ TxnOf[u] \in Txn
    BY NoneAssumption, TxnOfAssumption
  <2>2. TxnOf[u] # x
    BY <1>6, <1>8, <2>1 DEF IInv, OneEach
  <2>3. ~Ended(TxnOf[u])
    BY <1>6 DEF Books, Held
  <2> QED
    BY <1>5, <2>1, <2>2, <2>3
<1>11. ~raced' => \A d \in Conn : d # c /\ Kept(d) => Kept(d)'
  <2> SUFFICES ASSUME ~raced', NEW d \in Conn, d # c, Kept(d) PROVE Kept(d)'
    OBVIOUS
  <2>1. ~raced /\ owner[d] \in Txn
    BY <1>1, <1>2 DEF Kept, TypeOK
  <2>2. owner[d] # x
    BY <1>8, <2>1 DEF IInv, OneEach
  <2> QED
    BY <1>1, <1>5, <2>1, <2>2 DEF Kept
<1>12. raced' \in BOOLEAN /\ (raced => raced')
  BY <1>1, <1>2 DEF TypeOK
<1>13. \A u \in Task : \/ ph[u] = phase[u] /\ cn[u] = conn[u]
                       \/ conn[u] = c /\ ph[u] = "idle" /\ cn[u] = None
  BY <1>2, <1>3
<1> QED
  BY <1>1, <1>3, <1>4, <1>5, <1>7, <1>9, <1>10, <1>11, <1>12, <1>13, GiveBackInv

\* A step that only turns the state of transaction x, which is not its end.
LEMMA TurnInv ==
  ASSUME IInv, NEW x \in Txn, NEW s \in {"ending", "abandoned"},
         txState[x] \in {"open", "ending"}, txConn[x] # None,
         txState' = [txState EXCEPT ![x] = s],
         UNCHANGED <<connVars, poolVars, taskVars, txConn, raced>>
  PROVE  IInv'
<1>1. /\ db' = db /\ first' = first /\ owner' = owner /\ queue' = queue /\ raced' = raced
      /\ phase' = phase /\ conn' = conn /\ txConn' = txConn
      /\ UNCHANGED <<connVars, active, first, txConn, raced>>
  BY DEF connVars, poolVars, taskVars
<1>2. TypeOK /\ Pool
  BY DEF IInv
<1>3. /\ txState' \in [Txn -> {"open", "ending", "failed", "ended", "abandoned"}]
      /\ txState'[x] = s /\ \A y \in Txn : y # x => txState'[y] = txState[y]
  BY <1>2 DEF TypeOK
<1>4. Pool'
  <2>1. FirstIsOpen' /\ Unused'
    BY <1>1, <1>2 DEF Pool, FirstIsOpen, Unused
  <2>2. Lives'
    <3>1. \A u \in Task : TxnOf[u] # None => TxnOf[u] \in Txn
      BY TxnOfAssumption
    <3> QED
      BY <1>1, <1>2, <1>3, <3>1 DEF Pool, Lives
  <2>3. QueueIsQueued'
    BY <1>1, <1>2 DEF Pool, QueueIsQueued
  <2> QED
    BY <2>1, <2>2, <2>3 DEF Pool
<1>5. \A y \in Txn : Ended(y)' = Ended(y)
  BY <1>3 DEF Ended
<1>6. (NoFailure' => NoFailure) /\ \A d \in Conn : Sure(d)' => Sure(d)
  BY <1>1, <1>3 DEF NoFailure, Sure
<1>7. \A d \in Conn : Sure(d)' =>
         \A u \in Task : conn[u] = d /\ phase[u] # "handed" /\ TxnOf[u] # None => ~Ended(TxnOf[u])'
  BY <1>5, <1>6, TxnOfAssumption DEF IInv, Books, Held
<1>8. \A d \in Conn : Kept(d) => Kept(d)'
  BY <1>1, <1>2, <1>5 DEF Kept, TypeOK
<1>9. /\ queue' \in Seq(Task)
      /\ phase' \in [Task -> Using \cup {"idle", "queued"}] /\ conn' \in [Task -> Conn \cup {None}]
      /\ \A u \in Task : conn'[u] # None <=> phase'[u] \in Using
  BY <1>1, <1>2 DEF TypeOK
<1> QED
  BY <1>1, <1>3, <1>4, <1>5, <1>6, <1>7, <1>8, <1>9, SameHands

LEMMA LastCallInv ==
  ASSUME IInv, NEW x \in Txn, LastCall(x)
  PROVE  IInv'
BY TurnInv DEF LastCall

LEMMA EndFailsInv ==
  ASSUME IInv, NEW x \in Txn, EndFails(x)
  PROVE  IInv'
<1>1. txState[x] = "ending" /\ txState' = [txState EXCEPT ![x] = "abandoned"]
      /\ UNCHANGED <<connVars, poolVars, taskVars, txConn, raced>>
  BY DEF EndFails, Ending
<1>2. txConn[x] # None
  BY <1>1 DEF IInv, Pool, Lives
<1> QED
  BY <1>1, <1>2, TurnInv

\* The transaction brings its connection back, after its calls.
LEMMA EndInv ==
  ASSUME IInv, NEW x \in Txn, End(x)
  PROVE  IInv'
<1>0. PICK c \in Conn : c = txConn[x]
  BY DEF End, Ending, IInv, Pool, Lives, TypeOK
<1>1. /\ txState[x] = "ending" /\ txState' = [txState EXCEPT ![x] = "ended"]
      /\ \A u \in Task : TxnOf[u] = x => phase[u] = "idle"
      /\ IF owner[c] \notin {None, x} /\ Kept(c)
         THEN UNCHANGED <<db, released, active, queue, taskVars>>
         ELSE CountDown(c) /\ Handover(c, phase, conn)
      /\ owner' = owner /\ first' = first /\ txConn' = txConn /\ raced' = raced
  BY <1>0 DEF End, Ending
<1>2. TypeOK /\ Pool /\ txConn[x] = c /\ c # None /\ x # None
  BY <1>0, NoneAssumption DEF IInv
<1>3. /\ txState' \in [Txn -> {"open", "ending", "failed", "ended", "abandoned"}]
      /\ txState'[x] = "ended" /\ \A y \in Txn : y # x => txState'[y] = txState[y]
  BY <1>1, <1>2 DEF TypeOK
<1>4. /\ ~Ended(x) /\ Ended(x)'
      /\ \A y \in Txn : (Ended(y) => Ended(y)') /\ (y # x => Ended(y)' = Ended(y))
  BY <1>1, <1>3 DEF Ended
<1>5. (NoFailure' => NoFailure) /\ \A d \in Conn : (Sure(d)' => Sure(d)) /\ (Sure(d) => Books(d))
  BY <1>1, <1>3 DEF NoFailure, Sure, IInv
<1>6. \A u \in Task : conn[u] # None => TxnOf[u] # x
  BY <1>1, <1>2 DEF TypeOK, Using
<1>7. \A d \in Conn : Sure(d)' =>
         \A u \in Task : conn[u] = d /\ phase[u] # "handed" /\ TxnOf[u] # None => ~Ended(TxnOf[u])'
  <2> SUFFICES ASSUME NEW d \in Conn, Sure(d)',
                      NEW u \in Task, conn[u] = d, phase[u] # "handed", TxnOf[u] # None
               PROVE  ~Ended(TxnOf[u])'
    OBVIOUS
  <2>1. d # None /\ TxnOf[u] \in Txn
    BY NoneAssumption, TxnOfAssumption
  <2>2. ~Ended(TxnOf[u])
    BY <1>5 DEF Books, Held
  <2> QED
    BY <1>4, <1>6, <2>1, <2>2
<1>8. /\ \A y \in Txn : txState'[y] # "open" => txConn[y] # None
      /\ \A u \in Task : TxnOf[u] # None /\ phase[u] # "idle" => txState'[TxnOf[u]] # "ended"
      /\ first # None
  <2>1. \A u \in Task : TxnOf[u] # None => TxnOf[u] \in Txn
    BY TxnOfAssumption
  <2> QED
    BY <1>1, <1>2, <1>3, <2>1 DEF Pool, Lives, Unused
<1>9. ASSUME ~raced, NEW d \in Conn, Kept(d), d # c \/ owner[c] # x
      PROVE  Kept(d)'
  <2>1. owner[d] \in Txn /\ txConn[owner[d]] = d
    BY <1>2, <1>9 DEF Kept, TypeOK, IInv, OneEach
  <2>2. owner[d] # x
    BY <1>2, <1>9, <2>1
  <2> QED
    BY <1>1, <1>4, <1>9, <2>1, <2>2 DEF Kept
<1>10. /\ phase \in [Task -> Using \cup {"idle", "queued"}] /\ conn \in [Task -> Conn \cup {None}]
       /\ queue \in Seq(Task) /\ raced \in BOOLEAN
       /\ \A u \in Task : conn[u] # None <=> phase[u] \in Using
  BY <1>2 DEF TypeOK
<1>11. CASE owner[c] \notin {None, x} /\ Kept(c)
  <2>1. /\ db' = db /\ released' = released /\ active' = active /\ queue' = queue
        /\ phase' = phase /\ conn' = conn
        /\ UNCHANGED <<connVars, active, first, txConn, raced>>
    BY <1>1, <1>11 DEF connVars, taskVars
  <2>2. Pool'
    <3>1. FirstIsOpen' /\ Unused'
      BY <1>1, <1>2, <2>1 DEF Pool, FirstIsOpen, Unused
    <3>2. Lives'
      BY <1>1, <1>2, <1>8, <2>1 DEF Pool, Lives
    <3>3. QueueIsQueued'
      BY <1>2, <2>1 DEF Pool, QueueIsQueued
    <3> QED
      BY <3>1, <3>2, <3>3 DEF Pool
  <2>3. ~raced => \A d \in Conn : Kept(d) => Kept(d)'
    BY <1>9, <1>11
  <2> QED
    BY <1>3, <1>4, <1>5, <1>7, <1>10, <2>1, <2>2, <2>3, SameHands
<1>12. CASE ~(owner[c] \notin {None, x} /\ Kept(c))
  <2>1. CountDown(c) /\ Handover(c, phase, conn)
    BY <1>1, <1>12
  <2>2. Sure(c)' => /\ db[c] = "open" /\ ~released[c] /\ ~Kept(c)'
                    /\ \A u \in Task : conn[u] # c
    <3> SUFFICES ASSUME Sure(c)'
                 PROVE  /\ db[c] = "open" /\ ~released[c] /\ ~Kept(c)'
                        /\ \A u \in Task : conn[u] # c
      OBVIOUS
    <3>1. Held(c) /\ Bound(c) /\ Out(c)
      BY <1>5 DEF Books
    <3>2. owner[c] = x /\ Kept(c)
      BY <1>2, <1>4, <3>1 DEF Bound, Kept
    <3>3. db[c] = "open" /\ ~released[c]
      BY <3>1, <3>2 DEF Out
    <3>4. ~Kept(c)'
      BY <1>1, <1>4, <3>2 DEF Kept
    <3>5. \A u \in Task : conn[u] # c
      BY <1>2, <1>6, <3>1, <3>2, <3>3 DEF Held
    <3> QED
      BY <3>3, <3>4, <3>5
  <2>3. ~raced' => \A d \in Conn : d # c /\ Kept(d) => Kept(d)'
    BY <1>1, <1>9
  <2>4. raced' \in BOOLEAN /\ (raced => raced')
    BY <1>1, <1>10
  <2> QED
    BY <1>1, <1>3, <1>4, <1>5, <1>7, <1>8, <1>10, <2>1, <2>2, <2>3, <2>4, GiveBackInv
<1> QED
  BY <1>11, <1>12

\* A connection that refers to a transaction which ended is not kept, and one
\* that refers to nothing is not kept either.
LEMMA NewTransactionInv ==
  ASSUME IInv, NEW x \in Txn, NewTransaction(x)
  PROVE  IInv'
<1>1. /\ txState[x] = "ended" /\ txState' = [txState EXCEPT ![x] = "open"]
      /\ txConn' = [txConn EXCEPT ![x] = None]
      /\ owner' = [c \in Conn |-> IF owner[c] = x THEN None ELSE owner[c]]
      /\ db' = db /\ released' = released /\ active' = active /\ first' = first /\ queue' = queue
      /\ phase' = phase /\ conn' = conn /\ raced' = raced
  BY DEF NewTransaction, poolVars, taskVars
<1>2. TypeOK /\ Pool /\ x # None
  BY NoneAssumption DEF IInv
<1>3. /\ txState' \in [Txn -> {"open", "ending", "failed", "ended", "abandoned"}]
      /\ txState'[x] = "open" /\ \A y \in Txn : y # x => txState'[y] = txState[y]
      /\ txConn' \in [Txn -> Conn \cup {None}]
      /\ txConn'[x] = None /\ \A y \in Txn : y # x => txConn'[y] = txConn[y]
      /\ owner' \in [Conn -> Txn \cup {None}]
      /\ \A d \in Conn : owner'[d] = IF owner[d] = x THEN None ELSE owner[d]
  BY <1>1, <1>2 DEF TypeOK
<1>4. \A u \in Task : TxnOf[u] = x => phase[u] = "idle" /\ conn[u] = None
  BY <1>1, <1>2 DEF Pool, Lives, TypeOK, Using
<1>5. Ended(x) /\ ~Ended(x)' /\ \A y \in Txn : y # x => Ended(y)' = Ended(y)
  BY <1>1, <1>3 DEF Ended
<1>6. \A d \in Conn : /\ Kept(d)' = Kept(d) /\ (Kept(d) => owner'[d] = owner[d] /\ owner[d] # x)
                      /\ (Sure(d)' => Sure(d)) /\ (Sure(d) => Books(d))
  <2>1. \A d \in Conn : Kept(d)' = Kept(d) /\ (Kept(d) => owner'[d] = owner[d] /\ owner[d] # x)
    BY <1>2, <1>3, <1>5 DEF Kept, TypeOK
  <2>2. NoFailure' => NoFailure
    BY <1>1, <1>3 DEF NoFailure
  <2> QED
    BY <1>1, <2>1, <2>2 DEF Sure, IInv
<1>7. TypeOK'
  BY <1>1, <1>2, <1>3 DEF TypeOK
<1>8. Pool'
  <2>1. FirstIsOpen' /\ Unused'
    BY <1>1, <1>2, <1>3 DEF Pool, FirstIsOpen, Unused
  <2>2. Lives'
    <3>1. \A u \in Task : TxnOf[u] # None => TxnOf[u] \in Txn
      BY TxnOfAssumption
    <3> QED
      BY <1>1, <1>2, <1>3, <1>4, <3>1 DEF Pool, Lives
  <2>3. QueueIsQueued'
    BY <1>1, <1>2 DEF Pool, QueueIsQueued
  <2> QED
    BY <2>1, <2>2, <2>3 DEF Pool
<1>9. ASSUME NEW d \in Conn PROVE Sure(d)' => Books(d)'
  <2> SUFFICES ASSUME Sure(d)' PROVE Books(d)'
    OBVIOUS
  <2>1. Held(d) /\ Together(d) /\ Bound(d) /\ Out(d) /\ Surplus(d) /\ d # None
    BY <1>6, NoneAssumption DEF Books
  <2>2. Held(d)'
    <3>1. \A u \in Task : conn[u] = d /\ TxnOf[u] # None => TxnOf[u] \in Txn /\ TxnOf[u] # x
      BY <1>4, <2>1, TxnOfAssumption
    <3> QED
      BY <1>1, <1>3, <1>5, <1>6, <2>1, <3>1 DEF Held
  <2>3. Together(d)'
    BY <1>1, <2>1 DEF Together
  <2>4. Bound(d)'
    BY <1>3, <1>5, <2>1 DEF Bound
  <2>5. Out(d)' /\ Surplus(d)'
    BY <1>1, <1>6, <2>1 DEF Out, Surplus, Holders
  <2> QED
    BY <2>2, <2>3, <2>4, <2>5 DEF Books
<1>10. OneEach'
  <2> SUFFICES ASSUME ~raced
               PROVE  /\ \A u \in Task : conn[u] # None /\ phase[u] # "handed" /\ TxnOf[u] # None
                                         => txConn'[TxnOf[u]] = conn[u]
                      /\ \A d \in Conn : Kept(d)' => txConn'[owner'[d]] = d
    BY <1>1 DEF OneEach
  <2>1. \A u \in Task : TxnOf[u] # None => TxnOf[u] \in Txn
    BY TxnOfAssumption
  <2>2. \A d \in Conn : Kept(d) => owner[d] \in Txn
    BY <1>2 DEF Kept, TypeOK
  <2> QED
    BY <1>3, <1>4, <1>6, <2>1, <2>2 DEF IInv, OneEach
<1>11. InHands' = InHands
  BY <1>1 DEF InHands
<1>12. Counted'
  BY <1>1, <1>11 DEF IInv, Counted
<1>13. NoLeak'
  <2> SUFFICES ASSUME ~raced, NEW d \in InHands PROVE Holders(d)' # {} \/ Kept(d)'
    BY <1>1, <1>11 DEF NoLeak
  <2>1. d \in Conn /\ Holders(d)' = Holders(d)
    BY <1>1 DEF InHands, Holders
  <2> QED
    BY <1>6, <2>1 DEF IInv, NoLeak
<1> QED
  BY <1>7, <1>8, <1>9, <1>10, <1>12, <1>13 DEF IInv

-----------------------------------------------------------------------------
(* The theorems                                                            *)

LEMMA StutterInv ==
  ASSUME IInv, UNCHANGED vars
  PROVE  IInv'
<1>1. /\ db' = db /\ released' = released /\ owner' = owner /\ active' = active /\ first' = first
      /\ queue' = queue /\ phase' = phase /\ conn' = conn /\ txConn' = txConn /\ txState' = txState
      /\ raced' = raced
  BY DEF vars, connVars, poolVars, taskVars, txVars
<1>2. TypeOK' /\ OneEach' /\ Counted' /\ NoLeak'
  BY <1>1 DEF IInv, TypeOK, OneEach, Counted, NoLeak, InHands, Holders, Kept, Ended
<1>3. Pool'
  BY <1>1 DEF IInv, Pool, FirstIsOpen, Unused, Lives, QueueIsQueued
<1>4. \A d \in Conn : Sure(d)' => Books(d)'
  BY <1>1 DEF IInv, Sure, NoFailure, Books, Held, Together, Bound, Out, Surplus, Holders, Kept, Ended
<1> QED
  BY <1>2, <1>3, <1>4 DEF IInv

LEMMA StepIInv == IInv /\ [Next]_vars => IInv'
<1> SUFFICES ASSUME IInv, [Next]_vars PROVE IInv'
  OBVIOUS
<1>1. ASSUME NEW t \in Task, Ask(t) PROVE IInv'
  BY <1>1, GetStickyInv, GetFirstInv, GetNewInv, WaitInv DEF Ask
<1>2. ASSUME NEW t \in Task, Continue(t) PROVE IInv'
  BY <1>2, ResumeInv, BegunInv, BeginFailsInv, ReleaseInv DEF Continue
<1>3. ASSUME NEW x \in Txn, LastCall(x) \/ End(x) \/ EndFails(x) \/ NewTransaction(x) PROVE IInv'
  BY <1>3, LastCallInv, EndInv, EndFailsInv, NewTransactionInv
<1>4. CASE UNCHANGED vars
  BY <1>4, StutterInv
<1> QED
  BY <1>1, <1>2, <1>3, <1>4 DEF Next

\* The books of the pool are in order after any number of calls.
THEOREM Invariance == Spec => []IInv
BY InitIInv, StepIInv, PTL DEF Spec

\* activeConnections is the number of connections that are out, and what is
\* out has somebody to bring it back: release(), commit(), rollback(), failed
\* BEGINs and handovers to waiters, for any pool size and any number of callers.
THEOREM PoolAccounted == Spec => []Accounted
<1>1. IInv => Accounted
  BY DEF IInv, Accounted, ActiveCounted, Counted
<1> QED
  BY <1>1, Invariance, PTL

\* Whoever has a connection can use it, and a connection above the first one
\* does not stay open when it came back: the handle that release() closes is
\* never one that a waiter or a transaction was given.
THEOREM PoolOpenWhileNeeded == Spec => []OpenWhileNeeded
<1>1. IInv => OpenWhileNeeded
  <2> SUFFICES ASSUME IInv PROVE OpenWhileNeeded
    OBVIOUS
  <2>1. ASSUME NEW t \in Task, phase[t] \in Using, ~raced PROVE db[conn[t]] = "open"
    <3>1. conn[t] \in Conn
      BY <2>1 DEF IInv, TypeOK
    <3> QED
      BY <2>1, <3>1 DEF IInv, Sure, Books, Held
  <2>2. ASSUME NEW c \in Conn, c # first, db[c] = "open", ~raced PROVE ~released[c] \/ Holders(c) # {}
    BY <2>2 DEF IInv, Sure, Books, Surplus
  <2> QED
    BY <2>1, <2>2 DEF OpenWhileNeeded
<1> QED
  BY <1>1, Invariance, PTL

\* Two sessions run statements on one connection only when it is the first
\* one, which getConnection() may give to somebody who comes while it is on
\* its way to a waiter, or after a BEGIN that failed.
THEOREM PoolSharesOnlyFirst == Spec => []OnlyFirstIsShared
<1>1. IInv => OnlyFirstIsShared
  <2> SUFFICES ASSUME IInv, NEW t \in Task, NEW u \in Task, t # u, conn[t] # None, conn[t] = conn[u],
                      TxnOf[t] = None \/ TxnOf[t] # TxnOf[u], conn[t] # first, NoFailure
               PROVE  FALSE
    BY DEF OnlyFirstIsShared, NoFailure
  <2>1. conn[t] \in Conn
    BY DEF IInv, TypeOK
  <2>2. Held(conn[t]) /\ Together(conn[t])
    BY <2>1 DEF IInv, Sure, Books
  <2>3. TxnOf[t] # None /\ phase[t] # "handed" /\ TxnOf[u] # None /\ phase[u] # "handed"
    BY <2>2 DEF Together
  <2> QED
    BY <2>2, <2>3 DEF Held
<1> QED
  BY <1>1, Invariance, PTL

-----------------------------------------------------------------------------
(* Loops: what a Fold does, by induction over how far it has come          *)

\* Every set of natural numbers that is not empty has a least element.
LEMMA Least ==
  ASSUME NEW T \in SUBSET Nat, T # {}
  PROVE  \E x \in T : \A y \in T : x <= y
<1>1. PICK x \in T : \A y \in T : ~ (<<y, x>> \in OpToRel(<, Nat))
  BY NatLessThanWellFounded, WFMin
<1>2. \A y \in Nat, z \in Nat : y < z => <<y, z>> \in OpToRel(<, Nat)
  BY DEF OpToRel
<1>3. \A y \in T : ~(y < x)
  BY <1>1, <1>2
<1>4. \A y \in T : y \in Nat /\ x \in Nat
  OBVIOUS
<1> HIDE <1>1, <1>2
<1>5. \A y \in T : x <= y
  BY <1>3, <1>4
<1> QED
  BY <1>5

\* Induction up to n, by a least counterexample.
LEMMA UpTo ==
  ASSUME NEW n \in Nat, NEW P, 0 \in P, \A k \in 1 .. n : k - 1 \in P => k \in P
  PROVE  \A k \in 0 .. n : k \in P
<1> DEFINE T == {k \in Nat : k <= n /\ k \notin P}
<1> SUFFICES ASSUME T # {} PROVE FALSE
  OBVIOUS
<1>1. T \in SUBSET Nat
  OBVIOUS
<1>2. PICK x \in T : \A y \in T : x <= y
  BY <1>1, Least
<1>3. x \in Nat /\ x <= n /\ x \notin P /\ x # 0
  OBVIOUS
<1>4. x - 1 \in Nat /\ x - 1 <= n /\ ~(x <= x - 1) /\ x \in 1 .. n
  BY <1>3
<1>5. x - 1 \notin T
  BY <1>2, <1>4
<1>6. x - 1 \in P
  BY <1>4, <1>5
<1> QED
  BY <1>3, <1>4, <1>6

\* Math.max() of numbers that have a bound.
LEMMA MaxIs ==
  ASSUME NEW T \in SUBSET Int, T # {}, NEW b \in Int, \A x \in T : x <= b
  PROVE  Max(T) \in T /\ \A x \in T : x <= Max(T)
<1> DEFINE D == {b - x : x \in T}
<1>1. D \in SUBSET Nat /\ D # {}
  <2>1. \A x \in T : x \in Int /\ x <= b
    OBVIOUS
  <2>2. \A x \in T : b - x \in Nat
    BY <2>1
  <2> QED
    BY <2>2
<1>2. PICK d \in D : \A e \in D : d <= e
  BY <1>1, Least
<1>3. PICK m \in T : d = b - m
  OBVIOUS
<1>4. \A x \in T : m >= x
  <2> TAKE x \in T
  <2>1. b - x \in D
    OBVIOUS
  <2>2. b - m <= b - x
    BY <1>2, <1>3, <2>1
  <2>3. m \in Int /\ x \in Int
    OBVIOUS
  <2> QED
    BY <2>2, <2>3
<1>5. \E y \in T : \A x \in T : y >= x
  BY <1>4
<1>6. Max(T) \in T /\ \A x \in T : Max(T) >= x
  BY <1>5 DEF Max
<1> QED
  BY <1>6

\* The function over subsets that FoldLeft is defined with.
Folding(f, g, base, seq, n) ==
    f = [t \in SUBSET (1 .. n) |-> IF t = {} THEN base ELSE g[seq[Max(t)]][f[t \ {Max(t)}]]]

\* By induction: there is a function that goes through the first n elements.
LEMMA FoldingExists ==
  ASSUME NEW g, NEW base, NEW seq, NEW n \in Nat
  PROVE  \E f : Folding(f, g, base, seq, n)
<1> DEFINE P == {k \in 0 .. n : \E f : Folding(f, g, base, seq, k)}
<1>1. 0 \in P
  <2>1. Folding([t \in SUBSET (1 .. 0) |-> base], g, base, seq, 0)
    BY DEF Folding
  <2> QED
    BY <2>1
<1>2. ASSUME NEW k \in 1 .. n, k - 1 \in P PROVE k \in P
  <2>1. PICK f : Folding(f, g, base, seq, k - 1)
    BY <1>2
  <2> DEFINE h == [t \in SUBSET (1 .. k) |->
                     IF k \in t THEN g[seq[k]][f[t \ {k}]] ELSE f[t]]
  <2>2. ASSUME NEW t \in SUBSET (1 .. k), t # {}
        PROVE  /\ Max(t) \in t
               /\ k \in t => Max(t) = k
               /\ t \ {Max(t)} \in SUBSET (1 .. k - 1)
    <3>1. Max(t) \in t /\ \A x \in t : x <= Max(t)
      <4>1. t \in SUBSET Int /\ k \in Int /\ \A x \in t : x <= k
        OBVIOUS
      <4> QED
        BY <2>2, <4>1, MaxIs
    <3>2. Max(t) \in 1 .. k
      BY <3>1
    <3>3. k \in t => Max(t) = k
      BY <3>1, <3>2
    <3>4. ASSUME NEW x \in t \ {Max(t)} PROVE x \in 1 .. k - 1
      <4>1. x \in 1 .. k /\ x <= Max(t) /\ x # Max(t)
        BY <3>1, <3>4
      <4> QED
        BY <3>2, <4>1
    <3> QED
      BY <3>1, <3>3, <3>4
  <2>3. ASSUME NEW t \in SUBSET (1 .. k), t # {}
        PROVE  h[t] = g[seq[Max(t)]][h[t \ {Max(t)}]]
    <3>1. t \ {Max(t)} \in SUBSET (1 .. k - 1) /\ k \notin t \ {Max(t)} /\ t \ {Max(t)} \in SUBSET (1 .. k)
      BY <2>2, <2>3
    <3>2. h[t \ {Max(t)}] = f[t \ {Max(t)}]
      BY <3>1
    <3>3. CASE k \in t
      BY <2>2, <2>3, <3>2, <3>3
    <3>4. CASE k \notin t
      <4>1. t \in SUBSET (1 .. k - 1)
        BY <3>4
      <4>2. f[t] = g[seq[Max(t)]][f[t \ {Max(t)}]]
        BY <2>1, <2>3, <4>1 DEF Folding
      <4> QED
        BY <3>2, <3>4, <4>2
    <3> QED
      BY <3>3, <3>4
  <2>4. h[{}] = base
    BY <2>1 DEF Folding
  <2>5. Folding(h, g, base, seq, k)
    <3> HIDE DEF h
    <3>1. h = [t \in SUBSET (1 .. k) |-> h[t]]
      BY DEF h
    <3>2. \A t \in SUBSET (1 .. k) :
             h[t] = IF t = {} THEN base ELSE g[seq[Max(t)]][h[t \ {Max(t)}]]
      BY <2>3, <2>4
    <3> QED
      BY <3>1, <3>2, Zenon DEF Folding
  <2> QED
    BY <2>5
<1>3. \A k \in 0 .. n : k \in P
  BY <1>1, <1>2, UpTo
<1> QED
  BY <1>3

\* A loop over seq: what there is before the first element, after each of
\* them, and in the end.
Trace(h, A, g, base, seq) ==
    /\ h \in [0 .. Len(seq) -> A]
    /\ h[0] = base
    /\ \A k \in 1 .. Len(seq) : h[k] = g[seq[k]][h[k - 1]]
    /\ Fold(g, base, seq) = h[Len(seq)]

\* What a Fold returns is the end of such a trace, whose every step stays in A.
LEMMA FoldTrace ==
  ASSUME NEW A, NEW E, NEW g \in [E -> [A -> A]], NEW base \in A, NEW seq \in Seq(E)
  PROVE  \E h : Trace(h, A, g, base, seq)
<1> DEFINE n == Len(seq)
<1>1. n \in Nat /\ DOMAIN seq = 1 .. n /\ \A k \in 1 .. n : seq[k] \in E
  BY LenProperties
<1>2. PICK f : f = CHOOSE i : Folding(i, g, base, seq, n)
  OBVIOUS
<1>3. Folding(f, g, base, seq, n)
  <2>1. \E i : Folding(i, g, base, seq, n)
    BY <1>1, FoldingExists
  <2> QED
    BY <1>2, <2>1, Zenon
<1>4. Fold(g, base, seq) = f[DOMAIN seq]
  BY <1>1, <1>2 DEF Fold, FoldLeft, MapThenFoldSet, Folding
<1> HIDE DEF n
<1>5. f[{}] = base
  BY <1>1, <1>3 DEF Folding
<1>6. ASSUME NEW k \in 1 .. n
      PROVE  f[1 .. k] = g[seq[k]][f[1 .. k - 1]]
  <2>1. 1 .. k \in SUBSET (1 .. n) /\ 1 .. k # {}
    <3>1. k \in Nat /\ k >= 1 /\ k <= n
      BY <1>1
    <3>2. \A x \in 1 .. k : x \in 1 .. n
      BY <1>1, <3>1
    <3>3. 1 \in 1 .. k
      BY <3>1
    <3> QED
      BY <3>2, <3>3
  <2>2. Max(1 .. k) = k
    <3>1. 1 .. k \in SUBSET Int /\ k \in Int /\ \A x \in 1 .. k : x <= k
      BY <1>1
    <3>2. Max(1 .. k) \in 1 .. k /\ \A x \in 1 .. k : x <= Max(1 .. k)
      BY <2>1, <3>1, MaxIs
    <3>3. k \in 1 .. k
      BY <1>1
    <3> QED
      BY <1>1, <3>2, <3>3
  <2>3. (1 .. k) \ {k} = 1 .. k - 1
    BY <1>1
  <2> QED
    BY <1>3, <2>1, <2>2, <2>3, Zenon DEF Folding
<1> DEFINE h == [k \in 0 .. n |-> f[1 .. k]]
           P == {k \in 0 .. n : f[1 .. k] \in A}
<1>7. \A k \in 0 .. n : f[1 .. k] \in A
  <2>1. 0 \in P
    <3>1. 1 .. 0 = {}
      OBVIOUS
    <3> QED
      BY <1>1, <1>5, <3>1
  <2>2. ASSUME NEW k \in 1 .. n, k - 1 \in P PROVE k \in P
    <3>1. f[1 .. k - 1] \in A /\ seq[k] \in E
      BY <1>1, <2>2
    <3>2. g[seq[k]][f[1 .. k - 1]] \in A
      BY <3>1
    <3>3. k \in 0 .. n
      BY <1>1
    <3> QED
      BY <1>6, <3>2, <3>3
  <2> HIDE DEF P
  <2>3. \A k \in 0 .. n : k \in P
    BY <1>1, <2>1, <2>2, UpTo
  <2> QED
    BY <2>3 DEF P
<1>8. h \in [0 .. n -> A]
  BY <1>7
<1>9. h[0] = base
  <2>1. 1 .. 0 = {} /\ 0 \in 0 .. n
    BY <1>1
  <2> QED
    BY <1>5, <2>1
<1>10. ASSUME NEW k \in 1 .. n PROVE h[k] = g[seq[k]][h[k - 1]]
  <2>1. k \in 0 .. n /\ k - 1 \in 0 .. n
    BY <1>1
  <2> QED
    BY <1>6, <2>1
<1>11. Fold(g, base, seq) = h[n]
  <2>1. n \in 0 .. n
    BY <1>1
  <2> QED
    BY <1>1, <1>4, <2>1
<1> HIDE DEF h
<1>12. h \in [0 .. n -> A] /\ h[0] = base /\ (\A k \in 1 .. n : h[k] = g[seq[k]][h[k - 1]]) /\ Fold(g, base, seq) = h[n]
  BY <1>8, <1>9, <1>10, <1>11
<1>13. Trace(h, A, g, base, seq)
  BY <1>12 DEF n, Trace
<1> QED
  BY <1>13

\* What every step of a loop keeps.
LEMMA FoldKeeps ==
  ASSUME NEW A, NEW E, NEW g \in [E -> [A -> A]], NEW base \in A, NEW seq \in Seq(E),
         NEW R, base \in R,
         \A a \in A, e \in E : a \in R => g[e][a] \in R
  PROVE  Fold(g, base, seq) \in R /\ Fold(g, base, seq) \in A
<1>1. PICK h : Trace(h, A, g, base, seq)
  BY FoldTrace
<1>2. /\ h \in [0 .. Len(seq) -> A]
      /\ h[0] = base
      /\ \A k \in 1 .. Len(seq) : h[k] = g[seq[k]][h[k - 1]]
      /\ Fold(g, base, seq) = h[Len(seq)]
  BY <1>1 DEF Trace
<1>3. Len(seq) \in Nat /\ \A k \in 1 .. Len(seq) : seq[k] \in E
  BY LenProperties
<1> DEFINE P == {k \in 0 .. Len(seq) : h[k] \in R}
<1>4. 0 \in P
  BY <1>2, <1>3
<1>5. ASSUME NEW k \in 1 .. Len(seq), k - 1 \in P PROVE k \in P
  <2>1. h[k - 1] \in R /\ k - 1 \in 0 .. Len(seq) /\ k \in 0 .. Len(seq)
    BY <1>3, <1>5
  <2>2. h[k - 1] \in A
    BY <1>2, <2>1
  <2>3. h[k] \in R
    BY <1>2, <1>3, <2>1, <2>2
  <2> QED
    BY <2>1, <2>3
<1>6. \A k \in 0 .. Len(seq) : k \in P
  <2> HIDE DEF P
  <2> QED
    BY <1>3, <1>4, <1>5, UpTo
<1>7. Len(seq) \in 0 .. Len(seq)
  BY <1>3
<1> QED
  BY <1>2, <1>6, <1>7
\* push() adds one element.
LEMMA ToSetAppend ==
  ASSUME NEW S, NEW s \in Seq(S), NEW e \in S
  PROVE  /\ Append(s, e) \in Seq(S)
         /\ ToSet(Append(s, e)) = ToSet(s) \cup {e}
         /\ ToSet(s) \subseteq S
<1>1. Len(s) \in Nat /\ DOMAIN s = 1 .. Len(s) /\ \A k \in DOMAIN s : s[k] \in S
  BY LenProperties
<1>2. Append(s, e) \in Seq(S) /\ DOMAIN Append(s, e) = 1 .. Len(s) + 1
  BY <1>1
<1>3. \A k \in 1 .. Len(s) : Append(s, e)[k] = s[k]
  BY <1>1
<1>4. Append(s, e)[Len(s) + 1] = e
  BY <1>1
<1>5. ToSet(Append(s, e)) = ToSet(s) \cup {e}
  <2> DEFINE t == Append(s, e)
             n == Len(s)
  <2>1. /\ DOMAIN t = 1 .. n + 1 /\ DOMAIN s = 1 .. n /\ n \in Nat
        /\ t[n + 1] = e /\ \A k \in 1 .. n : t[k] = s[k]
    BY <1>1, <1>2, <1>3, <1>4
  <2> HIDE DEF t, n
  <2>2. \A k \in 1 .. n + 1 : k \in 1 .. n \/ k = n + 1
    BY <2>1
  <2>3. \A k \in 1 .. n : k \in 1 .. n + 1
    BY <2>1
  <2>4. n + 1 \in 1 .. n + 1
    BY <2>1
  <2>5. ToSet(t) = ToSet(s) \cup {e}
    BY <2>1, <2>2, <2>3, <2>4 DEF ToSet
  <2> QED
    BY <2>5 DEF t
<1>6. ToSet(s) \subseteq S
  BY <1>1 DEF ToSet
<1> QED
  BY <1>2, <1>5, <1>6

\* The elements of a sequence over S are in S.
LEMMA ToSetIn ==
  ASSUME NEW S, NEW s \in Seq(S)
  PROVE  ToSet(s) \subseteq S
<1>1. \A k \in DOMAIN s : s[k] \in S
  BY LenProperties
<1> QED
  BY <1>1 DEF ToSet

\* What a filter leaves.
LEMMA OnlyIs ==
  ASSUME NEW s \in Seq(Item), NEW S
  PROVE  Only(s, S) \in Seq(Item) /\ ToSet(Only(s, S)) = ToSet(s) \cap S
<1> DEFINE g == [e \in Item |-> [acc \in Seq(Item) |-> IF e \in S THEN Append(acc, e) ELSE acc]]
<1>1. /\ Len(s) \in Nat /\ DOMAIN s = 1 .. Len(s) /\ \A k \in 1 .. Len(s) : s[k] \in Item
  BY LenProperties
<1>2. ASSUME NEW e \in Item, NEW acc \in Seq(Item)
      PROVE  /\ g[e][acc] \in Seq(Item)
             /\ ToSet(g[e][acc]) = ToSet(acc) \cup ({e} \cap S)
  <2>1. Append(acc, e) \in Seq(Item) /\ ToSet(Append(acc, e)) = ToSet(acc) \cup {e}
    BY ToSetAppend
  <2>2. g[e][acc] = IF e \in S THEN Append(acc, e) ELSE acc
    OBVIOUS
  <2> HIDE DEF g
  <2> QED
    BY <2>1, <2>2
<1>3. g \in [Item -> [Seq(Item) -> Seq(Item)]]
  BY <1>2
<1>4. Only(s, S) = Fold(g, <<>>, s)
  BY DEF Only
<1> HIDE DEF g
<1>5. PICK h : Trace(h, Seq(Item), g, <<>>, s)
  <2>1. <<>> \in Seq(Item)
    OBVIOUS
  <2> QED
    BY <1>3, <2>1, FoldTrace
<1>6. /\ h \in [0 .. Len(s) -> Seq(Item)]
      /\ h[0] = <<>>
      /\ \A k \in 1 .. Len(s) : h[k] = g[s[k]][h[k - 1]]
      /\ Fold(g, <<>>, s) = h[Len(s)]
  BY <1>5 DEF Trace
<1> DEFINE First(k) == {s[j] : j \in 1 .. k}
           P == {k \in 0 .. Len(s) : ToSet(h[k]) = First(k) \cap S}
<1>7. 0 \in P
  <2>1. First(0) = {} /\ 0 \in 0 .. Len(s)
    BY <1>1
  <2>2. ToSet(<<>>) = {}
    BY DEF ToSet
  <2> QED
    BY <1>6, <2>1, <2>2
<1>8. ASSUME NEW k \in 1 .. Len(s), k - 1 \in P PROVE k \in P
  <2>1. k - 1 \in 0 .. Len(s) /\ k \in 0 .. Len(s) /\ ToSet(h[k - 1]) = First(k - 1) \cap S
    BY <1>1, <1>8
  <2>2. First(k) = First(k - 1) \cup {s[k]}
    <3>1. 1 .. k = (1 .. k - 1) \cup {k}
      BY <1>1
    <3> QED
      BY <3>1
  <2>3. h[k - 1] \in Seq(Item) /\ s[k] \in Item
    BY <1>1, <1>6, <2>1
  <2>4. ToSet(h[k]) = ToSet(h[k - 1]) \cup ({s[k]} \cap S)
    BY <1>2, <1>6, <2>3
  <2> HIDE DEF First
  <2>5. ToSet(h[k]) = First(k) \cap S
    BY <2>1, <2>2, <2>4
  <2> QED
    BY <2>1, <2>5
<1>9. Len(s) \in P
  <2> HIDE DEF P
  <2>1. \A k \in 0 .. Len(s) : k \in P
    BY <1>1, <1>7, <1>8, UpTo
  <2>2. Len(s) \in 0 .. Len(s)
    BY <1>1
  <2> QED
    BY <2>1, <2>2
<1>10. First(Len(s)) = ToSet(s)
  BY <1>1 DEF ToSet
<1>11. h[Len(s)] \in Seq(Item)
  <2>1. Len(s) \in 0 .. Len(s)
    BY <1>1
  <2> QED
    BY <1>6, <2>1
<1> QED
  BY <1>4, <1>6, <1>9, <1>10, <1>11

-----------------------------------------------------------------------------
(* Queueing an entity, one level of nesting after the other                *)

\* One level of Enqueue.
EnqueueLevel(n, e) ==
    [i \in Item |-> [r \in Round |->
        IF n = 0 \/ i \in r.remove \/ i \in ToSet(r.add) THEN r
        ELSE Fold(e, [r EXCEPT !.add = Append(@, i)], Deps[i])]]

\* The levels of EnqueueTo exist, each made from the one below.
LEMMA EnqueueLevels ==
  ASSUME NEW c \in Nat
  PROVE  \E f : f = [n \in 0 .. c |-> EnqueueLevel(n, f[n - 1])]
<1> DEFINE P == {k \in 0 .. c : \E f : f = [n \in 0 .. k |-> EnqueueLevel(n, f[n - 1])]}
<1>1. 0 \in P
  <2> DEFINE f == [n \in 0 .. 0 |-> EnqueueLevel(0, 0)]
  <2>1. EnqueueLevel(0, 0) = EnqueueLevel(0, f[0 - 1])
    BY DEF EnqueueLevel
  <2>2. f = [n \in 0 .. 0 |-> EnqueueLevel(n, f[n - 1])]
    BY <2>1
  <2> QED
    BY <2>2
<1>2. ASSUME NEW k \in 1 .. c, k - 1 \in P PROVE k \in P
  <2>1. PICK f : f = [n \in 0 .. k - 1 |-> EnqueueLevel(n, f[n - 1])]
    BY <1>2
  <2> DEFINE h == [n \in 0 .. k |-> IF n = k THEN EnqueueLevel(k, f[k - 1]) ELSE f[n]]
  <2>2. ASSUME NEW n \in 0 .. k PROVE h[n] = EnqueueLevel(n, h[n - 1])
    <3>1. CASE n = k
      <4>1. k - 1 \in 0 .. k /\ k - 1 # k
        OBVIOUS
      <4>2. h[k - 1] = f[k - 1]
        BY <4>1
      <4> QED
        BY <3>1, <4>2
    <3>2. CASE n # k /\ n # 0
      <4>1. n - 1 \in 0 .. k /\ n - 1 # k /\ n \in 0 .. k - 1
        BY <3>2
      <4>2. h[n - 1] = f[n - 1] /\ h[n] = f[n]
        BY <3>2, <4>1
      <4>3. f[n] = EnqueueLevel(n, f[n - 1])
        BY <2>1, <4>1
      <4> QED
        BY <4>2, <4>3
    <3>3. CASE n # k /\ n = 0
      <4>1. 0 \in 0 .. k - 1
        BY <3>3
      <4>2. h[0] = f[0] /\ f[0] = EnqueueLevel(0, f[0 - 1])
        BY <2>1, <3>3, <4>1
      <4>3. EnqueueLevel(0, f[0 - 1]) = EnqueueLevel(0, h[0 - 1])
        BY DEF EnqueueLevel
      <4> QED
        BY <3>3, <4>2, <4>3
    <3> QED
      BY <3>1, <3>2, <3>3
  <2>3. h = [n \in 0 .. k |-> EnqueueLevel(n, h[n - 1])]
    BY <2>2
  <2> HIDE DEF h
  <2>4. \E g : g = [n \in 0 .. k |-> EnqueueLevel(n, g[n - 1])]
    BY <2>3
  <2>5. k \in 0 .. c
    OBVIOUS
  <2> QED
    BY <2>4, <2>5
<1>3. \A k \in 0 .. c : k \in P
  <2> HIDE DEF P
  <2> QED
    BY <1>1, <1>2, UpTo
<1>4. c \in 0 .. c
  OBVIOUS
<1> QED
  BY <1>3, <1>4

\* There are finitely many entities.
LEMMA ItemsNumbered == Cardinality(Item) \in Nat
BY ItemAssumption, FS_CardinalityType

\* What EnqueueTo is.
LEMMA EnqueueToIs ==
  \A n \in 0 .. Cardinality(Item) : EnqueueTo[n] = EnqueueLevel(n, EnqueueTo[n - 1])
<1> DEFINE c == Cardinality(Item)
<1>1. \E f : f = [n \in 0 .. c |-> EnqueueLevel(n, f[n - 1])]
  BY ItemsNumbered, EnqueueLevels
<1>2. EnqueueTo = [n \in 0 .. c |-> EnqueueLevel(n, EnqueueTo[n - 1])]
  <2>1. EnqueueTo = CHOOSE f : f = [n \in 0 .. c |-> EnqueueLevel(n, f[n - 1])]
    BY Zenon DEF EnqueueTo, EnqueueLevel
  <2> QED
    BY <1>1, <2>1, Zenon
<1> QED
  BY <1>2

\* What an Enqueue leaves as it is: what is to be removed is not added.
Grown(r, q) == /\ q.remove = r.remove /\ q.state = r.state
               /\ ToSet(r.add) \subseteq ToSet(q.add)
               /\ (ToSet(q.add) \ ToSet(r.add)) \cap r.remove = {}

\* Nothing added is growth, ...
LEMMA GrownRefl == \A r : Grown(r, r)
BY DEF Grown

\* ... growth upon growth is growth, ...
LEMMA GrownTrans ==
  ASSUME NEW r, NEW q, NEW p, Grown(r, q), Grown(q, p)
  PROVE  Grown(r, p)
BY DEF Grown

\* ... and so is one more entity that is not to be removed.
LEMMA GrownByOne ==
  ASSUME NEW r \in Round, NEW i \in Item, i \notin r.remove
  PROVE  LET q == [r EXCEPT !.add = Append(@, i)]
         IN  /\ q \in Round /\ Grown(r, q)
             /\ ToSet(q.add) = ToSet(r.add) \cup {i} /\ q.remove = r.remove
<1> DEFINE q == [r EXCEPT !.add = Append(@, i)]
<1>1. r.add \in Seq(Item) /\ r.remove \in SUBSET Item /\ r.state \in {"open", "inCommit", "committed"}
  BY DEF Round
<1>2. Append(r.add, i) \in Seq(Item) /\ ToSet(Append(r.add, i)) = ToSet(r.add) \cup {i}
  BY <1>1, ToSetAppend
<1>3. q.add = Append(r.add, i) /\ q.remove = r.remove /\ q.state = r.state
  BY DEF Round
<1>4. q \in Round
  BY <1>1, <1>2 DEF Round
<1> HIDE DEF q
<1>5. ToSet(q.add) = ToSet(r.add) \cup {i}
  BY <1>2, <1>3
<1>6. Grown(r, q)
  BY <1>3, <1>5 DEF Grown
<1> QED
  BY <1>3, <1>4, <1>5, <1>6 DEF q

\* At every level, what was queued stays, and nothing that is to be removed is added.
LEMMA EnqueueToGrows ==
  \A n \in 0 .. Cardinality(Item) :
     /\ EnqueueTo[n] \in [Item -> [Round -> Round]]
     /\ \A r \in Round, i \in Item : Grown(r, EnqueueTo[n][i][r])
<1> DEFINE c == Cardinality(Item)
           Good(e) == /\ e \in [Item -> [Round -> Round]]
                      /\ \A r \in Round, i \in Item : Grown(r, e[i][r])
           P == {n \in 0 .. c : Good(EnqueueTo[n])}
<1>1. c \in Nat
  BY ItemsNumbered
<1>2. 0 \in P
  <2>1. \A r \in Round, i \in Item : EnqueueLevel(0, EnqueueTo[0 - 1])[i][r] = r
    BY DEF EnqueueLevel
  <2>2. EnqueueLevel(0, EnqueueTo[0 - 1]) \in [Item -> [Round -> Round]]
    BY <2>1 DEF EnqueueLevel
  <2>3. EnqueueTo[0] = EnqueueLevel(0, EnqueueTo[0 - 1]) /\ 0 \in 0 .. c
    BY <1>1, EnqueueToIs
  <2> QED
    BY <2>1, <2>2, <2>3, GrownRefl
<1>3. ASSUME NEW n \in 1 .. c, n - 1 \in P PROVE n \in P
  <2> DEFINE e == EnqueueTo[n - 1]
             f == EnqueueTo[n]
  <2>1. Good(e)
    BY <1>3
  <2>2. f = EnqueueLevel(n, e) /\ n \in 0 .. c
    BY <1>1, <1>3, EnqueueToIs
  <2> HIDE DEF e, f
  <2>3. ASSUME NEW r \in Round, NEW i \in Item
        PROVE  f[i][r] \in Round /\ Grown(r, f[i][r])
    <3>1. f[i][r] = IF n = 0 \/ i \in r.remove \/ i \in ToSet(r.add) THEN r
                        ELSE Fold(e, [r EXCEPT !.add = Append(@, i)], Deps[i])
      BY <2>2 DEF EnqueueLevel
    <3>2. CASE i \in r.remove \/ i \in ToSet(r.add) \/ n = 0
      BY <3>1, <3>2, GrownRefl
    <3>3. CASE ~(i \in r.remove \/ i \in ToSet(r.add) \/ n = 0)
      <4> DEFINE q == [r EXCEPT !.add = Append(@, i)]
                 R == {p \in Round : Grown(r, p)}
      <4>1. q \in R
        BY <3>3, GrownByOne
      <4>2. \A p \in Round, d \in Item : p \in R => e[d][p] \in R
        BY <2>1, GrownTrans
      <4>3. Deps[i] \in Seq(Item)
        BY DepsAssumption
      <4>4. q \in Round
        BY <4>1
      <4> HIDE DEF q, R
      <4>5. Fold(e, q, Deps[i]) \in R
        BY <2>1, <4>1, <4>2, <4>3, <4>4, FoldKeeps
      <4> QED
        BY <3>1, <3>3, <4>5 DEF q, R
    <3> QED
      BY <3>2, <3>3
  <2>4. f = [i \in Item |-> [r \in Round |-> f[i][r]]]
    BY <2>2 DEF EnqueueLevel
  <2>5. f \in [Item -> [Round -> Round]]
    BY <2>3, <2>4
  <2>6. Good(f)
    BY <2>3, <2>5
  <2> QED
    BY <2>2, <2>6 DEF f
<1>4. \A n \in 0 .. c : n \in P
  <2> HIDE DEF P
  <2> QED
    BY <1>1, <1>2, <1>3, UpTo
<1> QED
  BY <1>4

\* What i refers to is in the queue, or is to be removed.
HasDeps(i, q) == \A d \in ToSet(Deps[i]) : d \in ToSet(q.add) \cup q.remove

\* What was added has what it refers to.
Complete(r, q) == \A i \in ToSet(q.add) \ ToSet(r.add) : HasDeps(i, q)

\* What has what it refers to keeps it while the queue grows.
LEMMA HasDepsGrows ==
  ASSUME NEW i, NEW q, NEW p, HasDeps(i, q), Grown(q, p)
  PROVE  HasDeps(i, p)
BY DEF HasDeps, Grown

\* Two additions that are each complete are complete together.
LEMMA CompleteTrans ==
  ASSUME NEW r, NEW q, NEW p, Complete(r, q), Grown(q, p), Complete(q, p)
  PROVE  Complete(r, p)
<1> SUFFICES ASSUME NEW i \in ToSet(p.add) \ ToSet(r.add) PROVE HasDeps(i, p)
  BY DEF Complete
<1>1. CASE i \in ToSet(q.add)
  BY <1>1, HasDepsGrows DEF Complete
<1>2. CASE i \notin ToSet(q.add)
  BY <1>2 DEF Complete
<1> QED
  BY <1>1, <1>2

\* How many items are not in the queue.
Left(r) == Cardinality(Item \ ToSet(r.add))

\* Left is a number, ...
LEMMA LeftIs ==
  ASSUME NEW r
  PROVE  Left(r) \in Nat /\ (Left(r) = 0 => \A i \in Item : i \in ToSet(r.add))
<1>1. IsFiniteSet(Item \ ToSet(r.add))
  BY ItemAssumption, FS_Subset
<1> QED
  BY <1>1, FS_CardinalityType, FS_EmptySet DEF Left

\* ... which goes down as the queue grows, ...
LEMMA LeftShrinks ==
  ASSUME NEW r, NEW q, ToSet(r.add) \subseteq ToSet(q.add)
  PROVE  Left(q) <= Left(r)
<1>1. IsFiniteSet(Item \ ToSet(r.add)) /\ Item \ ToSet(q.add) \subseteq Item \ ToSet(r.add)
  BY ItemAssumption, FS_Subset
<1> QED
  BY <1>1, FS_Subset DEF Left

\* ... by at least one for every entity that joins it.
LEMMA LeftByOne ==
  ASSUME NEW r, NEW q, NEW i \in Item, i \notin ToSet(r.add), ToSet(q.add) = ToSet(r.add) \cup {i}
  PROVE  Left(q) = Left(r) - 1
<1>1. IsFiniteSet(Item \ ToSet(r.add)) /\ i \in Item \ ToSet(r.add)
  BY ItemAssumption, FS_Subset
<1>2. Item \ ToSet(q.add) = (Item \ ToSet(r.add)) \ {i}
  OBVIOUS
<1> QED
  BY <1>1, <1>2, FS_RemoveElement DEF Left

\* With enough levels, what is added comes with what it refers to.
LEMMA EnqueueToCompletes ==
  \A n \in 0 .. Cardinality(Item) : \A i \in Item, r \in Round :
     Left(r) <= n => /\ Complete(r, EnqueueTo[n][i][r])
                     /\ i \in ToSet(EnqueueTo[n][i][r].add) \cup EnqueueTo[n][i][r].remove
<1> DEFINE c == Cardinality(Item)
           Good(n) == \A i \in Item, r \in Round :
                         Left(r) <= n => /\ Complete(r, EnqueueTo[n][i][r])
                                         /\ i \in ToSet(EnqueueTo[n][i][r].add) \cup EnqueueTo[n][i][r].remove
           P == {n \in 0 .. c : Good(n)}
<1>1. c \in Nat
  BY ItemsNumbered
<1>2. ASSUME NEW n \in 0 .. c, NEW i \in Item, NEW r \in Round
      PROVE  EnqueueTo[n][i][r] = IF n = 0 \/ i \in r.remove \/ i \in ToSet(r.add) THEN r
                                  ELSE Fold(EnqueueTo[n - 1], [r EXCEPT !.add = Append(@, i)], Deps[i])
  <2> DEFINE e == EnqueueTo[n - 1]
  <2>1. EnqueueTo[n] = EnqueueLevel(n, e)
    BY EnqueueToIs
  <2> HIDE DEF e
  <2>2. EnqueueTo[n][i][r] = IF n = 0 \/ i \in r.remove \/ i \in ToSet(r.add) THEN r
                             ELSE Fold(e, [r EXCEPT !.add = Append(@, i)], Deps[i])
    BY <2>1 DEF EnqueueLevel
  <2> QED
    BY <2>2 DEF e
<1>3. ASSUME NEW n \in 0 .. c, NEW i \in Item, NEW r \in Round, Left(r) <= n,
             n = 0 \/ i \in r.remove \/ i \in ToSet(r.add)
      PROVE  /\ Complete(r, EnqueueTo[n][i][r])
             /\ i \in ToSet(EnqueueTo[n][i][r].add) \cup EnqueueTo[n][i][r].remove
  <2>1. EnqueueTo[n][i][r] = r
    BY <1>2, <1>3
  <2>2. n = 0 => i \in ToSet(r.add)
    BY <1>3, LeftIs
  <2> QED
    BY <1>3, <2>1, <2>2 DEF Complete
<1>4. 0 \in P
  <2>1. 0 \in 0 .. c
    BY <1>1
  <2>2. Good(0)
    BY <1>3, <2>1
  <2> QED
    BY <2>1, <2>2
<1>5. ASSUME NEW n \in 1 .. c, n - 1 \in P PROVE n \in P
  <2>1. n \in 0 .. c /\ n - 1 \in 0 .. c /\ Good(n - 1)
    BY <1>1, <1>5
  <2> DEFINE e == EnqueueTo[n - 1]
  <2>2. /\ e \in [Item -> [Round -> Round]]
        /\ \A p \in Round, d \in Item : Grown(p, e[d][p])
    BY <2>1, EnqueueToGrows
  <2>3. \A p \in Round, d \in Item :
           Left(p) <= n - 1 => /\ Complete(p, e[d][p])
                               /\ d \in ToSet(e[d][p].add) \cup e[d][p].remove
    BY <2>1
  <2>4. ASSUME NEW i \in Item, NEW r \in Round, Left(r) <= n
        PROVE  /\ Complete(r, EnqueueTo[n][i][r])
               /\ i \in ToSet(EnqueueTo[n][i][r].add) \cup EnqueueTo[n][i][r].remove
    <3>1. CASE n = 0 \/ i \in r.remove \/ i \in ToSet(r.add)
      BY <1>3, <2>1, <2>4, <3>1
    <3>2. CASE ~(n = 0 \/ i \in r.remove \/ i \in ToSet(r.add))
      <4> DEFINE q == [r EXCEPT !.add = Append(@, i)]
                 s == Deps[i]
      <4>1. EnqueueTo[n][i][r] = Fold(e, q, s)
        BY <1>2, <2>1, <3>2
      <4>2. q \in Round /\ Grown(r, q) /\ ToSet(q.add) = ToSet(r.add) \cup {i} /\ q.remove = r.remove
        BY <3>2, GrownByOne
      <4>3. s \in Seq(Item) /\ Len(s) \in Nat /\ DOMAIN s = 1 .. Len(s) /\ \A k \in 1 .. Len(s) : s[k] \in Item
        <5>1. s \in Seq(Item)
          BY DepsAssumption
        <5> QED
          BY <5>1, LenProperties
      <4>4. Left(q) <= n - 1
        <5>1. Left(q) = Left(r) - 1
          BY <3>2, <4>2, LeftByOne
        <5> QED
          BY <2>4, <5>1, LeftIs
      <4> HIDE DEF e, q, s
      <4>5. PICK h : Trace(h, Round, e, q, s)
        BY <2>2, <4>2, <4>3, FoldTrace
      <4>6. /\ h \in [0 .. Len(s) -> Round]
            /\ h[0] = q
            /\ \A k \in 1 .. Len(s) : h[k] = e[s[k]][h[k - 1]]
            /\ Fold(e, q, s) = h[Len(s)]
        BY <4>5 DEF Trace
      <4> DEFINE Done(k) == \A j \in 1 .. k : s[j] \in ToSet(h[k].add) \cup h[k].remove
                 T == {k \in 0 .. Len(s) : Grown(q, h[k]) /\ Complete(q, h[k]) /\ Done(k)}
      <4>7. 0 \in T
        <5>1. Grown(q, h[0]) /\ Complete(q, h[0])
          BY <4>6, GrownRefl DEF Complete
        <5>2. Done(0)
          OBVIOUS
        <5>3. 0 \in 0 .. Len(s)
          BY <4>3
        <5> QED
          BY <5>1, <5>2, <5>3
      <4>8. ASSUME NEW k \in 1 .. Len(s), k - 1 \in T PROVE k \in T
        <5>1. k - 1 \in 0 .. Len(s) /\ k \in 0 .. Len(s) /\ k \in Nat
          BY <4>3
        <5>2. h[k - 1] \in Round /\ s[k] \in Item /\ h[k] = e[s[k]][h[k - 1]]
          BY <4>3, <4>6, <5>1
        <5>3. Grown(q, h[k - 1]) /\ Complete(q, h[k - 1]) /\ Done(k - 1)
          BY <4>8
        <5>4. Left(h[k - 1]) <= n - 1
          <6>1. Left(h[k - 1]) <= Left(q)
            BY <5>3, LeftShrinks DEF Grown
          <6>2. Left(q) \in Int /\ Left(h[k - 1]) \in Int /\ n \in Int
            BY LeftIs
          <6> QED
            BY <4>4, <6>1, <6>2
        <5>5. Grown(h[k - 1], h[k]) /\ Complete(h[k - 1], h[k]) /\ s[k] \in ToSet(h[k].add) \cup h[k].remove
          BY <2>2, <2>3, <5>2, <5>4
        <5>6. Grown(q, h[k]) /\ Complete(q, h[k])
          BY <5>3, <5>5, GrownTrans, CompleteTrans
        <5>7. Done(k)
          <6> SUFFICES ASSUME NEW j \in 1 .. k PROVE s[j] \in ToSet(h[k].add) \cup h[k].remove
            OBVIOUS
          <6>1. CASE j = k
            BY <5>5, <6>1
          <6>2. CASE j # k
            <7>1. j \in 1 .. k - 1
              BY <5>1, <6>2
            <7>2. s[j] \in ToSet(h[k - 1].add) \cup h[k - 1].remove
              BY <5>3, <7>1
            <7> QED
              BY <5>5, <7>2 DEF Grown
          <6> QED
            BY <6>1, <6>2
        <5> QED
          BY <5>1, <5>6, <5>7
      <4>9. Len(s) \in T
        <5> HIDE DEF T
        <5>1. \A k \in 0 .. Len(s) : k \in T
          BY <4>3, <4>7, <4>8, UpTo
        <5>2. Len(s) \in 0 .. Len(s)
          BY <4>3
        <5> QED
          BY <5>1, <5>2
      <4> DEFINE p == h[Len(s)]
      <4>10. Grown(q, p) /\ Complete(q, p) /\ Done(Len(s))
        BY <4>9
      <4>11. HasDeps(i, p)
        <5> SUFFICES ASSUME NEW d \in ToSet(Deps[i]) PROVE d \in ToSet(p.add) \cup p.remove
          BY DEF HasDeps
        <5>1. PICK j \in 1 .. Len(s) : d = s[j]
          BY <4>3 DEF ToSet, s
        <5> QED
          BY <4>10, <5>1
      <4> HIDE DEF p
      <4>12. Complete(r, p)
        <5>1. Complete(r, p) \/ \E j \in ToSet(p.add) \ ToSet(r.add) : ~HasDeps(j, p)
          BY DEF Complete
        <5>2. \A j \in ToSet(p.add) \ ToSet(r.add) : HasDeps(j, p)
          <6> TAKE j \in ToSet(p.add) \ ToSet(r.add)
          <6>1. j = i \/ j \in ToSet(p.add) \ ToSet(q.add)
            BY <4>2
          <6> QED
            BY <4>10, <4>11, <6>1 DEF Complete
        <5> QED
          BY <5>1, <5>2
      <4>13. i \in ToSet(p.add)
        BY <4>2, <4>10 DEF Grown
      <4>14. EnqueueTo[n][i][r] = p
        BY <4>1, <4>6 DEF p
      <4> QED
        BY <4>12, <4>13, <4>14
    <3> QED
      BY <3>1, <3>2
  <2>5. Good(n)
    BY <2>4
  <2> QED
    BY <2>1, <2>5
<1>6. \A n \in 0 .. c : n \in P
  <2> HIDE DEF P
  <2> QED
    BY <1>1, <1>4, <1>5, UpTo
<1> QED
  BY <1>6

\* What add() of one item does to a round: the item is in the queue or to be
\* removed; what was queued stays, what is to be removed is not queued, and
\* whatever joins the queue has what it refers to there, or among the removals.
THEOREM EnqueueIs ==
  /\ Enqueue \in [Item -> [Round -> Round]]
  /\ \A i \in Item, r \in Round : /\ Grown(r, Enqueue[i][r]) /\ Complete(r, Enqueue[i][r])
                                  /\ i \in ToSet(Enqueue[i][r].add) \cup Enqueue[i][r].remove
<1> DEFINE c == Cardinality(Item)
<1>1. c \in 0 .. c
  BY ItemsNumbered
<1>2. /\ EnqueueTo[c] \in [Item -> [Round -> Round]]
      /\ \A i \in Item, r \in Round : Grown(r, EnqueueTo[c][i][r])
  BY <1>1, EnqueueToGrows
<1>3. \A r \in Round : Left(r) <= c
  <2> TAKE r \in Round
  <2>1. Item \ ToSet(r.add) \subseteq Item
    OBVIOUS
  <2> QED
    BY <2>1, ItemAssumption, FS_Subset DEF Left
<1>4. \A i \in Item, r \in Round :
           Left(r) <= c => /\ Complete(r, EnqueueTo[c][i][r])
                           /\ i \in ToSet(EnqueueTo[c][i][r].add) \cup EnqueueTo[c][i][r].remove
  BY <1>1, EnqueueToCompletes
<1> HIDE DEF c
<1>5. Enqueue = EnqueueTo[c]
  BY DEF Enqueue, c
<1> QED
  BY <1>2, <1>3, <1>4, <1>5

\* What a round is like: nothing is both to be stored and to be removed, and
\* everything comes with what it refers to.
Tidy(r) == /\ r \in Round
           /\ ToSet(r.add) \cap r.remove = {}
           /\ \A i \in ToSet(r.add) : HasDeps(i, r)

\* A tidy round stays tidy when what joins it is complete.
LEMMA TidyGrows ==
  ASSUME NEW r, Tidy(r), NEW q \in Round, Grown(r, q), Complete(r, q)
  PROVE  Tidy(q)
<1>1. ToSet(q.add) \cap q.remove = {}
  BY DEF Tidy, Grown
<1>2. ASSUME NEW i \in ToSet(q.add) PROVE HasDeps(i, q)
  <2>1. CASE i \in ToSet(r.add)
    BY <2>1, HasDepsGrows DEF Tidy
  <2>2. CASE i \notin ToSet(r.add)
    BY <1>2, <2>2 DEF Complete
  <2> QED
    BY <2>1, <2>2
<1> QED
  BY <1>1, <1>2 DEF Tidy

\* add() of one item ...
LEMMA EnqueueTidy ==
  ASSUME NEW r, Tidy(r), NEW i \in Item
  PROVE  Tidy(Enqueue[i][r]) /\ Grown(r, Enqueue[i][r])
<1>1. r \in Round
  BY DEF Tidy
<1>2. Enqueue[i][r] \in Round /\ Grown(r, Enqueue[i][r]) /\ Complete(r, Enqueue[i][r])
  BY <1>1, EnqueueIs
<1> QED
  BY <1>2, TidyGrows

\* ... and of several.
LEMMA EnqueueAllTidy ==
  ASSUME NEW r, Tidy(r), NEW s \in Seq(Item)
  PROVE  Tidy(Fold(Enqueue, r, s)) /\ Grown(r, Fold(Enqueue, r, s))
<1> DEFINE R == {q \in Round : Tidy(q) /\ Grown(r, q)}
<1>1. r \in Round /\ r \in R
  BY GrownRefl DEF Tidy
<1>2. ASSUME NEW q \in Round, NEW i \in Item, q \in R PROVE Enqueue[i][q] \in R
  <2>1. Tidy(q) /\ Grown(r, q)
    BY <1>2
  <2>2. Tidy(Enqueue[i][q]) /\ Grown(q, Enqueue[i][q])
    BY <2>1, EnqueueTidy
  <2>3. Enqueue[i][q] \in Round
    BY <2>2 DEF Tidy
  <2> QED
    BY <2>1, <2>2, <2>3, GrownTrans
<1> HIDE DEF R
<1>3. Fold(Enqueue, r, s) \in R
  BY <1>1, <1>2, EnqueueIs, FoldKeeps
<1> QED
  BY <1>3 DEF R

\* remove() of an item.
LEMMA DequeueTidy ==
  ASSUME NEW r, Tidy(r), NEW i \in Item
  PROVE  /\ Tidy(Dequeue(r, i))
         /\ Dequeue(r, i).state = r.state
         /\ Dequeue(r, i).remove = r.remove \cup {i}
         /\ ToSet(Dequeue(r, i).add) = ToSet(r.add) \ {i}
<1> DEFINE q == Dequeue(r, i)
           s == Only(r.add, Item \ {i})
<1>1. r.add \in Seq(Item) /\ r.remove \in SUBSET Item /\ r.state \in {"open", "inCommit", "committed"}
  BY DEF Tidy, Round
<1>2. s \in Seq(Item) /\ ToSet(s) = ToSet(r.add) \ {i}
  <2>1. s \in Seq(Item) /\ ToSet(s) = ToSet(r.add) \cap (Item \ {i})
    BY <1>1, OnlyIs
  <2>2. ToSet(r.add) \subseteq Item
    BY <1>1, ToSetIn
  <2> QED
    BY <2>1, <2>2
<1> HIDE DEF s
<1>3. q.add = s /\ q.remove = r.remove \cup {i} /\ q.state = r.state /\ q \in Round
  BY <1>1, <1>2 DEF Dequeue, Tidy, Round, s
<1> HIDE DEF q
<1>4. Tidy(q)
  <2>1. ToSet(q.add) \cap q.remove = {}
    BY <1>2, <1>3 DEF Tidy
  <2>2. \A j \in ToSet(q.add) : HasDeps(j, q)
    BY <1>2, <1>3 DEF Tidy, HasDeps
  <2> QED
    BY <1>3, <2>1, <2>2 DEF Tidy
<1> QED
  BY <1>2, <1>3, <1>4 DEF q

-----------------------------------------------------------------------------
(* Sorting: the groups of GroupArraySort                                   *)

GroupOf == [type : {TypeOf[i] : i \in Item}, items : Seq(Item)]

\* What e needs that needs nothing itself, or is of its own type.
Shallow(e, d) == Deps[d] = <<>> \/ TypeOf[d] = TypeOf[e]

\* Elements that are not the only ones of their type need nothing but that.
ShallowReferences == \A e, i \in Item : i # e /\ TypeOf[i] = TypeOf[e] =>
                        \A d \in ToSet(Deps[e]) : Shallow(e, d)

\* What i needs of the elements is in a group before k.
After(gs, i, k, els) == \A d \in ToSet(Deps[i]) \cap els :
    \E j \in DOMAIN gs : j < k /\ d \in ToSet(gs[j].items)

\* The groups hold what was added, where it was added, and nothing but
\* elements, by type, ...
Filled(s, els) ==
    /\ s \in Visiting
    /\ \A i \in Item : s.at[i] # -1 => /\ s.at[i] + 1 \in DOMAIN s.groups
                                       /\ i \in ToSet(s.groups[s.at[i] + 1].items)
    /\ \A k \in DOMAIN s.groups :
          /\ \E i \in Item : i \in ToSet(s.groups[k].items)
          /\ \A i \in ToSet(s.groups[k].items) :
                s.at[i] = k - 1 /\ i \in els /\ TypeOf[i] = s.groups[k].type

\* ... and each after what it needs, under that condition.
Sound(s, els) ==
    /\ Filled(s, els)
    /\ ShallowReferences => \A k \in DOMAIN s.groups : \A i \in ToSet(s.groups[k].items) :
                            After(s.groups, i, k, els)

\* What is added stays where it is, and those whose dependencies are being
\* visited are not added meanwhile.
Later(s, q) == /\ s.parents \subseteq q.parents
               /\ \A i \in Item : s.at[i] # -1 => q.at[i] = s.at[i]
               /\ \A i \in s.parents : s.at[i] = -1 => q.at[i] = -1

\* Later is a preorder.
LEMMA LaterRefl == \A s : Later(s, s)
BY DEF Later

\* One visit after the other.
LEMMA LaterTrans ==
  ASSUME NEW s \in Visiting, NEW q, NEW p, Later(s, q), Later(q, p)
  PROVE  Later(s, p)
BY DEF Later, Visiting

\* getFirstGroup() finds a group of the type at minLevel or behind it, or none.
LEMMA FirstGroupIs ==
  ASSUME NEW gs \in Seq(GroupOf), NEW t, NEW m \in Int
  PROVE  LET f == FirstGroup(gs, t, m)
         IN  /\ f \in Int
             /\ f # -1 => f + 1 \in DOMAIN gs /\ gs[f + 1].type = t /\ f >= m
<1> DEFINE T == {-1} \cup {i \in 0 .. Len(gs) - 1 : i >= m /\ gs[i + 1].type = t}
<1>1. Len(gs) \in Nat /\ DOMAIN gs = 1 .. Len(gs)
  BY LenProperties
<1>2. T \in SUBSET Int /\ T # {} /\ \A x \in T : x <= Len(gs)
  BY <1>1
<1>3. Max(T) \in T
  <2> HIDE DEF T
  <2>1. Len(gs) \in Int
    BY <1>1
  <2> QED
    BY <1>2, <2>1, MaxIs
<1>4. \A x \in T : x # -1 => x + 1 \in DOMAIN gs /\ gs[x + 1].type = t /\ x >= m
  BY <1>1
<1>5. FirstGroup(gs, t, m) = Max(T)
  BY DEF FirstGroup
<1> HIDE DEF T
<1> QED
  BY <1>2, <1>3, <1>4, <1>5

\* e is put into the k-th group of q, which is a new one or was there in s.
PutInto(s, q, e, k) ==
    /\ DOMAIN q.groups = DOMAIN s.groups \cup {k}
    /\ q.groups[k].type = TypeOf[e]
    /\ k \in DOMAIN s.groups => /\ s.groups[k].type = TypeOf[e]
                                /\ ToSet(q.groups[k].items) = ToSet(s.groups[k].items) \cup {e}
    /\ k \notin DOMAIN s.groups => /\ ToSet(q.groups[k].items) = {e}
                                   /\ \A j \in DOMAIN s.groups : j < k
    /\ \A j \in DOMAIN s.groups : j # k => q.groups[j] = s.groups[j]

\* What injectElement() makes of the groups.
LEMMA InjectIs ==
  ASSUME NEW s \in Visiting, NEW e \in Item, NEW m \in Int
  PROVE  LET q == Inject(s, e, m)
         IN  /\ q \in Visiting
             /\ q.parents = s.parents /\ q.threw = s.threw
             /\ q.at[e] # -1 /\ \A i \in Item : i # e => q.at[i] = s.at[i]
             /\ m = -1 => q.level = q.at[e]
             /\ \E k \in DOMAIN q.groups : /\ PutInto(s, q, e, k) /\ q.at[e] = k - 1
                                           /\ k \in DOMAIN s.groups => k > m
<1> DEFINE gs == s.groups
           f == FirstGroup(gs, TypeOf[e], m)
           n == Len(gs)
           l == IF f = -1 THEN n ELSE f
           new == Append(gs, [type |-> TypeOf[e], items |-> <<e>>])
           old == [gs EXCEPT ![l + 1].items = Append(@, e)]
           hs == IF f = -1 THEN new ELSE old
           q == Inject(s, e, m)
<1>1. /\ gs \in Seq(GroupOf) /\ s.at \in [Item -> Int] /\ s.parents \in SUBSET Item
      /\ s.threw \in BOOLEAN /\ s.level \in Int
  BY DEF Visiting, GroupOf
<1>2. n \in Nat /\ DOMAIN gs = 1 .. n /\ \A k \in 1 .. n : gs[k] \in GroupOf
  BY <1>1, LenProperties
<1>3. f \in Int /\ (f # -1 => f + 1 \in DOMAIN gs /\ gs[f + 1].type = TypeOf[e] /\ f >= m)
  BY <1>1, FirstGroupIs
<1>4. TypeOf[e] \in {TypeOf[i] : i \in Item}
  OBVIOUS
<1>5. q = [s EXCEPT !.groups = hs, !.at[e] = l, !.level = IF m = -1 THEN l ELSE m]
  BY Zenon DEF Inject
<1>6. l \in Int /\ l # -1
  BY <1>2, <1>3
<1>7. ASSUME f = -1
      PROVE  /\ hs = new /\ new \in Seq(GroupOf) /\ DOMAIN new = 1 .. n + 1
             /\ \A j \in 1 .. n : new[j] = gs[j]
             /\ new[n + 1] = [type |-> TypeOf[e], items |-> <<e>>]
  <2>1. [type |-> TypeOf[e], items |-> <<e>>] \in GroupOf
    BY <1>4 DEF GroupOf
  <2> DEFINE g == [type |-> TypeOf[e], items |-> <<e>>]
  <2> HIDE DEF g, gs
  <2>2. Append(gs, g) \in Seq(GroupOf) /\ Len(Append(gs, g)) = n + 1
    BY <1>1, <2>1 DEF g
  <2>3. \A j \in 1 .. n : Append(gs, g)[j] = gs[j]
    BY <1>1, <1>2
  <2>4. Append(gs, g)[n + 1] = g
    BY <1>1, <1>2
  <2>5. DOMAIN Append(gs, g) = 1 .. n + 1
    BY <2>2, LenProperties
  <2> QED
    BY <1>7, <2>2, <2>3, <2>4, <2>5 DEF g, gs
<1>8. ASSUME f # -1
      PROVE  /\ hs = old /\ old \in Seq(GroupOf) /\ DOMAIN old = 1 .. n
             /\ l + 1 \in 1 .. n /\ gs[l + 1].type = TypeOf[e]
             /\ \A j \in 1 .. n : j # l + 1 => old[j] = gs[j]
             /\ old[l + 1].type = TypeOf[e] /\ old[l + 1].items = Append(gs[l + 1].items, e)
             /\ gs[l + 1].items \in Seq(Item)
  <2>1. l = f /\ l + 1 \in 1 .. n /\ gs[l + 1].type = TypeOf[e]
    BY <1>2, <1>3, <1>8
  <2>2. PICK k \in 1 .. n : k = l + 1
    BY <2>1
  <2>3. gs[k].items \in Seq(Item) /\ gs[k].type \in {TypeOf[i] : i \in Item}
    BY <1>2 DEF GroupOf
  <2> DEFINE g == [gs[k] EXCEPT !.items = Append(@, e)]
  <2>4. g \in GroupOf /\ g.type = gs[k].type /\ g.items = Append(gs[k].items, e)
    <3> DEFINE x == gs[k].items
               t == gs[k].type
    <3>1. gs[k] = [type |-> t, items |-> x]
      BY <1>2 DEF GroupOf
    <3>2. ASSUME NEW r, NEW y, NEW z, r = [type |-> y, items |-> z]
          PROVE  [r EXCEPT !.items = Append(@, e)] = [type |-> y, items |-> Append(z, e)]
      BY <3>2
    <3>3. Append(x, e) \in Seq(Item)
      BY <2>3
    <3>4. g = [type |-> t, items |-> Append(x, e)]
      BY <3>1, <3>2, Zenon
    <3> HIDE DEF x
    <3> QED
      BY <2>3, <3>3, <3>4 DEF GroupOf, x
  <2>5. old = [gs EXCEPT ![k] = g]
    BY <2>2
  <2> HIDE DEF g, gs, l
  <2>6. old \in [1 .. n -> GroupOf]
    BY <1>2, <2>4, <2>5
  <2>7. old \in Seq(GroupOf) /\ DOMAIN old = 1 .. n
    BY <1>2, <2>6, MappedAt
  <2>8. old[k] = g /\ \A j \in 1 .. n : j # k => old[j] = gs[j]
    BY <1>1, <1>2, <2>5
  <2> QED
    BY <1>8, <2>1, <2>2, <2>3, <2>4, <2>7, <2>8
<1> HIDE DEF q, hs, l, f
<1>9. hs \in Seq(GroupOf)
  BY <1>7, <1>8
<1>10. /\ q.groups = hs /\ q.at = [s.at EXCEPT ![e] = l] /\ q.parents = s.parents /\ q.threw = s.threw
       /\ q.level = IF m = -1 THEN l ELSE m
       /\ q \in Visiting
  <2>1. s = [groups |-> s.groups, at |-> s.at, parents |-> s.parents, threw |-> s.threw, level |-> s.level]
    BY DEF Visiting
  <2>2. q = [groups |-> hs, at |-> [s.at EXCEPT ![e] = l], parents |-> s.parents, threw |-> s.threw,
             level |-> IF m = -1 THEN l ELSE m]
    BY <1>5, <2>1
  <2>3. [s.at EXCEPT ![e] = l] \in [Item -> Int]
    BY <1>1, <1>6
  <2> HIDE DEF gs
  <2>4. q \in Visiting
    BY <1>1, <1>6, <1>9, <2>2, <2>3 DEF Visiting, GroupOf
  <2> QED
    BY <2>2, <2>4
<1>11. /\ q.at[e] = l /\ q.at[e] # -1 /\ \A i \in Item : i # e => q.at[i] = s.at[i]
       /\ m = -1 => q.level = q.at[e]
  BY <1>1, <1>6, <1>10
<1> DEFINE PutAt(k) == PutInto(s, q, e, k) /\ q.at[e] = k - 1 /\ (k \in DOMAIN s.groups => k > m)
<1>12. ASSUME f = -1
       PROVE  \E k \in DOMAIN q.groups : PutAt(k)
  <2>1. q.groups = new /\ DOMAIN q.groups = 1 .. n + 1 /\ n + 1 \notin 1 .. n /\ n + 1 \in 1 .. n + 1
    BY <1>2, <1>7, <1>10, <1>12
  <2>2. q.groups[n + 1].type = TypeOf[e] /\ q.groups[n + 1].items = <<e>>
    BY <1>7, <1>12, <2>1
  <2>3. ToSet(<<e>>) = {e}
    BY DEF ToSet
  <2>4. 1 .. n + 1 = (1 .. n) \cup {n + 1} /\ \A j \in 1 .. n : j < n + 1
    BY <1>2
  <2>5. \A j \in 1 .. n : q.groups[j] = gs[j]
    BY <1>7, <1>12, <2>1
  <2> HIDE DEF new, n
  <2>6. PutInto(s, q, e, n + 1)
    BY <1>2, <2>1, <2>2, <2>3, <2>4, <2>5 DEF PutInto
  <2>7. q.at[e] = n
    BY <1>11, <1>12 DEF l, n
  <2>8. n + 1 \notin DOMAIN s.groups /\ n = (n + 1) - 1
    BY <1>2, <2>1
  <2>9. PutAt(n + 1)
    BY <2>6, <2>7, <2>8
  <2> HIDE DEF PutAt
  <2> QED
    BY <2>1, <2>9
<1>13. ASSUME f # -1
       PROVE  \E k \in DOMAIN q.groups : PutAt(k)
  <2>1. q.groups = old /\ DOMAIN q.groups = 1 .. n /\ l + 1 \in 1 .. n
    BY <1>8, <1>10, <1>13
  <2>2. q.groups[l + 1].type = TypeOf[e] /\ q.groups[l + 1].items = Append(gs[l + 1].items, e)
    BY <1>8, <1>13, <2>1
  <2>3. ToSet(q.groups[l + 1].items) = ToSet(gs[l + 1].items) \cup {e}
    BY <1>8, <1>13, <2>2, ToSetAppend
  <2>4. (\A j \in 1 .. n : j # l + 1 => q.groups[j] = gs[j]) /\ gs[l + 1].type = TypeOf[e]
    BY <1>8, <1>13, <2>1
  <2> HIDE DEF old, n
  <2>5. PICK k \in DOMAIN q.groups : k = l + 1
    BY <2>1
  <2>6. PutInto(s, q, e, k)
    BY <1>2, <2>1, <2>2, <2>3, <2>4, <2>5 DEF PutInto
  <2>7. l = f /\ f >= m
    BY <1>3, <1>13 DEF l
  <2>8. q.at[e] = k - 1 /\ k > m
    BY <1>3, <1>11, <2>5, <2>7
  <2>9. PutAt(k)
    BY <2>6, <2>8
  <2> HIDE DEF PutAt
  <2> QED
    BY <2>9
<1>14. \E k \in DOMAIN q.groups : PutAt(k)
  BY <1>12, <1>13
<1> QED
  BY <1>10, <1>11, <1>14 DEF q

\* A group of e's type that is not before level m is behind that of d.
Behind(s, e, d, m) == m >= s.at[d] /\ (TypeOf[d] = TypeOf[e] => m > s.at[d])

\* An element is added when everything it needs has been, behind what it can
\* see of that.
LEMMA InjectSound ==
  ASSUME NEW els, NEW s, Sound(s, els), NEW e \in Item \cap els, NEW m \in Int,
         s.at[e] = -1, \A d \in ToSet(Deps[e]) \cap els : s.at[d] # -1,
         \A d \in ToSet(Deps[e]) \cap els : Shallow(e, d) => Behind(s, e, d, m)
  PROVE  Sound(Inject(s, e, m), els)
<1> DEFINE q == Inject(s, e, m)
<1>1. s \in Visiting
  BY DEF Sound, Filled
<1>2. /\ q \in Visiting
      /\ q.at[e] # -1 /\ \A i \in Item : i # e => q.at[i] = s.at[i]
  BY <1>1, InjectIs
<1>3. PICK k \in DOMAIN q.groups : /\ PutInto(s, q, e, k) /\ q.at[e] = k - 1
                                   /\ k \in DOMAIN s.groups => k > m
  BY <1>1, InjectIs
<1> HIDE DEF q
<1>4. /\ DOMAIN q.groups = DOMAIN s.groups \cup {k}
      /\ q.groups[k].type = TypeOf[e]
      /\ k \in DOMAIN s.groups => /\ s.groups[k].type = TypeOf[e]
                                  /\ ToSet(q.groups[k].items) = ToSet(s.groups[k].items) \cup {e}
      /\ k \notin DOMAIN s.groups => /\ ToSet(q.groups[k].items) = {e}
                                     /\ \A j \in DOMAIN s.groups : j < k
      /\ \A j \in DOMAIN s.groups : j # k => q.groups[j] = s.groups[j]
  BY <1>3 DEF PutInto
<1>5. /\ \A i \in Item : s.at[i] # -1 => /\ s.at[i] + 1 \in DOMAIN s.groups
                                         /\ i \in ToSet(s.groups[s.at[i] + 1].items)
      /\ \A j \in DOMAIN s.groups :
            /\ \E i \in Item : i \in ToSet(s.groups[j].items)
            /\ \A i \in ToSet(s.groups[j].items) :
                  s.at[i] = j - 1 /\ i \in els /\ TypeOf[i] = s.groups[j].type
  BY DEF Sound, Filled
<1>6. /\ DOMAIN s.groups \subseteq Nat /\ 0 \notin DOMAIN s.groups
       /\ DOMAIN q.groups \subseteq Nat /\ 0 \notin DOMAIN q.groups
       /\ s.at \in [Item -> Int] /\ q.at \in [Item -> Int]
  <2>1. s.groups \in Seq(GroupOf) /\ q.groups \in Seq(GroupOf)
    BY <1>1, <1>2 DEF Visiting, GroupOf
  <2>2. DOMAIN s.groups = 1 .. Len(s.groups) /\ DOMAIN q.groups = 1 .. Len(q.groups)
    BY <2>1, LenProperties
  <2> QED
    BY <1>1, <1>2, <2>2 DEF Visiting
<1>7. \A j \in DOMAIN s.groups : \A i \in ToSet(s.groups[j].items) : s.at[i] # -1
  BY <1>5, <1>6
<1>8. \A j \in DOMAIN s.groups : ToSet(s.groups[j].items) \subseteq Item
  <2> TAKE j \in DOMAIN s.groups
  <2>1. s.groups \in Seq(GroupOf)
    BY <1>1 DEF Visiting, GroupOf
  <2>2. s.groups[j] \in GroupOf
    BY <2>1, LenProperties
  <2>3. s.groups[j].items \in Seq(Item)
    BY <2>2 DEF GroupOf
  <2> QED
    BY <2>3, ToSetIn
<1>9. \A j \in DOMAIN s.groups : ToSet(s.groups[j].items) \subseteq ToSet(q.groups[j].items)
  BY <1>4
<1>10. Filled(q, els)
  <2>1. ASSUME NEW i \in Item, q.at[i] # -1
        PROVE  q.at[i] + 1 \in DOMAIN q.groups /\ i \in ToSet(q.groups[q.at[i] + 1].items)
    <3>1. CASE i = e
      <4>1. e \in ToSet(q.groups[k].items)
        BY <1>4
      <4>2. q.at[e] + 1 = k
        BY <1>3, <1>6
      <4> QED
        BY <3>1, <4>1, <4>2
    <3>2. CASE i # e
      <4>1. s.at[i] # -1 /\ q.at[i] = s.at[i]
        BY <1>2, <2>1, <3>2
      <4>2. PICK j \in DOMAIN s.groups : j = s.at[i] + 1 /\ i \in ToSet(s.groups[j].items)
        BY <1>5, <4>1
      <4>3. j \in DOMAIN q.groups
        BY <1>4
      <4> QED
        BY <1>9, <4>1, <4>2, <4>3
    <3> QED
      BY <3>1, <3>2
  <2>2. ASSUME NEW j \in DOMAIN q.groups
        PROVE  /\ \E i \in Item : i \in ToSet(q.groups[j].items)
               /\ \A i \in ToSet(q.groups[j].items) :
                     q.at[i] = j - 1 /\ i \in els /\ TypeOf[i] = q.groups[j].type
    <3>1. CASE j = k /\ k \notin DOMAIN s.groups
      BY <1>3, <1>4, <3>1
    <3>2. CASE j = k /\ k \in DOMAIN s.groups
      <4>1. ToSet(q.groups[k].items) = ToSet(s.groups[k].items) \cup {e}
            /\ s.groups[k].type = TypeOf[e] /\ q.groups[k].type = TypeOf[e]
        BY <1>4, <3>2
      <4>2. \A i \in ToSet(s.groups[k].items) :
               /\ i \in Item /\ i # e /\ s.at[i] = k - 1 /\ i \in els /\ TypeOf[i] = TypeOf[e]
        BY <1>5, <1>8, <1>7, <3>2, <4>1
      <4>3. \A i \in ToSet(q.groups[k].items) : i \in els /\ TypeOf[i] = TypeOf[e] /\ q.at[i] = k - 1
        BY <1>2, <1>3, <4>1, <4>2
      <4> QED
        BY <3>2, <4>1, <4>3
    <3>3. CASE j # k
      <4>1. j \in DOMAIN s.groups /\ q.groups[j] = s.groups[j]
        BY <1>4, <3>3
      <4>2. \A i \in ToSet(s.groups[j].items) : i \in Item /\ i # e
        BY <1>8, <1>7, <4>1
      <4> QED
        BY <1>2, <1>5, <4>1, <4>2
    <3> QED
      BY <3>1, <3>2, <3>3
  <2> QED
    BY <1>2, <2>1, <2>2 DEF Filled
<1>11. ASSUME ShallowReferences, NEW j \in DOMAIN q.groups, NEW i \in ToSet(q.groups[j].items)
      PROVE  After(q.groups, i, j, els)
  <2>1. CASE i # e
    <3>1. j \in DOMAIN s.groups /\ i \in ToSet(s.groups[j].items)
      BY <1>4, <1>11, <2>1
    <3>2. After(s.groups, i, j, els)
      BY <1>11, <3>1 DEF Sound
    <3>3. \A x \in DOMAIN s.groups : x \in DOMAIN q.groups
      BY <1>4
    <3> QED
      BY <1>9, <3>2, <3>3 DEF After
  <2>2. CASE i = e
    <3>1. j = k
      <4> SUFFICES ASSUME j # k PROVE FALSE
        OBVIOUS
      <4>1. j \in DOMAIN s.groups /\ e \in ToSet(s.groups[j].items)
        BY <1>4, <1>11, <2>2
      <4> QED
        BY <1>7, <4>1
    <3> SUFFICES ASSUME NEW d \in ToSet(Deps[e]) \cap els
                 PROVE  \E x \in DOMAIN q.groups : x < j /\ d \in ToSet(q.groups[x].items)
      BY <2>2 DEF After
    <3>2. d \in Item
      <4>1. Deps[e] \in Seq(Item)
        BY DepsAssumption
      <4> QED
        BY <4>1, ToSetIn
    <3>3. PICK x \in DOMAIN s.groups : x = s.at[d] + 1 /\ d \in ToSet(s.groups[x].items)
      BY <1>5, <3>2
    <3>4. ASSUME k \in DOMAIN s.groups PROVE x < k
      <4>1. PICK other \in Item : other \in ToSet(s.groups[k].items)
        BY <1>5, <3>4
      <4>2. other # e /\ TypeOf[other] = TypeOf[e] /\ s.groups[k].type = TypeOf[e]
        BY <1>4, <1>5, <1>7, <3>4, <4>1
      <4>3. Shallow(e, d)
        BY <1>11, <4>2 DEF ShallowReferences
      <4>4. Behind(s, e, d, m)
        BY <4>3
      <4>5. k > m /\ k \in Nat /\ x \in Nat /\ s.at[d] \in Int
        BY <1>3, <1>6, <3>2, <3>4
      <4>6. CASE x = k
        <5>1. TypeOf[d] = TypeOf[e]
          BY <1>5, <3>3, <4>2, <4>6
        <5>2. m > s.at[d]
          BY <4>4, <5>1 DEF Behind
        <5> QED
          BY <3>3, <4>5, <4>6, <5>2
      <4>7. CASE x # k
        <5>1. m >= s.at[d]
          BY <4>4 DEF Behind
        <5> QED
          BY <3>3, <4>5, <4>7, <5>1
      <4> QED
        BY <4>6, <4>7
    <3>5. x \in DOMAIN q.groups /\ x < j
      BY <1>4, <3>1, <3>4
    <3> QED
      BY <1>9, <3>3, <3>5
  <2> QED
    BY <2>1, <2>2
<1>12. Sound(q, els)
  BY <1>10, <1>11 DEF Sound
<1> QED
  BY <1>12 DEF q

Acc == [s : Visiting, min : Int]

\* What visit() does for one dependency d of e.
IntoDep(v, e) ==
    [d \in Item |-> [acc \in Acc |->
        LET r == v[d][acc.s]
        IN  [s |-> r, min |-> IF TypeOf[d] = TypeOf[e] THEN Len(r.groups)
                              ELSE Max({acc.min, r.level})]]]

\* One level of Visit.
VisitLevel(n, els, v) ==
    [e \in Item |-> [s \in Visiting |->
        IF n = 0 \/ s.threw \/ e \in s.parents THEN [s EXCEPT !.threw = TRUE]
        ELSE IF s.at[e] # -1 THEN [s EXCEPT !.level = s.at[e]]
        ELSE LET into == IntoDep(v, e)
                 parents == IF Deps[e] = <<>> THEN s.parents ELSE s.parents \cup {e}
                 end == Fold(into, [s |-> [s EXCEPT !.parents = parents], min |-> -1],
                             Needed(e, els))
             IN  IF end.s.threw THEN end.s ELSE Inject(end.s, e, end.min)]]

\* The levels of Visit exist, each made from the one below.
LEMMA VisitLevels ==
  ASSUME NEW c \in Nat, NEW els
  PROVE  \E f : f = [n \in 0 .. c |-> VisitLevel(n, els, f[n - 1])]
<1> DEFINE P == {k \in 0 .. c : \E f : f = [n \in 0 .. k |-> VisitLevel(n, els, f[n - 1])]}
<1>1. \A x, y : VisitLevel(0, els, x) = VisitLevel(0, els, y)
  BY DEF VisitLevel
<1>2. 0 \in P
  <2> DEFINE f == [n \in 0 .. 0 |-> VisitLevel(0, els, 0)]
  <2>1. f = [n \in 0 .. 0 |-> VisitLevel(n, els, f[n - 1])]
    BY <1>1
  <2> QED
    BY <2>1
<1>3. ASSUME NEW k \in 1 .. c, k - 1 \in P PROVE k \in P
  <2>1. PICK f : f = [n \in 0 .. k - 1 |-> VisitLevel(n, els, f[n - 1])]
    BY <1>3
  <2> DEFINE h == [n \in 0 .. k |-> IF n = k THEN VisitLevel(k, els, f[k - 1]) ELSE f[n]]
  <2>2. ASSUME NEW n \in 0 .. k PROVE h[n] = VisitLevel(n, els, h[n - 1])
    <3>1. CASE n = k
      <4>1. k - 1 \in 0 .. k /\ k - 1 # k
        OBVIOUS
      <4>2. h[k - 1] = f[k - 1]
        BY <4>1
      <4> QED
        BY <3>1, <4>2
    <3>2. CASE n # k /\ n # 0
      <4>1. n - 1 \in 0 .. k /\ n - 1 # k /\ n \in 0 .. k - 1
        BY <3>2
      <4>2. h[n - 1] = f[n - 1] /\ h[n] = f[n]
        BY <3>2, <4>1
      <4>3. f[n] = VisitLevel(n, els, f[n - 1])
        BY <2>1, <4>1
      <4> QED
        BY <4>2, <4>3
    <3>3. CASE n # k /\ n = 0
      <4>1. 0 \in 0 .. k - 1
        BY <3>3
      <4>2. h[0] = f[0] /\ f[0] = VisitLevel(0, els, f[0 - 1])
        BY <2>1, <3>3, <4>1
      <4> QED
        BY <1>1, <3>3, <4>2
    <3> QED
      BY <3>1, <3>2, <3>3
  <2>3. h = [n \in 0 .. k |-> VisitLevel(n, els, h[n - 1])]
    BY <2>2
  <2> HIDE DEF h
  <2>4. \E g : g = [n \in 0 .. k |-> VisitLevel(n, els, g[n - 1])]
    BY <2>3
  <2>5. k \in 0 .. c
    OBVIOUS
  <2> QED
    BY <2>4, <2>5
<1>4. \A k \in 0 .. c : k \in P
  <2> HIDE DEF P
  <2> QED
    BY <1>2, <1>3, UpTo
<1>5. c \in 0 .. c
  OBVIOUS
<1> QED
  BY <1>4, <1>5

\* What Visit is.
LEMMA VisitIs ==
  ASSUME NEW els
  PROVE  \E f : /\ \A n \in 0 .. Cardinality(Item) : f[n] = VisitLevel(n, els, f[n - 1])
                /\ Visit(els) = f[Cardinality(Item)]
<1> DEFINE c == Cardinality(Item)
<1>1. \E f : f = [n \in 0 .. c |-> VisitLevel(n, els, f[n - 1])]
  BY ItemsNumbered, VisitLevels
<1>2. PICK f : f = CHOOSE g : g = [n \in 0 .. c |-> VisitLevel(n, els, g[n - 1])]
  OBVIOUS
<1>3. f = [n \in 0 .. c |-> VisitLevel(n, els, f[n - 1])]
  BY <1>1, <1>2, Zenon
<1>4. Visit(els) = f[c]
  BY <1>2, Zenon DEF Visit, VisitLevel, IntoDep, Acc
<1> QED
  BY <1>3, <1>4

\* The parts of what visit() works on.
LEMMA VisitingFields ==
  ASSUME NEW s \in Visiting
  PROVE  /\ s.at \in [Item -> Int] /\ s.parents \in SUBSET Item /\ s.threw \in BOOLEAN /\ s.level \in Int
         /\ s.groups \in Seq(GroupOf)
         /\ [s EXCEPT !.threw = TRUE] \in Visiting /\ [s EXCEPT !.threw = TRUE].threw
         /\ \A p \in SUBSET Item : LET q == [s EXCEPT !.parents = p]
                                   IN  /\ q \in Visiting /\ q.parents = p /\ q.at = s.at
                                       /\ q.groups = s.groups /\ q.threw = s.threw
         /\ \A l \in Int : LET q == [s EXCEPT !.level = l]
                           IN  /\ q \in Visiting /\ q.parents = s.parents /\ q.at = s.at
                               /\ q.groups = s.groups /\ q.threw = s.threw
BY DEF Visiting, GroupOf

\* Only the groups and where the elements are decide whether they are sound.
LEMMA SoundSame ==
  ASSUME NEW els, NEW s, Sound(s, els), NEW q \in Visiting, q.groups = s.groups, q.at = s.at
  PROVE  Sound(q, els)
BY DEF Sound, Filled

\* From s to q, e was added, and those that need nothing return where.
Added(s, q, e, els) == /\ Sound(q, els) /\ Later(s, q) /\ q.at[e] # -1
                       /\ Deps[e] = <<>> => q.level = q.at[e]

\* What visit() does: it throws, or adds e.
VisitGood(v, els) ==
    /\ v \in [Item -> [Visiting -> Visiting]]
    /\ \A e \in Item : \A s \in Visiting : s.threw => v[e][s].threw
    /\ \A e \in Item \cap els : \A s \in Visiting :
          Sound(s, els) => v[e][s].threw \/ Added(s, v[e][s], e, els)

\* The loop over the dependencies is well typed, and what it does to minLevel.
LEMMA IntoDepType ==
  ASSUME NEW v \in [Item -> [Visiting -> Visiting]], NEW e \in Item
  PROVE  /\ IntoDep(v, e) \in [Item -> [Acc -> Acc]]
         /\ \A d \in Item : \A acc \in Acc :
               LET to == IntoDep(v, e)[d][acc]
               IN  /\ to.s = v[d][acc.s]
                   /\ TypeOf[d] = TypeOf[e] => to.min = Len(to.s.groups)
                   /\ TypeOf[d] # TypeOf[e] => to.min >= acc.min /\ to.min >= to.s.level
<1>1. ASSUME NEW d \in Item, NEW acc \in Acc
      PROVE  LET to == IntoDep(v, e)[d][acc]
             IN  /\ to \in Acc /\ to.s = v[d][acc.s]
                 /\ TypeOf[d] = TypeOf[e] => to.min = Len(to.s.groups)
                 /\ TypeOf[d] # TypeOf[e] => to.min >= acc.min /\ to.min >= to.s.level
  <2> DEFINE r == v[d][acc.s]
             m == IF TypeOf[d] = TypeOf[e] THEN Len(r.groups) ELSE Max({acc.min, r.level})
  <2>1. acc.s \in Visiting /\ acc.min \in Int
    BY DEF Acc
  <2>2. r \in Visiting
    BY <2>1
  <2>3. r.level \in Int /\ Len(r.groups) \in Int
    <3>1. r.groups \in Seq(GroupOf) /\ r.level \in Int
      BY <2>2, VisitingFields
    <3> QED
      BY <3>1, LenProperties
  <2>4. Max({acc.min, r.level}) \in Int /\ Max({acc.min, r.level}) >= acc.min /\ Max({acc.min, r.level}) >= r.level
    <3> DEFINE a == acc.min
               b == r.level
               c == IF a <= b THEN b ELSE a
    <3>1. a \in Int /\ b \in Int
      BY <2>1, <2>3
    <3> HIDE DEF a, b
    <3>2. c \in Int /\ {a, b} \in SUBSET Int /\ {a, b} # {} /\ \A x \in {a, b} : x <= c
      BY <3>1
    <3> HIDE DEF c
    <3>3. Max({a, b}) \in {a, b} /\ \A x \in {a, b} : x <= Max({a, b})
      BY <3>2, MaxIs
    <3>4. Max({a, b}) \in Int /\ Max({a, b}) >= a /\ Max({a, b}) >= b
      BY <3>1, <3>3
    <3> QED
      BY <3>4 DEF a, b
  <2>5. /\ m \in Int
        /\ TypeOf[d] = TypeOf[e] => m = Len(r.groups)
        /\ TypeOf[d] # TypeOf[e] => m >= acc.min /\ m >= r.level
    BY <2>3, <2>4
  <2>6. IntoDep(v, e)[d][acc] = [s |-> r, min |-> m]
    BY DEF IntoDep
  <2> HIDE DEF r, m
  <2>7. IntoDep(v, e)[d][acc] \in Acc /\ IntoDep(v, e)[d][acc].s = r /\ IntoDep(v, e)[d][acc].min = m
    BY <2>2, <2>5, <2>6 DEF Acc
  <2> QED
    BY <2>5, <2>7 DEF r
<1>2. IntoDep(v, e) = [d \in Item |-> [acc \in Acc |-> IntoDep(v, e)[d][acc]]]
  BY DEF IntoDep
<1> QED
  BY <1>1, <1>2

\* What was added is in one of the groups.
LEMMA AtLess ==
  ASSUME NEW els, NEW q, Sound(q, els)
  PROVE  /\ q.at \in [Item -> Int] /\ Len(q.groups) \in Nat
         /\ \A i \in Item : q.at[i] # -1 => q.at[i] < Len(q.groups)
<1>1. q \in Visiting /\ \A i \in Item : q.at[i] # -1 => q.at[i] + 1 \in DOMAIN q.groups
  BY DEF Sound, Filled
<1>2. q.at \in [Item -> Int] /\ q.groups \in Seq(GroupOf)
  BY <1>1, VisitingFields
<1>3. Len(q.groups) \in Nat /\ DOMAIN q.groups = 1 .. Len(q.groups)
  BY <1>2, LenProperties
<1> QED
  BY <1>1, <1>2, <1>3

\* One level of visit() does what it should if the level below does.
LEMMA VisitLevelGood ==
  ASSUME NEW els, NEW n \in Nat, NEW v, n # 0 => VisitGood(v, els)
  PROVE  VisitGood(VisitLevel(n, els, v), els)
<1> DEFINE w == VisitLevel(n, els, v)
<1>1. ASSUME NEW e \in Item, NEW s \in Visiting, n = 0 \/ s.threw \/ e \in s.parents
      PROVE  w[e][s] \in Visiting /\ w[e][s].threw
  <2>1. w[e][s] = [s EXCEPT !.threw = TRUE]
    BY <1>1 DEF VisitLevel
  <2> HIDE DEF w
  <2> QED
    BY <2>1, VisitingFields
<1>2. ASSUME NEW e \in Item, NEW s \in Visiting, ~(n = 0 \/ s.threw \/ e \in s.parents), s.at[e] # -1
      PROVE  /\ w[e][s] \in Visiting
             /\ Sound(s, els) => Added(s, w[e][s], e, els)
  <2>1. w[e][s] = [s EXCEPT !.level = s.at[e]]
    BY <1>2 DEF VisitLevel
  <2>2. s.at \in [Item -> Int]
    BY VisitingFields
  <2> DEFINE l == s.at[e]
             q == [s EXCEPT !.level = l]
  <2>3. l \in Int
    BY <2>2
  <2> HIDE DEF w, l
  <2>4. q \in Visiting /\ q.at = s.at /\ q.groups = s.groups /\ q.parents = s.parents /\ q.level = l
    BY <2>3 DEF Visiting
  <2> HIDE DEF q
  <2>5. w[e][s] = q
    BY <2>1 DEF q, l
  <2>6. /\ w[e][s] \in Visiting /\ w[e][s].at = s.at /\ w[e][s].groups = s.groups
        /\ w[e][s].parents = s.parents /\ w[e][s].level = s.at[e]
    BY <2>4, <2>5 DEF l
  <2>7. Later(s, w[e][s])
    BY <2>6 DEF Later
  <2>8. Sound(s, els) => Sound(w[e][s], els)
    BY <2>6, SoundSame
  <2> QED
    BY <1>2, <2>6, <2>7, <2>8 DEF Added
<1>3. ASSUME NEW e \in Item, NEW s \in Visiting, ~(n = 0 \/ s.threw \/ e \in s.parents), s.at[e] = -1
      PROVE  /\ w[e][s] \in Visiting
             /\ Sound(s, els) /\ e \in els => w[e][s].threw \/ Added(s, w[e][s], e, els)
  <2> DEFINE par == IF Deps[e] = <<>> THEN s.parents ELSE s.parents \cup {e}
             s1 == [s EXCEPT !.parents = par]
             base == [s |-> s1, min |-> -1]
             into == IntoDep(v, e)
             need == Needed(e, els)
             end == Fold(into, base, need)
  <2>1. w[e][s] = IF end.s.threw THEN end.s ELSE Inject(end.s, e, end.min)
    BY <1>3 DEF VisitLevel
  <2>2. VisitGood(v, els)
    BY <1>3
  <2>3. /\ into \in [Item -> [Acc -> Acc]]
        /\ \A d \in Item : \A acc \in Acc :
              /\ into[d][acc].s = v[d][acc.s]
              /\ TypeOf[d] = TypeOf[e] => into[d][acc].min = Len(into[d][acc].s.groups)
              /\ TypeOf[d] # TypeOf[e] => into[d][acc].min >= acc.min /\ into[d][acc].min >= into[d][acc].s.level
    BY <2>2, IntoDepType DEF VisitGood
  <2>4. /\ need \in Seq(Item) /\ ToSet(need) = ToSet(Deps[e]) \cap els
        /\ Len(need) \in Nat /\ DOMAIN need = 1 .. Len(need)
        /\ \A k \in 1 .. Len(need) : need[k] \in Item \cap els
    <3>1. Deps[e] \in Seq(Item)
      BY DepsAssumption
    <3>2. need \in Seq(Item) /\ ToSet(need) = ToSet(Deps[e]) \cap els
      BY <3>1, OnlyIs DEF Needed
    <3> HIDE DEF need
    <3>3. Len(need) \in Nat /\ DOMAIN need = 1 .. Len(need) /\ \A k \in 1 .. Len(need) : need[k] \in Item
      BY <3>2, LenProperties
    <3>4. \A k \in 1 .. Len(need) : need[k] \in ToSet(need)
      BY <3>3 DEF ToSet
    <3> QED
      BY <3>2, <3>3, <3>4
  <2>5. par \in SUBSET Item
    BY VisitingFields
  <2>6. /\ s1 \in Visiting /\ s1.parents = par /\ s1.at = s.at
        /\ s1.groups = s.groups /\ s1.threw = s.threw
    <3> HIDE DEF par
    <3> QED
      BY <2>5, VisitingFields
  <2>7. base \in Acc /\ base.s = s1 /\ base.min = -1
    BY <2>6 DEF Acc
  <2> HIDE DEF w, s1, base, into, need, end
  <2>8. PICK h : Trace(h, Acc, into, base, need)
    BY <2>3, <2>4, <2>7, FoldTrace
  <2>9. /\ h \in [0 .. Len(need) -> Acc]
        /\ h[0] = base
        /\ \A k \in 1 .. Len(need) : h[k] = into[need[k]][h[k - 1]]
        /\ end = h[Len(need)]
    BY <2>8 DEF Trace, end
  <2>10. end \in Acc /\ end.s \in Visiting /\ end.min \in Int
    <3>1. Len(need) \in 0 .. Len(need)
      BY <2>4
    <3>2. end \in Acc
      BY <2>9, <3>1
    <3> QED
      BY <3>2 DEF Acc
  <2>11. w[e][s] \in Visiting
    <3>1. Inject(end.s, e, end.min) \in Visiting
      BY <2>10, InjectIs
    <3> QED
      BY <2>1, <2>10, <3>1
  <2>12. ASSUME Sound(s, els), e \in els, ~w[e][s].threw
         PROVE  Added(s, w[e][s], e, els)
    <3> DEFINE Done(k) == \A j \in 1 .. k :
                              /\ h[k].s.at[need[j]] # -1
                              /\ Shallow(e, need[j]) => Behind(h[k].s, e, need[j], h[k].min)
               T == {k \in 0 .. Len(need) :
                       h[k].s.threw \/ (Sound(h[k].s, els) /\ Later(s1, h[k].s) /\ Done(k))}
    <3>1. 0 \in T
      <4>1. Sound(s1, els)
        BY <2>6, <2>12, SoundSame
      <4>2. h[0].s = s1 /\ 0 \in 0 .. Len(need)
        BY <2>4, <2>7, <2>9
      <4>3. Done(0)
        OBVIOUS
      <4> QED
        BY <4>1, <4>2, <4>3, LaterRefl
    <3>2. ASSUME NEW k \in 1 .. Len(need), k - 1 \in T PROVE k \in T
      <4>1. k - 1 \in 0 .. Len(need) /\ k \in 0 .. Len(need) /\ k \in Nat
        BY <2>4
      <4> DEFINE p == h[k - 1].s
                 q == h[k].s
                 d == need[k]
                 a == h[k - 1].min
                 b == h[k].min
      <4>2. /\ p \in Visiting /\ q \in Visiting /\ d \in Item \cap els /\ q = v[d][p] /\ a \in Int /\ b \in Int
            /\ TypeOf[d] = TypeOf[e] => b = Len(q.groups)
            /\ TypeOf[d] # TypeOf[e] => b >= a /\ b >= q.level
        <5>1. h[k - 1] \in Acc /\ h[k] \in Acc /\ h[k] = into[d][h[k - 1]]
          BY <2>9, <4>1
        <5>2. d \in Item \cap els
          BY <2>4
        <5>3. /\ h[k].s = v[d][h[k - 1].s]
              /\ TypeOf[d] = TypeOf[e] => h[k].min = Len(h[k].s.groups)
              /\ TypeOf[d] # TypeOf[e] => h[k].min >= h[k - 1].min /\ h[k].min >= h[k].s.level
          BY <2>3, <5>1, <5>2
        <5> QED
          BY <5>1, <5>2, <5>3 DEF Acc
      <4>3. p.threw \/ (Sound(p, els) /\ Later(s1, p) /\ Done(k - 1))
        BY <3>2
      <4> HIDE DEF T, p, q, a, b
      <4>4. CASE p.threw
        <5>1. q.threw
          BY <2>2, <4>2, <4>4 DEF VisitGood
        <5> QED
          BY <4>1, <5>1 DEF T, q
      <4>5. CASE ~p.threw /\ ~q.threw
        <5>1. Added(p, q, d, els)
          BY <2>2, <4>2, <4>3, <4>5 DEF VisitGood
        <5>2. Later(s1, q)
          BY <2>6, <4>3, <4>5, <5>1, LaterTrans DEF Added
        <5>3. Done(k)
          <6> SUFFICES ASSUME NEW j \in 1 .. k
                       PROVE  q.at[need[j]] # -1 /\ (Shallow(e, need[j]) => Behind(q, e, need[j], b))
            BY DEF q, b
          <6>1. /\ q.at \in [Item -> Int] /\ Len(q.groups) \in Nat
                /\ \A i \in Item : q.at[i] # -1 => q.at[i] < Len(q.groups)
            BY <4>2, <5>1, AtLess DEF Added
          <6>2. CASE j = k
            <7>1. q.at[d] # -1 /\ (Deps[d] = <<>> => q.level = q.at[d])
              BY <5>1 DEF Added
            <7>2. Shallow(e, d) => Behind(q, e, d, b)
              BY <4>2, <6>1, <7>1 DEF Shallow, Behind
            <7> QED
              BY <6>2, <7>1, <7>2
          <6>3. CASE j # k
            <7>1. j \in 1 .. k - 1 /\ j \in 1 .. Len(need)
              BY <4>1, <6>3
            <7>2. /\ p.at[need[j]] # -1 /\ need[j] \in Item
                  /\ Shallow(e, need[j]) => Behind(p, e, need[j], a)
              BY <2>4, <4>3, <4>5, <7>1 DEF p, a
            <7>3. q.at[need[j]] = p.at[need[j]]
              BY <5>1, <7>2 DEF Added, Later
            <7>4. ASSUME Shallow(e, need[j]) PROVE Behind(q, e, need[j], b)
              <8>1. /\ a >= p.at[need[j]] /\ (TypeOf[need[j]] = TypeOf[e] => a > p.at[need[j]])
                BY <7>2, <7>4 DEF Behind
              <8>2. /\ q.at[need[j]] \in Int /\ q.at[need[j]] < Len(q.groups)
                BY <6>1, <7>2, <7>3
              <8>3. b = Len(q.groups) \/ b >= a
                BY <4>2
              <8>4. b >= q.at[need[j]] /\ (TypeOf[need[j]] = TypeOf[e] => b > q.at[need[j]])
                BY <4>2, <6>1, <7>3, <8>1, <8>2, <8>3
              <8> QED
                BY <8>4 DEF Behind
            <7> QED
              BY <7>2, <7>3, <7>4
          <6> QED
            BY <6>2, <6>3
        <5> QED
          BY <4>1, <5>1, <5>2, <5>3 DEF T, q, Added
      <4>6. CASE q.threw
        BY <4>1, <4>6 DEF T, q
      <4> QED
        BY <4>4, <4>5, <4>6
    <3>3. Len(need) \in T
      <4> HIDE DEF T
      <4>1. \A k \in 0 .. Len(need) : k \in T
        BY <2>4, <3>1, <3>2, UpTo
      <4>2. Len(need) \in 0 .. Len(need)
        BY <2>4
      <4> QED
        BY <4>1, <4>2
    <3> DEFINE p == end.s
               q == Inject(p, e, end.min)
    <3>4. ~p.threw /\ w[e][s] = q
      BY <2>1, <2>12
    <3>5. /\ Sound(p, els) /\ Later(s1, p)
          /\ \A j \in 1 .. Len(need) : /\ p.at[need[j]] # -1
                                       /\ Shallow(e, need[j]) => Behind(p, e, need[j], end.min)
      BY <2>9, <3>3, <3>4
    <3>6. \A d \in ToSet(Deps[e]) \cap els : /\ p.at[d] # -1
                                             /\ Shallow(e, d) => Behind(p, e, d, end.min)
      <4> TAKE d \in ToSet(Deps[e]) \cap els
      <4>1. PICK j \in 1 .. Len(need) : d = need[j]
        BY <2>4 DEF ToSet
      <4> QED
        BY <3>5, <4>1
    <3>7. p.at[e] = -1 /\ (Deps[e] = <<>> => end.min = -1)
      <4>1. CASE Deps[e] # <<>>
        BY <1>3, <2>6, <3>5, <4>1 DEF Later
      <4>2. CASE Deps[e] = <<>>
        <5>1. Len(need) = 0
          <6>1. ToSet(<<>>) = {}
            BY DEF ToSet
          <6>2. ToSet(need) = {}
            BY <2>4, <4>2, <6>1
          <6>3. \A k \in 1 .. Len(need) : FALSE
            BY <2>4, <6>2 DEF ToSet
          <6> QED
            BY <2>4, <6>3
        <5> QED
          BY <1>3, <2>6, <2>7, <2>9, <5>1
      <4> QED
        BY <4>1, <4>2
    <3>8. /\ q.at[e] # -1 /\ q.parents = p.parents
          /\ end.min = -1 => q.level = q.at[e]
          /\ \A i \in Item : i # e => q.at[i] = p.at[i]
      BY <2>10, InjectIs
    <3>9. Sound(q, els)
      BY <2>10, <2>12, <3>5, <3>6, <3>7, InjectSound
    <3> HIDE DEF p, q
    <3>10. Later(s, q)
      <4>1. s.parents \subseteq q.parents
        BY <2>6, <3>5, <3>8 DEF Later
      <4>2. \A i \in Item : s.at[i] # -1 => q.at[i] = s.at[i]
        BY <1>3, <2>6, <3>5, <3>8 DEF Later
      <4>3. ASSUME NEW i \in s.parents, s.at[i] = -1 PROVE q.at[i] = -1
        <5>1. i # e /\ i \in Item /\ i \in par
          BY <1>3, VisitingFields
        <5>2. p.at[i] = -1
          BY <2>6, <3>5, <4>3, <5>1 DEF Later
        <5> QED
          BY <3>8, <5>1, <5>2
      <4> QED
        BY <4>1, <4>2, <4>3 DEF Later
    <3> QED
      BY <3>4, <3>7, <3>8, <3>9, <3>10 DEF Added
  <2> QED
    BY <2>11, <2>12
<1>4. w = [e \in Item |-> [s \in Visiting |-> w[e][s]]]
  BY DEF VisitLevel
<1> HIDE DEF w
<1>5. \A e \in Item : \A s \in Visiting : w[e][s] \in Visiting
  BY <1>1, <1>2, <1>3
<1>6. w \in [Item -> [Visiting -> Visiting]]
  BY <1>4, <1>5
<1>7. \A e \in Item : \A s \in Visiting : s.threw => w[e][s].threw
  BY <1>1
<1>8. \A e \in Item \cap els : \A s \in Visiting :
          Sound(s, els) => w[e][s].threw \/ Added(s, w[e][s], e, els)
  BY <1>1, <1>2, <1>3
<1>9. VisitGood(w, els)
  BY <1>6, <1>7, <1>8 DEF VisitGood
<1> QED
  BY <1>9 DEF w

\* So does visit(), by induction over the levels.
LEMMA VisitIsGood == ASSUME NEW els PROVE VisitGood(Visit(els), els)
<1> DEFINE c == Cardinality(Item)
<1>1. c \in Nat
  BY ItemsNumbered
<1>2. PICK f : /\ \A n \in 0 .. c : f[n] = VisitLevel(n, els, f[n - 1])
               /\ Visit(els) = f[c]
  BY VisitIs
<1> DEFINE P == {n \in 0 .. c : VisitGood(f[n], els)}
<1> HIDE DEF c
<1>3. 0 \in P
  <2>1. 0 \in 0 .. c /\ f[0] = VisitLevel(0, els, f[0 - 1])
    BY <1>1, <1>2
  <2>2. VisitGood(f[0], els)
    BY <2>1, VisitLevelGood
  <2> QED
    BY <2>1, <2>2
<1>4. ASSUME NEW n \in 1 .. c, n - 1 \in P PROVE n \in P
  <2>1. n \in 0 .. c /\ n \in Nat /\ f[n] = VisitLevel(n, els, f[n - 1])
    BY <1>1, <1>2
  <2>2. VisitGood(f[n - 1], els)
    BY <1>4
  <2>3. VisitGood(f[n], els)
    BY <2>1, <2>2, VisitLevelGood
  <2> QED
    BY <2>1, <2>3
<1>5. c \in P
  <2> HIDE DEF P
  <2>1. \A n \in 0 .. c : n \in P
    BY <1>1, <1>3, <1>4, UpTo
  <2>2. c \in 0 .. c
    BY <1>1
  <2> QED
    BY <2>1, <2>2
<1> QED
  BY <1>2, <1>5

\* What sort() gives, unless it throws: groups of exactly the elements, each
\* after what it needs when the references of types with several elements are
\* shallow.
THEOREM SortedIs ==
  ASSUME NEW order \in Seq(Item)
  PROVE  LET s == Sorted(order)
             els == ToSet(order)
         IN  /\ s.groups \in Seq(GroupOf)
             /\ ~s.threw =>
                  /\ \A i \in els : \E k \in DOMAIN s.groups : i \in ToSet(s.groups[k].items)
                  /\ \A k \in DOMAIN s.groups : ToSet(s.groups[k].items) \subseteq els
                  /\ ShallowReferences => \A k \in DOMAIN s.groups : \A i \in ToSet(s.groups[k].items) :
                                      After(s.groups, i, k, els)
<1> DEFINE els == ToSet(order)
           v == Visit(els)
           each == [e \in Item |-> [s \in Visiting |->
                      IF s.threw THEN s ELSE v[e][[s EXCEPT !.parents = {}]]]]
<1>1. VisitGood(v, els)
  BY VisitIsGood
<1>2. Sorted(order) = Fold(each, Start, order)
  BY DEF Sorted
<1>3. /\ Len(order) \in Nat /\ DOMAIN order = 1 .. Len(order)
      /\ \A k \in 1 .. Len(order) : order[k] \in Item \cap els
  <2>1. Len(order) \in Nat /\ DOMAIN order = 1 .. Len(order) /\ \A k \in 1 .. Len(order) : order[k] \in Item
    BY LenProperties
  <2> QED
    BY <2>1 DEF ToSet
<1> HIDE DEF els, v
<1>4. ASSUME NEW e \in Item, NEW s \in Visiting
      PROVE  /\ each[e][s] \in Visiting
             /\ s.threw => each[e][s].threw
             /\ Sound(s, els) /\ e \in els =>
                  \/ each[e][s].threw
                  \/ /\ Sound(each[e][s], els) /\ each[e][s].at[e] # -1
                     /\ \A i \in Item : s.at[i] # -1 => each[e][s].at[i] # -1
  <2>1. CASE s.threw
    BY <2>1
  <2>2. CASE ~s.threw
    <3> DEFINE q == [s EXCEPT !.parents = {}]
    <3>1. q \in Visiting /\ q.at = s.at /\ q.groups = s.groups
      BY VisitingFields
    <3>2. each[e][s] = v[e][q]
      BY <2>2
    <3> HIDE DEF q, each
    <3>3. v[e][q] \in Visiting
      BY <1>1, <3>1 DEF VisitGood
    <3>4. Sound(s, els) => Sound(q, els)
      BY <3>1, SoundSame
    <3>5. ASSUME Sound(q, els), e \in els
          PROVE  v[e][q].threw \/ Added(q, v[e][q], e, els)
      BY <1>1, <3>1, <3>5 DEF VisitGood
    <3> QED
      BY <2>2, <3>1, <3>2, <3>3, <3>4, <3>5 DEF Added, Later
  <2> QED
    BY <2>1, <2>2
<1>5. each \in [Item -> [Visiting -> Visiting]]
  BY <1>4
<1>6. Start \in Visiting /\ Sound(Start, els)
  <2>1. Start \in Visiting
    BY DEF Start, Visiting
  <2>2. Start.groups = <<>> /\ \A i \in Item : Start.at[i] = -1
    BY DEF Start
  <2> QED
    BY <2>1, <2>2 DEF Sound, Filled
<1> HIDE DEF each
<1>7. PICK h : Trace(h, Visiting, each, Start, order)
  BY <1>5, <1>6, FoldTrace
<1>8. /\ h \in [0 .. Len(order) -> Visiting]
      /\ h[0] = Start
      /\ \A k \in 1 .. Len(order) : h[k] = each[order[k]][h[k - 1]]
      /\ Sorted(order) = h[Len(order)]
  BY <1>2, <1>7 DEF Trace
<1> DEFINE Done(k) == \A j \in 1 .. k : h[k].at[order[j]] # -1
           P == {k \in 0 .. Len(order) : h[k].threw \/ (Sound(h[k], els) /\ Done(k))}
<1>9. 0 \in P
  BY <1>3, <1>6, <1>8
<1>10. ASSUME NEW k \in 1 .. Len(order), k - 1 \in P PROVE k \in P
  <2>1. k - 1 \in 0 .. Len(order) /\ k \in 0 .. Len(order) /\ k \in Nat
    BY <1>3
  <2>2. h[k - 1] \in Visiting /\ order[k] \in Item \cap els /\ h[k] = each[order[k]][h[k - 1]]
    BY <1>3, <1>8, <2>1
  <2>3. h[k - 1].threw \/ (Sound(h[k - 1], els) /\ Done(k - 1))
    BY <1>10
  <2> HIDE DEF P
  <2>4. CASE h[k].threw
    BY <2>1, <2>4 DEF P
  <2>5. CASE ~h[k].threw
    <3>1. Sound(h[k - 1], els) /\ Done(k - 1)
      BY <1>4, <2>2, <2>3, <2>5
    <3>2. /\ Sound(h[k], els) /\ h[k].at[order[k]] # -1
          /\ \A i \in Item : h[k - 1].at[i] # -1 => h[k].at[i] # -1
      BY <1>4, <2>2, <2>5, <3>1
    <3>3. Done(k)
      <4> SUFFICES ASSUME NEW j \in 1 .. k PROVE h[k].at[order[j]] # -1
        OBVIOUS
      <4>1. j = k \/ (j \in 1 .. k - 1 /\ j \in 1 .. Len(order))
        BY <2>1
      <4> QED
        BY <1>3, <3>1, <3>2, <4>1
    <3> QED
      BY <2>1, <3>2, <3>3 DEF P
  <2> QED
    BY <2>4, <2>5
<1>11. Len(order) \in P
  <2> HIDE DEF P
  <2>1. \A k \in 0 .. Len(order) : k \in P
    BY <1>3, <1>9, <1>10, UpTo
  <2>2. Len(order) \in 0 .. Len(order)
    BY <1>3
  <2> QED
    BY <2>1, <2>2
<1> DEFINE s == h[Len(order)]
<1>12. s \in Visiting
  <2>1. Len(order) \in 0 .. Len(order)
    BY <1>3
  <2> QED
    BY <1>8, <2>1
<1>13. s.groups \in Seq(GroupOf)
  BY <1>12, VisitingFields
<1>14. ASSUME ~s.threw
       PROVE  /\ \A i \in els : \E k \in DOMAIN s.groups : i \in ToSet(s.groups[k].items)
              /\ \A k \in DOMAIN s.groups : ToSet(s.groups[k].items) \subseteq els
              /\ ShallowReferences => \A k \in DOMAIN s.groups : \A i \in ToSet(s.groups[k].items) :
                                  After(s.groups, i, k, els)
  <2>1. Sound(s, els) /\ \A j \in 1 .. Len(order) : s.at[order[j]] # -1
    BY <1>11, <1>14
  <2>2. \A i \in els : i \in Item /\ s.at[i] # -1
    <3> TAKE i \in els
    <3>1. PICK j \in 1 .. Len(order) : i = order[j]
      BY <1>3 DEF els, ToSet
    <3> QED
      BY <1>3, <2>1, <3>1
  <2> QED
    BY <2>1, <2>2 DEF Sound, Filled
<1> QED
  BY <1>8, <1>13, <1>14 DEF els

-----------------------------------------------------------------------------
(* The session: its invariant                                              *)

Committing == {"deleting", "grouping", "inserting", "updating", "storing"}
Grouping   == {"grouping", "inserting", "updating", "storing"}
Writing    == {"inserting", "updating", "storing"}

\* The rounds are tidy, and only the last one can be open; the loop of flush()
\* is in the one that is in commit, unless reset() has taken that off the list.
Ordered ==
    /\ \A k \in DOMAIN rounds : Tidy(rounds[k]) /\ (rounds[k].state = "open" => k = Len(rounds))
    /\ stage = "idle" => at = 1 /\ lost = FALSE
    /\ stage \in Committing /\ ~lost => at \in DOMAIN rounds /\ rounds[at].state = "inCommit"
    /\ stage \in Committing => at <= MaxRounds
    /\ stage = "deleting" => todo \in Seq(SUBSET Item)
    /\ stage \in Grouping => todo \in Seq(GroupOf)
    /\ stage \in Writing => todo # <<>>

\* Until a group is compared there is nothing to insert or to update; then it
\* is what the session does not know, and some of what it knows.
Compared ==
    /\ stage \notin Writing => inserts = {} /\ DOMAIN changes = {}
    /\ stage \in Writing =>
          /\ inserts = {i \in Group : snapshot[i] = Absent}
          /\ \A i \in DOMAIN changes : i \in Group /\ snapshot[i] # Absent

\* What the session knows of i, its row and its value, stage by stage.
Matches(i) ==
    /\ stage \notin {"updating", "storing"} => snapshot[i] = rows[i]
    /\ i \notin Group => snapshot[i] = rows[i]
    /\ stage = "updating" => IF i \in inserts THEN rows[i] = mem[i] ELSE rows[i] = snapshot[i]
    /\ stage = "storing" /\ i \in Group => rows[i] = mem[i]
    /\ stage \in Writing /\ i \in Group /\ i \notin inserts =>
          IF i \in DOMAIN changes THEN changes[i] = mem[i] ELSE snapshot[i] = mem[i]

\* There is a round to come: in this flush() or, after a reset(), in the next.
Pending == rounds # <<>> /\ Last(rounds).state = "open" /\ (lost \/ at <= Len(rounds))

Mentioned(i) == Pending /\ i \in ToSet(Last(rounds).add) \cup Last(rounds).remove

Due(i) == IF stage = "deleting" THEN \E k \in DOMAIN todo : i \in todo[k]
          ELSE \E k \in DOMAIN todo : i \in ToSet(todo[k].items)

\* What the round in commit leaves of i.
WillBeStored(i) == /\ stage \in Between => rows[i] # Absent
                   /\ stage = "deleting" => i \in ToSet(adding) \/ (~Due(i) /\ rows[i] # Absent)
                   /\ stage \in Grouping => Due(i) \/ rows[i] # Absent
WillBeGone(i) == /\ stage \in Between => rows[i] = Absent
                 /\ stage = "deleting" => i \notin ToSet(adding) /\ (Due(i) \/ rows[i] = Absent)
                 /\ stage \in Grouping => ~Due(i) /\ rows[i] = Absent

\* The round to come, when it mentions i, does with it what was asked for last;
\* when it does not, the round in commit does it or it was done before.
Words(i) == IF Mentioned(i)
            THEN /\ wanted[i] = "stored" => i \in ToSet(Last(rounds).add)
                 /\ wanted[i] = "gone" => i \in Last(rounds).remove
            ELSE /\ wanted[i] = "stored" => WillBeStored(i)
                 /\ wanted[i] = "gone" => WillBeGone(i)

SessionInv == /\ SessionTypeOK /\ Ordered /\ Compared
              /\ \A i \in Item \ excused : Matches(i) /\ Words(i)

\* The rounds are a sequence of rounds.
LEMMA RoundsAre ==
  ASSUME SessionTypeOK
  PROVE  /\ rounds \in Seq(Round) /\ Len(rounds) \in Nat /\ DOMAIN rounds = 1 .. Len(rounds)
         /\ \A k \in DOMAIN rounds : rounds[k] \in Round
         /\ rounds = <<>> <=> Len(rounds) = 0
         /\ MaxRounds \in Nat /\ MaxRounds >= 1 /\ at \in Nat /\ at >= 1
<1>1. rounds \in Seq(Round)
  BY DEF SessionTypeOK
<1>2. MaxRounds \in Nat /\ MaxRounds >= 1
  BY BoundsAssumption
<1>3. rounds = <<>> <=> Len(rounds) = 0
  BY <1>1, EmptySeq
<1> QED
  BY <1>1, <1>2, <1>3, LenProperties DEF SessionTypeOK

\* Where flush() is.
LEMMA StageIs ==
  ASSUME SessionTypeOK
  PROVE  /\ stage \in Between \/ stage \in Committing
         /\ ~(stage \in Between /\ stage \in Committing)
         /\ stage \in Committing <=> stage = "deleting" \/ stage \in Grouping
         /\ ~(stage = "deleting" /\ stage \in Grouping)
         /\ stage \in Between <=> stage = "idle" \/ stage = "loop"
BY DEF SessionTypeOK, Between, Committing, Grouping

\* A new round is tidy and empty.
LEMMA NewRoundTidy == Tidy(NewRound) /\ NewRound.state = "open" /\ ToSet(NewRound.add) = {} /\ NewRound.remove = {}
<1>1. ToSet(<<>>) = {}
  BY DEF ToSet
<1>2. NewRound \in Round /\ NewRound.state = "open" /\ NewRound.add = <<>> /\ NewRound.remove = {}
  BY DEF NewRound, Round
<1> QED
  BY <1>1, <1>2 DEF Tidy

\* The round that add() and remove() get is the last one of those there are,
\* or a new one behind them, and is not in commit; no other is open.
LEMMA CurrentIs ==
  ASSUME SessionTypeOK, Ordered
  PROVE  LET n == Len(Current)
         IN  /\ Current \in Seq(Round) /\ n \in Nat /\ n >= 1
             /\ DOMAIN Current = DOMAIN rounds \cup {n} /\ DOMAIN Current = 1 .. n
             /\ Last(Current) = Current[n] /\ Tidy(Current[n]) /\ Current[n].state # "inCommit"
             /\ \A k \in DOMAIN rounds : k <= n /\ Current[k] = rounds[k] /\ (k # n => rounds[k].state # "open")
             /\ n \notin DOMAIN rounds => /\ Current[n] = NewRound
                                          /\ rounds = <<>> \/ Last(rounds).state = "inCommit"
             /\ n \in DOMAIN rounds => n = Len(rounds) /\ rounds # <<>> /\ Current = rounds
<1>1. /\ rounds \in Seq(Round) /\ Len(rounds) \in Nat /\ DOMAIN rounds = 1 .. Len(rounds)
      /\ \A k \in DOMAIN rounds : rounds[k] \in Round
      /\ rounds = <<>> <=> Len(rounds) = 0
  BY RoundsAre
<1>2. NewRound \in Round /\ NewRound.state # "inCommit"
  BY NewRoundTidy DEF Tidy
<1>3. \A k \in DOMAIN rounds : Tidy(rounds[k]) /\ (rounds[k].state = "open" => k = Len(rounds))
  BY DEF Ordered
<1> DEFINE l == Len(rounds)
<1>4. Last(rounds) = rounds[l]
  BY DEF Last
<1>5. CASE rounds = <<>> \/ Last(rounds).state = "inCommit"
  <2>1. Current = Append(rounds, NewRound)
    BY <1>5 DEF Current
  <2>2. /\ Current \in Seq(Round) /\ Len(Current) = l + 1 /\ Current[l + 1] = NewRound
        /\ \A k \in 1 .. l : Current[k] = rounds[k]
    BY <1>1, <1>2, <2>1
  <2>3. DOMAIN Current = 1 .. l + 1
    BY <2>2, LenProperties
  <2>4. Last(Current) = Current[l + 1]
    BY <2>2 DEF Last
  <2>5. \A k \in DOMAIN rounds : rounds[k].state # "open"
    BY <1>1, <1>3, <1>4, <1>5
  <2> HIDE DEF Current
  <2>6. l \in Nat /\ DOMAIN rounds = 1 .. l /\ l + 1 \in Nat /\ l + 1 >= 1 /\ l + 1 \notin 1 .. l
    BY <1>1
  <2> HIDE DEF l
  <2>7. DOMAIN Current = DOMAIN rounds \cup {l + 1}
    BY <2>3, <2>6
  <2>8. \A k \in DOMAIN rounds : k <= l + 1 /\ Current[k] = rounds[k]
    BY <2>2, <2>6
  <2>9. Tidy(Current[l + 1]) /\ Current[l + 1].state # "inCommit"
    BY <1>2, <2>2, NewRoundTidy
  <2> QED
    BY <1>5, <2>2, <2>3, <2>4, <2>5, <2>6, <2>7, <2>8, <2>9
<1>6. CASE ~(rounds = <<>> \/ Last(rounds).state = "inCommit")
  <2>1. Current = rounds
    BY <1>6 DEF Current
  <2>2. l >= 1 /\ l \in DOMAIN rounds
    BY <1>1, <1>6
  <2>3. rounds[l].state # "inCommit"
    BY <1>4, <1>6
  <2> HIDE DEF Current, l
  <2> QED
    BY <1>1, <1>3, <1>4, <1>6, <2>1, <2>2, <2>3 DEF l
<1> QED
  BY <1>5, <1>6

\* What a change of that round makes of the rounds.
Queued(n, r) ==
    /\ rounds' \in Seq(Round) /\ Len(rounds') = n
    /\ n \in Nat /\ n >= 1
    /\ DOMAIN rounds' = DOMAIN rounds \cup {n} /\ DOMAIN rounds' = 1 .. n
    /\ rounds'[n] = r /\ r.state # "inCommit"
    /\ \A k \in DOMAIN rounds : k <= n /\ (k # n => rounds'[k] = rounds[k] /\ rounds[k].state # "open")
    /\ n \in DOMAIN rounds => rounds[n].state # "inCommit"

\* add(), remove() and flush() change the last round only, or append one.
LEMMA QueuedIs ==
  ASSUME SessionTypeOK, Ordered, NEW r, Tidy(r), r.state = Last(Current).state,
         rounds' = [Current EXCEPT ![Len(Current)] = r]
  PROVE  Queued(Len(Current), r)
<1> DEFINE n == Len(Current)
           c == Current
<1>1. /\ c \in Seq(Round) /\ n \in Nat /\ n >= 1 /\ n = Len(c)
      /\ DOMAIN c = DOMAIN rounds \cup {n} /\ DOMAIN c = 1 .. n
      /\ \A k \in DOMAIN rounds : k <= n /\ c[k] = rounds[k] /\ (k # n => rounds[k].state # "open")
      /\ r.state # "inCommit" /\ r.state = c[n].state
  BY CurrentIs
<1>2. r \in Round
  BY DEF Tidy
<1>3. rounds' = [c EXCEPT ![n] = r]
  OBVIOUS
<1> HIDE DEF n, c
<1>4. \A k \in 1 .. n : c[k] \in Round
  BY <1>1, LenProperties
<1>5. DOMAIN rounds' = 1 .. n /\ rounds'[n] = r /\ \A k \in 1 .. n : k # n => rounds'[k] = c[k]
  BY <1>1, <1>3
<1>6. rounds' = [k \in 1 .. n |-> rounds'[k]]
  BY <1>1, <1>3
<1>7. \A k \in 1 .. n : rounds'[k] \in Round
  BY <1>2, <1>4, <1>5
<1>8. rounds' \in [1 .. n -> Round]
  BY <1>6, <1>7, Zenon
<1>9. rounds' \in Seq(Round) /\ Len(rounds') = n
  <2>1. n \in Nat
    BY <1>1
  <2> DEFINE q == rounds'
  <2>2. q \in [1 .. n -> Round]
    BY <1>8
  <2> HIDE DEF q
  <2>3. q \in Seq(Round) /\ Len(q) = n
    BY <2>1, <2>2, MappedAt, Zenon
  <2> QED
    BY <2>3 DEF q
<1>10. Queued(n, r)
  BY <1>1, <1>5, <1>9 DEF Queued
<1> QED
  BY <1>10 DEF n

\* The part of SessionTypeOK that does not look at the rounds.
Typed == /\ mem \in [Item -> Value] /\ rows \in [Item -> Row] /\ snapshot \in [Item -> Row]
         /\ before \in [Item -> Row] \cup {Absent}
         /\ usable \in BOOLEAN /\ adding \in Seq(Item)
         /\ inserts \subseteq Item /\ \A i \in DOMAIN changes : i \in Item /\ changes[i] \in Value
         /\ wanted \in [Item -> {"nothing", "stored", "gone"}]
         /\ excused \subseteq Item

LEMMA TypedIs == SessionTypeOK => Typed
BY DEF SessionTypeOK, Typed

\* The queue of a session without a flush(), or in one, stays in order.
LEMMA QueuedOrdered ==
  ASSUME SessionTypeOK, Ordered, Typed', NEW n, NEW r, Tidy(r), Queued(n, r), n <= MaxRounds,
         UNCHANGED <<at, lost, todo>>, stage' = stage \/ (stage = "idle" /\ stage' = "loop")
  PROVE  SessionTypeOK' /\ Ordered'
<1>1. /\ rounds' \in Seq(Round) /\ Len(rounds') = n /\ n \in Nat
      /\ DOMAIN rounds' = DOMAIN rounds \cup {n}
      /\ rounds'[n] = r /\ r.state # "inCommit"
      /\ \A k \in DOMAIN rounds : k # n => rounds'[k] = rounds[k] /\ rounds[k].state # "open"
      /\ n \in DOMAIN rounds => rounds[n].state # "inCommit"
  BY DEF Queued
<1>2. \A k \in DOMAIN rounds' : Tidy(rounds'[k]) /\ (rounds'[k].state = "open" => k = Len(rounds'))
  BY <1>1 DEF Ordered
<1>3. stage' \in Between <=> stage \in Between
  BY DEF Between
<1>4. \A k \in DOMAIN rounds' : rounds'[k].state = "inCommit" => k = at' /\ stage' \notin Between
  BY <1>1, <1>3 DEF SessionTypeOK
<1>5. stage' \in Between \cup {"deleting", "grouping", "inserting", "updating", "storing"}
  BY <1>3 DEF SessionTypeOK
<1>6. SessionTypeOK'
  BY <1>1, <1>4, <1>5 DEF SessionTypeOK, Typed
<1>7. stage' \in Committing => stage' = stage
  BY DEF Committing
<1>8. stage' \in Committing /\ ~lost' => at' \in DOMAIN rounds' /\ rounds'[at'].state = "inCommit"
  BY <1>1, <1>7 DEF Ordered
<1>9. /\ stage' = "deleting" \/ stage' \in Grouping \/ stage' \in Writing => stage' \in Committing
      /\ stage' = "idle" => stage = "idle"
  BY DEF Grouping, Writing, Committing
<1>10. Ordered'
  BY <1>2, <1>7, <1>8, <1>9 DEF Ordered
<1> QED
  BY <1>6, <1>10

\* The classes of what is to be removed, in any order, are all of it.
LEMMA ClassesAre ==
  ASSUME NEW s \in SUBSET Item, NEW t \in SetToSeqs(Classes(s))
  PROVE  /\ t \in Seq(SUBSET Item)
         /\ \A k \in DOMAIN t : t[k] \subseteq s
         /\ \A i \in s : \E k \in DOMAIN t : i \in t[k]
<1> DEFINE C == Classes(s)
           n == Cardinality(C)
           class(j) == {i \in s : TypeOf[i] = TypeOf[j]}
<1>1. IsFiniteSet(C)
  <2>1. C \subseteq SUBSET Item
    BY DEF Classes
  <2>2. IsFiniteSet(SUBSET Item)
    BY ItemAssumption, FS_SUBSET
  <2> QED
    BY <2>1, <2>2, FS_Subset
<1>2. n \in Nat
  BY <1>1, FS_CardinalityType
<1>3. t \in [1 .. n -> C] /\ \A i, j \in 1 .. n : i # j => t[i] # t[j]
  BY DEF SetToSeqs
<1>4. C \subseteq SUBSET s
  BY DEF Classes
<1>5. \A i \in s : \E c \in C : i \in c
  <2> TAKE i \in s
  <2>1. class(i) \in C
    BY DEF Classes
  <2>2. i \in class(i)
    OBVIOUS
  <2> QED
    BY <2>1, <2>2
<1> HIDE DEF C
<1>6. t \in Surjection(1 .. n, C)
  <2>1. t \in Injection(1 .. n, C)
    BY <1>3 DEF Injection, IsInjective
  <2>2. IsFiniteSet(1 .. n) /\ Cardinality(1 .. n) = n
    BY <1>2, FS_Interval
  <2> QED
    BY <1>1, <2>1, <2>2, FS_Injection
<1>7. DOMAIN t = 1 .. n
  BY <1>3
<1>8. t \in Seq(SUBSET Item)
  <2>1. t \in [1 .. n -> SUBSET Item]
    BY <1>3, <1>4
  <2> QED
    BY <1>2, <2>1, MappedAt
<1>9. \A k \in DOMAIN t : t[k] \subseteq s
  BY <1>3, <1>4, <1>7
<1>10. ASSUME NEW i \in s PROVE \E k \in DOMAIN t : i \in t[k]
  <2>1. PICK c \in C : i \in c
    BY <1>5
  <2>2. PICK k \in 1 .. n : t[k] = c
    BY <1>6 DEF Surjection
  <2> QED
    BY <1>7, <2>1, <2>2
<1> QED
  BY <1>8, <1>9, <1>10

-----------------------------------------------------------------------------
(* The rounds and flush()'s place in them, step by step                    *)

\* add(), with all that it adds.
LEMMA AddItemIs ==
  ASSUME SessionTypeOK, Ordered, NEW i \in Item, AddItem(i)
  PROVE  LET old == Last(Current)
             new == Enqueue[i][old]
         IN  /\ Tidy(old) /\ Tidy(new) /\ Grown(old, new)
             /\ rounds' = [Current EXCEPT ![Len(Current)] = new] /\ Len(Current) <= MaxRounds
             /\ wanted' = [j \in Item |-> IF j \in ToSet(new.add) \ ToSet(old.add) THEN "stored" ELSE wanted[j]]
             /\ excused' = IF TooLate THEN excused \cup (ToSet(new.add) \ ToSet(old.add)) ELSE excused
             /\ UNCHANGED <<databaseVars, stage, at, lost, commitVars>>
<1> DEFINE old == Last(Current)
           new == Enqueue[i][old]
<1>1. Tidy(old)
  BY CurrentIs
<1>2. Tidy(new) /\ Grown(old, new)
  BY <1>1, EnqueueTidy
<1>3. /\ rounds' = [Current EXCEPT ![Len(Current)] = new] /\ Len(Current) <= MaxRounds
      /\ wanted' = [j \in Item |-> IF j \in ToSet(new.add) \ ToSet(old.add) THEN "stored" ELSE wanted[j]]
      /\ excused' = IF TooLate THEN excused \cup (ToSet(new.add) \ ToSet(old.add)) ELSE excused
      /\ UNCHANGED <<databaseVars, stage, at, lost, commitVars>>
  BY DEF AddItem, Queue
<1> QED
  BY <1>1, <1>2, <1>3

\* flush(), up to its loop: it adds what is known.
LEMMA FlushStartIs ==
  ASSUME SessionTypeOK, Ordered, FlushStart
  PROVE  LET old == Last(Current)
         IN  \E new :
             /\ Tidy(old) /\ Tidy(new) /\ Grown(old, new)
             /\ rounds' = [Current EXCEPT ![Len(Current)] = new] /\ Len(Current) <= MaxRounds
             /\ wanted' = [j \in Item |-> IF j \in ToSet(new.add) \ ToSet(old.add) THEN "stored" ELSE wanted[j]]
             /\ excused' = IF TooLate THEN excused \cup (ToSet(new.add) \ ToSet(old.add)) ELSE excused
             /\ UNCHANGED <<databaseVars, at, lost, commitVars>>
             /\ stage = "idle" /\ (stage' = stage \/ stage' = "loop")
<1> DEFINE old == Last(Current)
           S == {i \in Item : Known(i)}
           all == IF WithIdentityMap THEN SetToSeq(S) ELSE <<>>
           new == Fold(Enqueue, old, all)
<1>1. Tidy(old)
  BY CurrentIs
<1>2. all \in Seq(Item)
  <2>1. IsFiniteSet(S) /\ S \subseteq Item
    BY ItemAssumption, FS_Subset
  <2>2. SetToSeq(S) \in Seq(S)
    BY <2>1, SetToSeqAt
  <2> HIDE DEF S
  <2>3. SetToSeq(S) \in Seq(Item)
    BY <2>1, <2>2
  <2> QED
    BY <2>3
<1>3. Tidy(new) /\ Grown(old, new)
  <2> HIDE DEF all
  <2> QED
    BY <1>1, <1>2, EnqueueAllTidy
<1>4. /\ stage = "idle" /\ rounds' = [Current EXCEPT ![Len(Current)] = new] /\ at' = 1 /\ stage' \in Between
      /\ wanted' = [i \in Item |-> IF i \in ToSet(new.add) \ ToSet(old.add) THEN "stored" ELSE wanted[i]]
      /\ excused' = IF TooLate THEN excused \cup (ToSet(new.add) \ ToSet(old.add)) ELSE excused
      /\ UNCHANGED <<databaseVars, lost, commitVars>>
  BY DEF FlushStart
<1> HIDE DEF new
<1>5. Len(Current) <= MaxRounds
  <2>1. stage \in Between
    BY <1>4 DEF Between
  <2>2. \A k \in DOMAIN rounds : rounds[k].state # "inCommit"
    BY <2>1 DEF SessionTypeOK
  <2>3. CASE Len(Current) \in DOMAIN rounds
    BY <2>3, CurrentIs, RoundsAre DEF SessionTypeOK
  <2>4. CASE Len(Current) \notin DOMAIN rounds
    <3>1. rounds = <<>>
      <4>1. rounds # <<>> => Len(rounds) \in DOMAIN rounds
        BY RoundsAre
      <4>2. Last(rounds) = rounds[Len(rounds)]
        BY DEF Last
      <4> QED
        BY <2>2, <2>4, <4>1, <4>2, CurrentIs
    <3>2. Current = Append(<<>>, NewRound)
      BY <3>1 DEF Current
    <3>3. Len(Current) = 1
      BY <3>2
    <3> QED
      BY <3>3, RoundsAre
  <2> QED
    BY <2>3, <2>4
<1>6. at' = at /\ (stage' = stage \/ stage' = "loop")
  BY <1>4 DEF Ordered, Between
<1> QED
  BY <1>1, <1>3, <1>4, <1>5, <1>6

\* A round that has grown.
LEMMA GrownOrdered ==
  ASSUME SessionTypeOK, Ordered, NEW new, Tidy(new), Grown(Last(Current), new),
         rounds' = [Current EXCEPT ![Len(Current)] = new], Len(Current) <= MaxRounds,
         wanted' = [j \in Item |-> IF j \in ToSet(new.add) \ ToSet(Last(Current).add) THEN "stored" ELSE wanted[j]],
         excused' = IF TooLate THEN excused \cup (ToSet(new.add) \ ToSet(Last(Current).add)) ELSE excused,
         UNCHANGED <<databaseVars, at, lost, commitVars>>, stage' = stage \/ (stage = "idle" /\ stage' = "loop")
  PROVE  SessionTypeOK' /\ Ordered'
<1>1. Queued(Len(Current), new)
  BY QueuedIs DEF Grown
<1>2. ToSet(new.add) \subseteq Item
  BY ToSetIn DEF Tidy, Round
<1>3. excused' \subseteq Item /\ wanted' \in [Item -> {"nothing", "stored", "gone"}]
  BY <1>2 DEF SessionTypeOK
<1>4. Typed'
  BY <1>3, TypedIs DEF Typed, databaseVars, commitVars
<1>5. UNCHANGED <<at, lost, todo>>
  BY DEF commitVars
<1> QED
  BY <1>1, <1>4, <1>5, QueuedOrdered

LEMMA AddItemOrdered ==
  ASSUME SessionTypeOK, Ordered, NEW i \in Item, AddItem(i)
  PROVE  SessionTypeOK' /\ Ordered'
<1> DEFINE new == Enqueue[i][Last(Current)]
<1>1. /\ Tidy(new) /\ Grown(Last(Current), new)
      /\ rounds' = [Current EXCEPT ![Len(Current)] = new] /\ Len(Current) <= MaxRounds
      /\ wanted' = [j \in Item |-> IF j \in ToSet(new.add) \ ToSet(Last(Current).add) THEN "stored" ELSE wanted[j]]
      /\ excused' = IF TooLate THEN excused \cup (ToSet(new.add) \ ToSet(Last(Current).add)) ELSE excused
      /\ UNCHANGED <<databaseVars, stage, at, lost, commitVars>>
  BY AddItemIs
<1> HIDE DEF new
<1> QED
  BY <1>1, GrownOrdered

LEMMA FlushStartOrdered ==
  ASSUME SessionTypeOK, Ordered, FlushStart
  PROVE  SessionTypeOK' /\ Ordered'
BY FlushStartIs, GrownOrdered

\* remove()
LEMMA RemoveItemIs ==
  ASSUME SessionTypeOK, Ordered, NEW i \in Item, RemoveItem(i)
  PROVE  LET old == Last(Current)
             new == Dequeue(old, i)
         IN  /\ Tidy(old) /\ Tidy(new) /\ new.state = old.state
             /\ new.remove = old.remove \cup {i} /\ ToSet(new.add) = ToSet(old.add) \ {i}
             /\ rounds' = [Current EXCEPT ![Len(Current)] = new] /\ Len(Current) <= MaxRounds
             /\ wanted' = [wanted EXCEPT ![i] = "gone"]
             /\ excused' = IF TooLate THEN excused \cup {i} ELSE excused
             /\ UNCHANGED <<databaseVars, stage, at, lost, commitVars>>
<1> DEFINE old == Last(Current)
           new == Dequeue(old, i)
<1>1. Tidy(old)
  BY CurrentIs
<1>2. Tidy(new) /\ new.state = old.state /\ new.remove = old.remove \cup {i} /\ ToSet(new.add) = ToSet(old.add) \ {i}
  BY <1>1, DequeueTidy
<1>3. /\ rounds' = [Current EXCEPT ![Len(Current)] = new] /\ Len(Current) <= MaxRounds
      /\ wanted' = [wanted EXCEPT ![i] = "gone"]
      /\ excused' = IF TooLate THEN excused \cup {i} ELSE excused
      /\ UNCHANGED <<databaseVars, stage, at, lost, commitVars>>
  BY DEF RemoveItem, Queue
<1> QED
  BY <1>1, <1>2, <1>3

LEMMA RemoveItemOrdered ==
  ASSUME SessionTypeOK, Ordered, NEW i \in Item, RemoveItem(i)
  PROVE  SessionTypeOK' /\ Ordered'
<1> DEFINE new == Dequeue(Last(Current), i)
<1>1. /\ Tidy(new) /\ new.state = Last(Current).state
      /\ rounds' = [Current EXCEPT ![Len(Current)] = new] /\ Len(Current) <= MaxRounds
      /\ wanted' = [wanted EXCEPT ![i] = "gone"]
      /\ excused' = IF TooLate THEN excused \cup {i} ELSE excused
      /\ UNCHANGED <<databaseVars, stage, at, lost, commitVars>>
  BY RemoveItemIs
<1> HIDE DEF new
<1>2. Queued(Len(Current), new)
  BY <1>1, QueuedIs
<1>3. excused' \subseteq Item /\ wanted' \in [Item -> {"nothing", "stored", "gone"}]
  BY <1>1 DEF SessionTypeOK
<1>4. Typed'
  BY <1>1, <1>3, TypedIs DEF Typed, databaseVars, commitVars
<1>5. UNCHANGED <<stage, at, lost, todo>>
  BY <1>1 DEF commitVars
<1> QED
  BY <1>1, <1>2, <1>4, <1>5, QueuedOrdered

\* An error leaves a session like a new one.
LEMMA AbortOrdered ==
  ASSUME SessionTypeOK, Abort, UNCHANGED <<mem, before>>, rows' \in [Item -> Row], snapshot' \in [Item -> Row],
         excused' \subseteq Item
  PROVE  SessionTypeOK' /\ Ordered'
<1>1. /\ rounds' = <<>> /\ stage' = "idle" /\ at' = 1 /\ lost' = FALSE
      /\ adding' = <<>> /\ usable' = TRUE /\ inserts' = {} /\ changes' = << >>
      /\ wanted' = [i \in Item |-> "nothing"]
  BY DEF Abort, Dropped
<1>2. rounds' \in Seq(Round) /\ Len(rounds') = 0 /\ DOMAIN rounds' = {} /\ adding' \in Seq(Item) /\ DOMAIN changes' = {}
  BY <1>1
<1>3. 1 \in 1 .. MaxRounds + 1 /\ 0 <= MaxRounds
  BY BoundsAssumption
<1>4. SessionTypeOK'
  BY <1>1, <1>2, <1>3 DEF SessionTypeOK, Between
<1>5. Ordered'
  BY <1>1, <1>2 DEF Ordered, Committing, Grouping, Writing
<1> QED
  BY <1>4, <1>5

\* Of the rounds only the state of one or some changes.
LEMMA StatesChange ==
  ASSUME SessionTypeOK, Ordered, NEW f, rounds' = [k \in DOMAIN rounds |-> [rounds[k] EXCEPT !.state = f[k]]],
         \A k \in DOMAIN rounds : f[k] \in {rounds[k].state, "inCommit", "committed"}
  PROVE  /\ rounds' \in Seq(Round) /\ Len(rounds') = Len(rounds) /\ DOMAIN rounds' = DOMAIN rounds
         /\ \A k \in DOMAIN rounds : /\ rounds'[k].add = rounds[k].add /\ rounds'[k].remove = rounds[k].remove
                                     /\ rounds'[k].state = f[k]
         /\ \A k \in DOMAIN rounds' : Tidy(rounds'[k]) /\ (rounds'[k].state = "open" => k = Len(rounds'))
<1> DEFINE l == Len(rounds)
<1>1. /\ l \in Nat /\ DOMAIN rounds = 1 .. l
      /\ \A k \in DOMAIN rounds : rounds[k] \in Round /\ Tidy(rounds[k]) /\ (rounds[k].state = "open" => k = l)
  BY RoundsAre DEF Ordered
<1>2. ASSUME NEW k \in DOMAIN rounds
      PROVE  /\ rounds'[k] \in Round /\ Tidy(rounds'[k]) /\ rounds'[k].state = f[k]
             /\ rounds'[k].add = rounds[k].add /\ rounds'[k].remove = rounds[k].remove
  <2> DEFINE r == rounds[k]
             q == [r EXCEPT !.state = f[k]]
  <2>1. rounds'[k] = q
    OBVIOUS
  <2>2. r \in Round /\ Tidy(r) /\ f[k] \in {r.state, "inCommit", "committed"}
    BY <1>1
  <2> HIDE DEF r
  <2>3. q \in Round /\ q.state = f[k] /\ q.add = r.add /\ q.remove = r.remove
    BY <2>2 DEF Round
  <2> HIDE DEF q
  <2>4. Tidy(q)
    BY <2>2, <2>3 DEF Tidy, HasDeps
  <2> QED
    BY <2>1, <2>3, <2>4 DEF r
<1> HIDE DEF l
<1>3. rounds' \in [1 .. l -> Round]
  BY <1>1, <1>2
<1>4. rounds' \in Seq(Round) /\ Len(rounds') = l /\ DOMAIN rounds' = 1 .. l
  BY <1>1, <1>3, MappedAt
<1>5. \A k \in DOMAIN rounds : rounds'[k].state = "open" => k = l
  BY <1>1, <1>2
<1> QED
  BY <1>1, <1>2, <1>4, <1>5 DEF l

\* commit() of a round begins, ...
LEMMA RoundBeginsIs ==
  ASSUME SessionTypeOK, Ordered, RoundBegins, rounds[at].state # "committed",
         ~(rounds[at].remove = {} /\ rounds[at].add = <<>>)
  PROVE  /\ stage = "loop" /\ at \in DOMAIN rounds /\ at = Len(rounds) /\ rounds[at].state = "open"
         /\ rounds' \in Seq(Round) /\ Len(rounds') = Len(rounds) /\ DOMAIN rounds' = DOMAIN rounds
         /\ \A k \in DOMAIN rounds : rounds'[k].state = IF k = at THEN "inCommit" ELSE rounds[k].state
         /\ \A k \in DOMAIN rounds' : Tidy(rounds'[k]) /\ (rounds'[k].state = "open" => k = Len(rounds'))
         /\ adding' = rounds[at].add /\ adding' \in Seq(Item)
         /\ todo' \in Seq(SUBSET Item) /\ \A k \in DOMAIN todo' : todo'[k] \subseteq rounds[at].remove
         /\ \A i \in rounds[at].remove : \E k \in DOMAIN todo' : i \in todo'[k]
         /\ stage' = "deleting" /\ usable' \in BOOLEAN
         /\ UNCHANGED <<at, lost, mem, snapshot, rows, before, inserts, changes, wanted, excused>>
<1> DEFINE r == rounds[at]
           f == [k \in DOMAIN rounds |-> IF k = at THEN "inCommit" ELSE rounds[k].state]
<1>1. /\ stage = "loop" /\ at \in DOMAIN rounds
      /\ UNCHANGED <<lost, mem, snapshot, rows, before, inserts, changes, wanted, excused>>
  BY RoundsAre DEF RoundBegins, MoreRounds, databaseVars
<1>2. /\ rounds' = [rounds EXCEPT ![at].state = "inCommit"]
      /\ stage' = "deleting" /\ adding' = r.add /\ usable' = ~lost /\ todo' \in SetToSeqs(Classes(r.remove)) /\ at' = at
  BY DEF RoundBegins
<1>3. \A k \in DOMAIN rounds : rounds[k] \in Round
  BY RoundsAre
<1>4. r.add \in Seq(Item) /\ r.remove \in SUBSET Item /\ r.state \in {"open", "inCommit", "committed"}
  BY <1>1, <1>3 DEF Round
<1>5. r.state = "open" /\ at = Len(rounds)
  <2>1. r.state # "inCommit"
    BY <1>1 DEF SessionTypeOK, Between
  <2> QED
    BY <1>1, <1>4, <2>1 DEF Ordered
<1>6. rounds' = [k \in DOMAIN rounds |-> [rounds[k] EXCEPT !.state = f[k]]]
  <2>1. \A k \in DOMAIN rounds : k # at => [rounds[k] EXCEPT !.state = rounds[k].state] = rounds[k]
    BY <1>3 DEF Round
  <2>2. rounds \in [1 .. Len(rounds) -> Round] /\ DOMAIN rounds = 1 .. Len(rounds)
    BY RoundsAre
  <2> QED
    BY <1>1, <1>2, <2>1, <2>2
<1>7. \A k \in DOMAIN rounds : f[k] \in {rounds[k].state, "inCommit", "committed"}
  OBVIOUS
<1> HIDE DEF r
<1>8. /\ rounds' \in Seq(Round) /\ Len(rounds') = Len(rounds) /\ DOMAIN rounds' = DOMAIN rounds
      /\ \A k \in DOMAIN rounds : rounds'[k].state = f[k]
      /\ \A k \in DOMAIN rounds' : Tidy(rounds'[k]) /\ (rounds'[k].state = "open" => k = Len(rounds'))
  <2> HIDE DEF f
  <2> QED
    BY <1>6, <1>7, StatesChange
<1>9. /\ todo' \in Seq(SUBSET Item) /\ \A k \in DOMAIN todo' : todo'[k] \subseteq r.remove
      /\ \A i \in r.remove : \E k \in DOMAIN todo' : i \in todo'[k]
  BY <1>2, <1>4, ClassesAre
<1>10. lost \in BOOLEAN
  BY DEF SessionTypeOK
<1> QED
  BY <1>1, <1>2, <1>4, <1>5, <1>8, <1>9, <1>10 DEF r

LEMMA RoundBeginsOrdered ==
  ASSUME SessionTypeOK, Ordered, RoundBegins
  PROVE  SessionTypeOK' /\ Ordered'
<1> DEFINE r == rounds[at]
<1>1. CASE r.state = "committed" \/ (r.remove = {} /\ r.add = <<>>)
  <2>1. /\ stage = "loop" /\ at <= Len(rounds)
        /\ at' = at + 1 /\ UNCHANGED <<rounds, stage, lost, todo, adding, usable>>
        /\ UNCHANGED <<mem, snapshot, rows, before, inserts, changes, wanted, excused>>
    BY <1>1 DEF RoundBegins, MoreRounds, databaseVars
  <2>2. at + 1 \in 1 .. MaxRounds + 1
    BY <2>1, RoundsAre DEF SessionTypeOK
  <2>3. stage \in Between /\ stage \notin Committing /\ stage \notin Grouping /\ stage \notin Writing
    BY <2>1 DEF Between, Committing, Grouping, Writing
  <2>4. SessionTypeOK'
    BY <2>1, <2>2, <2>3 DEF SessionTypeOK
  <2>5. Ordered'
    BY <2>1, <2>3 DEF Ordered
  <2> QED
    BY <2>4, <2>5
<1>2. CASE ~(r.state = "committed" \/ (r.remove = {} /\ r.add = <<>>))
  <2>1. /\ at \in DOMAIN rounds /\ rounds[at].state = "open"
        /\ rounds' \in Seq(Round) /\ Len(rounds') = Len(rounds) /\ DOMAIN rounds' = DOMAIN rounds
        /\ \A k \in DOMAIN rounds : rounds'[k].state = IF k = at THEN "inCommit" ELSE rounds[k].state
        /\ \A k \in DOMAIN rounds' : Tidy(rounds'[k]) /\ (rounds'[k].state = "open" => k = Len(rounds'))
        /\ adding' \in Seq(Item) /\ todo' \in Seq(SUBSET Item) /\ usable' \in BOOLEAN
        /\ stage = "loop" /\ stage' = "deleting"
        /\ UNCHANGED <<at, lost, mem, snapshot, rows, before, inserts, changes, wanted, excused>>
    BY <1>2, RoundBeginsIs
  <2>2. stage' \notin Between /\ stage \in Between
    BY <2>1 DEF Between
  <2>3. \A k \in DOMAIN rounds' : rounds'[k].state = "inCommit" => k = at'
    BY <2>1, <2>2 DEF SessionTypeOK
  <2>4. SessionTypeOK'
    BY <2>1, <2>2, <2>3 DEF SessionTypeOK
  <2>5. at <= MaxRounds
    BY <2>1, RoundsAre DEF SessionTypeOK
  <2>6. Ordered'
    BY <2>1, <2>5 DEF Ordered, Grouping, Writing
  <2> QED
    BY <2>4, <2>6
<1> QED
  BY <1>1, <1>2

\* Steps within the round in commit.
LEMMA CommitOrdered ==
  ASSUME SessionTypeOK, Ordered, Typed', stage \in Committing, stage' \in Committing, UNCHANGED <<rounds, at, lost>>,
         stage' = "deleting" => todo' \in Seq(SUBSET Item),
         stage' \in Grouping => todo' \in Seq(GroupOf),
         stage' \in Writing => todo' # <<>>
  PROVE  SessionTypeOK' /\ Ordered'
<1>1. stage' \notin Between /\ stage' # "idle"
  BY DEF Committing, Between
<1>2. SessionTypeOK'
  BY <1>1 DEF SessionTypeOK, Typed, Committing
<1>3. Ordered'
  BY <1>1 DEF Ordered
<1> QED
  BY <1>2, <1>3

\* Steps that leave the rounds and flush() where they are.
LEMMA StillOrdered ==
  ASSUME SessionTypeOK, Ordered, Typed', UNCHANGED <<rounds, stage, at, lost, todo>>
  PROVE  SessionTypeOK' /\ Ordered'
<1>1. SessionTypeOK'
  BY DEF SessionTypeOK, Typed
<1>2. Ordered'
  BY DEF Ordered
<1> QED
  BY <1>1, <1>2

\* The rows or snapshots with some of them replaced.
LEMMA PutIs ==
  ASSUME NEW f, NEW s, NEW new
  PROVE  \A i \in Item : Put(f, s, new)[i] = IF i \in s THEN new[i] ELSE f[i]
BY DEF Put

LEMMA PutTyped ==
  ASSUME NEW f \in [Item -> Row], NEW s, NEW new, \A i \in Item : i \in s => new[i] \in Row
  PROVE  Put(f, s, new) \in [Item -> Row]
BY DEF Put

LEMMA NowhereIs == \A i \in Item : Nowhere[i] = Absent /\ Nowhere[i] \in Row
BY DEF Nowhere, Row

\* The ways doDelete() can go on with a class: stopped, done, done but a listener
\* fails, failed when the rows of w are gone.
LEMMA DeleteWays ==
  ASSUME SessionTypeOK, Delete
  PROVE  /\ stage = "deleting" /\ todo # <<>> /\ UNCHANGED <<mem, before>>
         /\ \/ /\ todo' = <<>> /\ excused' = excused \cup UNION ToSet(todo)
               /\ UNCHANGED <<rows, snapshot, rounds, stage, at, lost, adding, usable, inserts, changes, wanted>>
            \/ /\ rows' = Put(rows, Head(todo), Nowhere)
               /\ \/ snapshot' = Put(snapshot, Head(todo), Nowhere) /\ excused' = excused
                  \/ snapshot' = snapshot /\ excused' = excused \cup Head(todo)
               /\ \/ todo' = Tail(todo) /\ UNCHANGED <<rounds, stage, at, lost, adding, usable, inserts, changes, wanted>>
                  \/ Abort
            \/ /\ \E w \in SUBSET Head(todo) : rows' = Put(rows, w, Nowhere) /\ excused' = excused \cup w
               /\ Abort /\ snapshot' = snapshot
<1>1. stage = "deleting" /\ todo # <<>> /\ UNCHANGED <<mem, before>>
  BY DEF Delete
<1>2. SUBSET (IF usable THEN Head(todo) ELSE {}) \subseteq SUBSET Head(todo)
  OBVIOUS
<1> QED
  BY <1>1, <1>2, Zenon DEF Delete

LEMMA DeleteOrdered ==
  ASSUME SessionTypeOK, Ordered, Delete
  PROVE  SessionTypeOK' /\ Ordered'
<1>1. stage = "deleting" /\ todo # <<>> /\ UNCHANGED <<mem, before>> /\ todo \in Seq(SUBSET Item)
  BY DEF Delete, Ordered
<1>2. Head(todo) \subseteq Item /\ Tail(todo) \in Seq(SUBSET Item)
  BY <1>1, TailAt
<1>3. Typed
  BY TypedIs
<1>4. \A s : Put(rows, s, Nowhere) \in [Item -> Row] /\ Put(snapshot, s, Nowhere) \in [Item -> Row]
  BY <1>3, PutTyped, NowhereIs DEF Typed
<1>5. ASSUME todo' = <<>>, excused' = excused \cup UNION ToSet(todo),
             UNCHANGED <<rows, snapshot, rounds, stage, at, lost, adding, usable, inserts, changes, wanted>>
      PROVE  SessionTypeOK' /\ Ordered'
  <2>1. UNION ToSet(todo) \subseteq Item
    BY <1>1, ToSetIn
  <2>2. Typed'
    BY <1>1, <1>3, <1>5, <2>1 DEF Typed
  <2>3. todo' \in Seq(SUBSET Item)
    BY <1>5
  <2> QED
    BY <1>1, <1>5, <2>2, <2>3, CommitOrdered DEF Committing, Grouping, Writing
<1>6. ASSUME rows' \in [Item -> Row], snapshot' \in [Item -> Row], excused' \subseteq Item, todo' = Tail(todo),
             UNCHANGED <<rounds, stage, at, lost, adding, usable, inserts, changes, wanted>>
      PROVE  SessionTypeOK' /\ Ordered'
  <2>1. Typed'
    BY <1>1, <1>3, <1>6 DEF Typed
  <2> QED
    BY <1>1, <1>2, <1>6, <2>1, CommitOrdered DEF Committing, Grouping, Writing
<1>7. ASSUME rows' \in [Item -> Row], snapshot' \in [Item -> Row], excused' \subseteq Item, Abort
      PROVE  SessionTypeOK' /\ Ordered'
  BY <1>1, <1>7, AbortOrdered
<1>8. ASSUME rows' = Put(rows, Head(todo), Nowhere),
             \/ snapshot' = Put(snapshot, Head(todo), Nowhere) /\ excused' = excused
             \/ snapshot' = snapshot /\ excused' = excused \cup Head(todo)
      PROVE  rows' \in [Item -> Row] /\ snapshot' \in [Item -> Row] /\ excused' \subseteq Item
  BY <1>2, <1>3, <1>4, <1>8 DEF Typed
<1>9. ASSUME NEW w \in SUBSET Head(todo), rows' = Put(rows, w, Nowhere), excused' = excused \cup w, snapshot' = snapshot
      PROVE  rows' \in [Item -> Row] /\ snapshot' \in [Item -> Row] /\ excused' \subseteq Item
  BY <1>2, <1>3, <1>4, <1>9 DEF Typed
<1> QED
  BY <1>5, <1>6, <1>7, <1>8, <1>9, DeleteWays

\* The group that is being written.
LEMMA GroupIs ==
  ASSUME SessionTypeOK, Ordered, stage \in Grouping, todo # <<>>
  PROVE  /\ Group = ToSet(todo[1].items) /\ 1 \in DOMAIN todo /\ Group \subseteq Item
         /\ \A i \in Group : Due(i)
<1>1. todo \in Seq(GroupOf)
  BY DEF Ordered
<1>2. Head(todo) = todo[1] /\ 1 \in DOMAIN todo /\ todo[1] \in GroupOf
  BY <1>1, TailAt
<1>3. Group = ToSet(todo[1].items)
  BY <1>2 DEF Group, Grouping
<1>4. Group \subseteq Item
  BY <1>2, <1>3, ToSetIn DEF GroupOf
<1>5. \A i \in Group : Due(i)
  BY <1>2, <1>3 DEF Due, Grouping
<1> QED
  BY <1>2, <1>3, <1>4, <1>5

\* Steps within a group, and from one to the next.
LEMMA GroupingOrdered ==
  ASSUME SessionTypeOK, Ordered, Typed', stage \in Grouping, stage' \in Grouping, UNCHANGED <<rounds, at, lost>>,
         todo' = todo \/ (todo # <<>> /\ todo' = Tail(todo)),
         stage' \in Writing => todo' # <<>>
  PROVE  SessionTypeOK' /\ Ordered'
<1>1. todo \in Seq(GroupOf)
  BY DEF Ordered
<1>2. todo' \in Seq(GroupOf)
  BY <1>1, TailAt
<1>3. stage \in Committing /\ stage' \in Committing /\ stage' # "deleting"
  BY DEF Committing, Grouping
<1> QED
  BY <1>2, <1>3, CommitOrdered

\* doPersist() sorts the round: its groups are groups of what was added.
LEMMA SortIs ==
  ASSUME SessionTypeOK, Ordered, Sort
  PROVE  /\ stage = "deleting" /\ todo = <<>> /\ UNCHANGED <<mem, snapshot, rows, before, excused>>
         /\ \/ Abort
            \/ /\ todo' \in Seq(GroupOf) /\ stage' = "grouping" /\ adding' = <<>>
               /\ UNCHANGED <<rounds, at, lost, usable, inserts, changes, wanted>>
               /\ \A i \in Item : i \in ToSet(adding) <=> \E k \in DOMAIN todo' : i \in ToSet(todo'[k].items)
<1> DEFINE s == Sorted(adding)
<1>1. stage = "deleting" /\ todo = <<>> /\ UNCHANGED <<mem, snapshot, rows, before, excused>>
  BY DEF Sort, databaseVars
<1>2. adding \in Seq(Item)
  BY DEF SessionTypeOK
<1>3. CASE s.threw
  BY <1>1, <1>3 DEF Sort
<1>4. CASE ~s.threw
  <2>1. /\ todo' = s.groups /\ stage' = "grouping" /\ adding' = <<>>
        /\ UNCHANGED <<rounds, at, lost, usable, inserts, changes, wanted>>
    BY <1>4 DEF Sort
  <2>2. /\ s.groups \in Seq(GroupOf)
        /\ \A i \in ToSet(adding) : \E k \in DOMAIN s.groups : i \in ToSet(s.groups[k].items)
        /\ \A k \in DOMAIN s.groups : ToSet(s.groups[k].items) \subseteq ToSet(adding)
    BY <1>2, <1>4, SortedIs
  <2> HIDE DEF s
  <2> QED
    BY <1>1, <2>1, <2>2
<1> QED
  BY <1>3, <1>4

LEMMA SortOrdered ==
  ASSUME SessionTypeOK, Ordered, Sort
  PROVE  SessionTypeOK' /\ Ordered'
<1>1. stage = "deleting" /\ UNCHANGED <<mem, snapshot, rows, before, excused>>
  BY SortIs
<1>2. Typed
  BY TypedIs
<1>3. CASE Abort
  BY <1>1, <1>2, <1>3, AbortOrdered DEF Typed
<1>4. ASSUME todo' \in Seq(GroupOf), stage' = "grouping", adding' = <<>>,
             UNCHANGED <<rounds, at, lost, usable, inserts, changes, wanted>>
      PROVE  SessionTypeOK' /\ Ordered'
  <2>1. adding' \in Seq(Item)
    BY <1>4
  <2>2. Typed'
    BY <1>1, <1>2, <1>4, <2>1 DEF Typed
  <2> QED
    BY <1>1, <1>4, <2>2, CommitOrdered DEF Committing, Writing
<1> QED
  BY <1>3, <1>4, SortIs

\* A group is validated and compared.
LEMMA CompareOrdered ==
  ASSUME SessionTypeOK, Ordered, Compare
  PROVE  SessionTypeOK' /\ Ordered'
<1>1. stage = "grouping" /\ todo # <<>> /\ UNCHANGED <<mem, snapshot, rows, before, excused>>
  BY DEF Compare, databaseVars
<1>2. Typed
  BY TypedIs
<1>3. Group \subseteq Item
  BY <1>1, GroupIs DEF Grouping
<1>4. ASSUME inserts' = {i \in Group : ~Known(i)},
             changes' = [i \in {j \in Group : Known(j) /\ mem[j] # snapshot[j]} |-> mem[i]],
             stage' = "inserting", UNCHANGED <<rounds, at, lost, adding, usable, todo, wanted>>
      PROVE  SessionTypeOK' /\ Ordered'
  <2>1. Typed'
    BY <1>1, <1>2, <1>3, <1>4 DEF Typed
  <2> QED
    BY <1>1, <1>4, <2>1, GroupingOrdered DEF Grouping
<1>5. ASSUME Abort PROVE SessionTypeOK' /\ Ordered'
  BY <1>1, <1>2, <1>5, AbortOrdered DEF Typed
<1> QED
  BY <1>4, <1>5 DEF Compare

\* The ways the inserts of a group can go on: rows written or not; failed when
\* those of w are written.
LEMMA InsertWays ==
  ASSUME SessionTypeOK, Insert
  PROVE  /\ stage = "inserting" /\ UNCHANGED <<mem, snapshot, before>>
         /\ \/ rows' = Put(rows, inserts, mem) /\ excused' = excused /\ Written
            \/ rows' = rows /\ excused' = excused \cup inserts /\ Written
            \/ \E w \in SUBSET inserts : rows' = Put(rows, w, mem) /\ excused' = excused \cup w /\ Abort
<1>1. stage = "inserting" /\ UNCHANGED <<mem, snapshot, before>>
  BY DEF Insert
<1>2. CASE inserts = {} /\ Written /\ UNCHANGED <<rows, excused>>
  BY <1>1, <1>2
<1>3. CASE inserts # {} /\ rows' = Put(rows, inserts, mem) /\ Written /\ UNCHANGED excused
  BY <1>1, <1>3
<1>4. CASE inserts # {} /\ excused' = excused \cup inserts /\ Written /\ UNCHANGED rows
  BY <1>1, <1>4
<1>5. ASSUME NEW w \in SUBSET (IF usable THEN {i \in inserts : rows[i] = Absent} ELSE {}),
             rows' = Put(rows, w, mem), excused' = excused \cup w, Abort
      PROVE  \E v \in SUBSET inserts : rows' = Put(rows, v, mem) /\ excused' = excused \cup v /\ Abort
  <2>1. w \in SUBSET inserts
    OBVIOUS
  <2> QED
    BY <1>5, <2>1
<1> QED
  BY <1>1, <1>2, <1>3, <1>4, <1>5 DEF Insert

\* Likewise the updates.
LEMMA UpdateWays ==
  ASSUME SessionTypeOK, Update
  PROVE  /\ stage = "updating" /\ UNCHANGED <<mem, snapshot, before>>
         /\ \/ rows' = Put(rows, Existing(DOMAIN changes), changes) /\ excused' = excused /\ Written
            \/ rows' = rows /\ excused' = excused \cup DOMAIN changes /\ Written
            \/ \E w \in SUBSET Existing(DOMAIN changes) :
                  rows' = Put(rows, w, changes) /\ excused' = excused \cup inserts \cup w /\ Abort
<1>1. stage = "updating" /\ UNCHANGED <<mem, snapshot, before>>
  BY DEF Update
<1>2. CASE DOMAIN changes = {} /\ Written /\ UNCHANGED <<rows, excused>>
  <2>1. excused' = excused \cup DOMAIN changes
    BY <1>2
  <2> QED
    BY <1>1, <1>2, <2>1
<1>3. CASE rows' = Put(rows, Existing(DOMAIN changes), changes) /\ Written /\ UNCHANGED excused
  BY <1>1, <1>3
<1>4. CASE excused' = excused \cup DOMAIN changes /\ Written /\ UNCHANGED rows
  BY <1>1, <1>4
<1>5. ASSUME NEW w \in SUBSET (IF usable THEN Existing(DOMAIN changes) ELSE {}),
             rows' = Put(rows, w, changes), excused' = excused \cup inserts \cup w, Abort
      PROVE  \E v \in SUBSET Existing(DOMAIN changes) :
                rows' = Put(rows, v, changes) /\ excused' = excused \cup inserts \cup v /\ Abort
  <2>1. w \in SUBSET Existing(DOMAIN changes)
    OBVIOUS
  <2> QED
    BY <1>5, <2>1
<1> QED
  BY <1>1, <1>2, <1>3, <1>4, <1>5 DEF Update

LEMMA InsertOrdered ==
  ASSUME SessionTypeOK, Ordered, Insert
  PROVE  SessionTypeOK' /\ Ordered'
<1>1. stage = "inserting" /\ todo # <<>> /\ UNCHANGED <<mem, snapshot, before>>
  BY InsertWays DEF Ordered, Writing
<1>2. Typed
  BY TypedIs
<1>3. \A s : Put(rows, s, mem) \in [Item -> Row]
  BY <1>2, PutTyped DEF Typed, Row
<1>4. ASSUME Written, rows' \in [Item -> Row], excused' \subseteq Item PROVE SessionTypeOK' /\ Ordered'
  <2>1. stage' = "updating" /\ UNCHANGED <<rounds, at, lost, adding, usable, todo, inserts, changes, wanted>>
    BY <1>1, <1>4 DEF Written, commitVars
  <2>2. Typed'
    BY <1>1, <1>2, <1>4, <2>1 DEF Typed
  <2> QED
    BY <1>1, <2>1, <2>2, GroupingOrdered DEF Grouping
<1>5. ASSUME Abort, rows' \in [Item -> Row], excused' \subseteq Item PROVE SessionTypeOK' /\ Ordered'
  BY <1>1, <1>2, <1>5, AbortOrdered DEF Typed
<1>6. inserts \subseteq Item /\ excused \subseteq Item /\ rows \in [Item -> Row]
  BY <1>2 DEF Typed
<1> QED
  BY <1>3, <1>4, <1>5, <1>6, InsertWays

LEMMA UpdateOrdered ==
  ASSUME SessionTypeOK, Ordered, Update
  PROVE  SessionTypeOK' /\ Ordered'
<1>1. stage = "updating" /\ todo # <<>> /\ UNCHANGED <<mem, snapshot, before>>
  BY UpdateWays DEF Ordered, Writing
<1>2. Typed
  BY TypedIs
<1>3. \A s \in SUBSET Existing(DOMAIN changes) : Put(rows, s, changes) \in [Item -> Row]
  BY <1>2, PutTyped DEF Typed, Row, Existing
<1>4. ASSUME Written, rows' \in [Item -> Row], excused' \subseteq Item PROVE SessionTypeOK' /\ Ordered'
  <2>1. stage' = "storing" /\ UNCHANGED <<rounds, at, lost, adding, usable, todo, inserts, changes, wanted>>
    BY <1>1, <1>4 DEF Written, commitVars
  <2>2. Typed'
    BY <1>1, <1>2, <1>4, <2>1 DEF Typed
  <2> QED
    BY <1>1, <2>1, <2>2, GroupingOrdered DEF Grouping
<1>5. ASSUME Abort, rows' \in [Item -> Row], excused' \subseteq Item PROVE SessionTypeOK' /\ Ordered'
  BY <1>1, <1>2, <1>5, AbortOrdered DEF Typed
<1>6. inserts \subseteq Item /\ excused \subseteq Item /\ rows \in [Item -> Row] /\ DOMAIN changes \subseteq Item
  BY <1>2 DEF Typed
<1>7. Existing(DOMAIN changes) \subseteq DOMAIN changes
  BY DEF Existing
<1> QED
  BY <1>3, <1>4, <1>5, <1>6, <1>7, UpdateWays

\* The snapshots of a group.
LEMMA StoreOrdered ==
  ASSUME SessionTypeOK, Ordered, Store
  PROVE  SessionTypeOK' /\ Ordered'
<1>1. /\ stage = "storing" /\ todo # <<>>
      /\ snapshot' = Put(snapshot, Marked, mem)
      /\ todo' = Tail(todo) /\ stage' = "grouping" /\ inserts' = {} /\ changes' = << >>
      /\ UNCHANGED <<mem, rows, before, rounds, at, lost, adding, usable, wanted, excused>>
  BY DEF Store, Ordered, Writing
<1>2. Typed
  BY TypedIs
<1>3. snapshot' \in [Item -> Row]
  BY <1>1, <1>2, PutTyped DEF Typed, Row
<1>4. Typed'
  BY <1>1, <1>2, <1>3 DEF Typed
<1> QED
  BY <1>1, <1>4, GroupingOrdered DEF Grouping, Writing

\* commit() of a round ends.
LEMMA RoundEndsIs ==
  ASSUME SessionTypeOK, Ordered, RoundEnds
  PROVE  /\ stage = "grouping" /\ todo = <<>> /\ at' = at + 1 /\ stage' = "loop" /\ usable' = TRUE
         /\ UNCHANGED <<mem, snapshot, rows, before, lost, adding, todo, inserts, changes, wanted, excused>>
         /\ rounds' \in Seq(Round) /\ Len(rounds') = Len(rounds) /\ DOMAIN rounds' = DOMAIN rounds
         /\ \A k \in DOMAIN rounds : /\ rounds'[k].add = rounds[k].add /\ rounds'[k].remove = rounds[k].remove
                                     /\ rounds'[k].state # "inCommit"
                                     /\ rounds'[k].state = "open" <=> rounds[k].state = "open"
         /\ \A k \in DOMAIN rounds' : Tidy(rounds'[k]) /\ (rounds'[k].state = "open" => k = Len(rounds'))
<1> DEFINE f == [k \in DOMAIN rounds |-> IF rounds[k].state = "inCommit" THEN "committed" ELSE rounds[k].state]
<1>1. /\ stage = "grouping" /\ todo = <<>> /\ at' = at + 1 /\ stage' = "loop" /\ usable' = TRUE
      /\ UNCHANGED <<mem, snapshot, rows, before, lost, adding, todo, inserts, changes, wanted, excused>>
      /\ rounds' = [r \in DOMAIN rounds |->
                      IF rounds[r].state = "inCommit" THEN [rounds[r] EXCEPT !.state = "committed"] ELSE rounds[r]]
  BY DEF RoundEnds, databaseVars
<1>2. \A k \in DOMAIN rounds : [rounds[k] EXCEPT !.state = rounds[k].state] = rounds[k]
  BY RoundsAre DEF Round
<1>3. rounds' = [k \in DOMAIN rounds |-> [rounds[k] EXCEPT !.state = f[k]]]
  BY <1>1, <1>2
<1>4. \A k \in DOMAIN rounds : f[k] \in {rounds[k].state, "inCommit", "committed"}
  OBVIOUS
<1>5. \A k \in DOMAIN rounds : f[k] # "inCommit" /\ (f[k] = "open" <=> rounds[k].state = "open")
  OBVIOUS
<1> HIDE DEF f
<1>6. /\ rounds' \in Seq(Round) /\ Len(rounds') = Len(rounds) /\ DOMAIN rounds' = DOMAIN rounds
      /\ \A k \in DOMAIN rounds : /\ rounds'[k].add = rounds[k].add /\ rounds'[k].remove = rounds[k].remove
                                  /\ rounds'[k].state = f[k]
      /\ \A k \in DOMAIN rounds' : Tidy(rounds'[k]) /\ (rounds'[k].state = "open" => k = Len(rounds'))
  BY <1>3, <1>4, StatesChange
<1> QED
  BY <1>1, <1>5, <1>6

LEMMA RoundEndsOrdered ==
  ASSUME SessionTypeOK, Ordered, RoundEnds
  PROVE  SessionTypeOK' /\ Ordered'
<1>1. /\ at' = at + 1 /\ stage' = "loop" /\ usable' = TRUE
      /\ UNCHANGED <<mem, snapshot, rows, before, lost, adding, todo, inserts, changes, wanted, excused>>
      /\ rounds' \in Seq(Round) /\ Len(rounds') = Len(rounds) /\ DOMAIN rounds' = DOMAIN rounds
      /\ \A k \in DOMAIN rounds : rounds'[k].state # "inCommit"
      /\ \A k \in DOMAIN rounds' : Tidy(rounds'[k]) /\ (rounds'[k].state = "open" => k = Len(rounds'))
  BY RoundEndsIs
<1>2. at + 1 \in 1 .. MaxRounds + 1
  <2>1. stage = "grouping"
    BY RoundEndsIs
  <2>2. at <= MaxRounds /\ at \in Nat /\ at >= 1 /\ MaxRounds \in Nat
    BY <2>1, RoundsAre DEF Ordered, Committing
  <2> QED
    BY <2>2
<1>3. SessionTypeOK'
  BY <1>1, <1>2 DEF SessionTypeOK, Between
<1>4. Ordered'
  BY <1>1 DEF Ordered, Committing, Grouping, Writing
<1> QED
  BY <1>3, <1>4

\* flush() ends.
LEMMA FlushEndOrdered ==
  ASSUME SessionTypeOK, Ordered, FlushEnd
  PROVE  SessionTypeOK' /\ Ordered'
<1>1. /\ stage = "loop" /\ stage' = "idle" /\ at' = 1 /\ lost' = FALSE
      /\ UNCHANGED <<mem, snapshot, rows, before, adding, usable, todo, inserts, changes, wanted, excused>>
      /\ rounds' = rounds \/ rounds' = <<>>
  BY DEF FlushEnd, databaseVars, commitVars
<1>2. stage \in Between
  BY <1>1 DEF Between
<1>3. \A k \in DOMAIN rounds : rounds[k].state # "inCommit"
  BY <1>2 DEF SessionTypeOK
<1>4. /\ rounds' \in Seq(Round) /\ Len(rounds') <= MaxRounds
      /\ \A k \in DOMAIN rounds' : /\ rounds'[k].state # "inCommit" /\ Tidy(rounds'[k])
                                   /\ (rounds'[k].state = "open" => k = Len(rounds'))
  <2>1. CASE rounds' = rounds
    BY <1>3, <2>1, RoundsAre DEF SessionTypeOK, Ordered
  <2>2. CASE rounds' = <<>>
    <3>1. rounds' \in Seq(Round) /\ Len(rounds') = 0 /\ DOMAIN rounds' = {}
      BY <2>2
    <3> QED
      BY <3>1, RoundsAre
  <2> QED
    BY <1>1, <2>1, <2>2
<1>5. SessionTypeOK'
  <2>1. 1 \in 1 .. MaxRounds + 1
    BY RoundsAre
  <2>2. \A r \in DOMAIN rounds' : rounds'[r].state # "inCommit"
    BY <1>4
  <2>3. Typed'
    BY <1>1, TypedIs DEF Typed
  <2> QED
    BY <1>1, <1>4, <2>1, <2>2, <2>3 DEF SessionTypeOK, Typed, Between
<1>6. Ordered'
  BY <1>1, <1>4 DEF Ordered, Committing, Grouping, Writing
<1> QED
  BY <1>5, <1>6

\* reset(), at any time.
LEMMA ResetOrdered ==
  ASSUME SessionTypeOK, Ordered, Reset
  PROVE  SessionTypeOK' /\ Ordered'
<1>1. /\ rounds' = <<>> /\ lost' = (stage # "idle") /\ wanted' = [i \in Item |-> "nothing"]
      /\ UNCHANGED <<mem, snapshot, rows, before, stage, at, adding, usable, todo, inserts, changes, excused>>
  BY DEF Reset, databaseVars, commitVars
<1>2. rounds' \in Seq(Round) /\ Len(rounds') = 0 /\ DOMAIN rounds' = {} /\ 0 <= MaxRounds /\ lost' \in BOOLEAN
  BY <1>1, BoundsAssumption
<1>3. SessionTypeOK'
  BY <1>1, <1>2 DEF SessionTypeOK
<1>4. stage \in Committing => lost'
  BY <1>1 DEF Committing
<1>5. Ordered'
  BY <1>1, <1>2, <1>4 DEF Ordered
<1> QED
  BY <1>3, <1>5

\* An entity changes.
LEMMA ModifyOrdered ==
  ASSUME SessionTypeOK, Ordered, NEW i \in Item, Modify(i)
  PROVE  SessionTypeOK' /\ Ordered'
<1>1. Typed
  BY TypedIs
<1>2. /\ mem[i] < MaxValue /\ mem' = [mem EXCEPT ![i] = @ + 1]
      /\ excused' = excused \cup {i} \/ excused' = excused
      /\ UNCHANGED <<snapshot, rows, before, rounds, stage, at, lost, adding, usable, todo, inserts, changes, wanted>>
  BY DEF Modify, flushVars, commitVars
<1>3. mem' \in [Item -> Value]
  BY <1>1, <1>2, RoundsAre, BoundsAssumption DEF Typed, Value
<1>4. Typed'
  BY <1>1, <1>2, <1>3 DEF Typed
<1> QED
  BY <1>2, <1>4, StillOrdered

\* Transactions, and steps elsewhere.
LEMMA OthersOrdered ==
  ASSUME SessionTypeOK, Ordered, UseTransaction \/ Commit \/ Rollback \/ UNCHANGED sessionVars
  PROVE  SessionTypeOK' /\ Ordered'
<1>1. Typed
  BY TypedIs
<1>2. UNCHANGED <<rounds, stage, at, lost, adding, usable, todo, inserts, changes, wanted, mem, snapshot>>
  BY DEF UseTransaction, Commit, Rollback, sessionVars, databaseVars, flushVars, commitVars
<1>3. /\ rows' = rows \/ (rows' = before /\ before # Absent)
      /\ before' = Absent \/ before' = before \/ before' = rows
      /\ excused' \subseteq excused \cup Item
  <2>1. CASE UseTransaction
    BY <2>1 DEF UseTransaction
  <2>2. CASE Commit
    BY <2>2 DEF Commit
  <2>3. CASE Rollback
    BY <2>3 DEF Rollback
  <2>4. CASE UNCHANGED sessionVars
    BY <2>4 DEF sessionVars, databaseVars
  <2> QED
    BY <2>1, <2>2, <2>3, <2>4
<1>4. Typed'
  BY <1>1, <1>2, <1>3 DEF Typed
<1> QED
  BY <1>2, <1>4, StillOrdered

-----------------------------------------------------------------------------
(* What the session knows of the database, step by step                    *)

Accurate == Compared /\ \A i \in Item \ excused : Matches(i)

\* While no group is being written, what the session knows of an entity is its row.
LEMMA AccurateClosed ==
  ASSUME Accurate, stage \notin Writing
  PROVE  inserts = {} /\ DOMAIN changes = {} /\ \A i \in Item \ excused : snapshot[i] = rows[i]
BY DEF Accurate, Compared, Matches, Writing

\* Where no group is being written, it is enough that snapshots are rows.
LEMMA AccurateClose ==
  ASSUME stage' \notin Writing, inserts' = {}, DOMAIN changes' = {},
         \A i \in Item \ excused' : snapshot'[i] = rows'[i]
  PROVE  Accurate'
BY DEF Accurate, Compared, Matches, Writing

\* The group depends on todo and the stage only.
LEMMA GroupSame == ASSUME UNCHANGED <<stage, todo>> PROVE Group' = Group
BY DEF Group

\* Nothing that is compared has changed.
LEMMA AccurateSame ==
  ASSUME Accurate, UNCHANGED <<mem, snapshot, rows, stage, todo, inserts, changes>>, excused \subseteq excused'
  PROVE  Accurate'
<1>1. Group' = Group
  BY GroupSame
<1>2. Compared'
  BY <1>1 DEF Accurate, Compared
<1>3. ASSUME NEW i \in Item \ excused' PROVE Matches(i)'
  <2>1. Matches(i)
    BY DEF Accurate
  <2> QED
    BY <1>1, <2>1 DEF Matches
<1> QED
  BY <1>2, <1>3 DEF Accurate

\* An error ends flush() in order where every row is excused that changed
\* without its snapshot.
LEMMA AbortAccurate ==
  ASSUME Abort, \A i \in Item \ excused' : snapshot'[i] = rows'[i]
  PROVE  Accurate'
<1>1. stage' \notin Writing /\ inserts' = {} /\ DOMAIN changes' = {}
  BY DEF Abort, Writing
<1> QED
  BY <1>1, AccurateClose

\* add() and remove() touch no row and no snapshot.
LEMMA QueueAccurate ==
  ASSUME Accurate, NEW i \in Item, AddItem(i) \/ RemoveItem(i)
  PROVE  Accurate'
<1>1. UNCHANGED <<mem, snapshot, rows, stage, todo, inserts, changes>> /\ excused \subseteq excused'
  <2>1. CASE AddItem(i)
    <3>1. \E x : excused' = IF TooLate THEN excused \cup x ELSE excused
      BY <2>1, Zenon DEF AddItem
    <3>2. UNCHANGED <<mem, snapshot, rows, stage, todo, inserts, changes>>
      BY <2>1 DEF AddItem, Queue, databaseVars, commitVars
    <3> QED
      BY <3>1, <3>2
  <2>2. CASE RemoveItem(i)
    <3>1. excused \subseteq excused'
      BY <2>2 DEF RemoveItem
    <3>2. UNCHANGED <<mem, snapshot, rows, stage, todo, inserts, changes>>
      BY <2>2 DEF RemoveItem, Queue, databaseVars, commitVars
    <3> QED
      BY <3>1, <3>2
  <2> QED
    BY <2>1, <2>2
<1> QED
  BY <1>1, AccurateSame

\* Steps of flush() outside a group.
LEMMA OutsideAccurate ==
  ASSUME Accurate, FlushStart \/ RoundBegins \/ RoundEnds \/ FlushEnd
  PROVE  Accurate'
<1>1. /\ stage \notin Writing /\ stage' \notin Writing
      /\ UNCHANGED <<snapshot, rows, inserts, changes>> /\ excused \subseteq excused'
  <2>1. CASE FlushStart
    <3>1. \E x : excused' = IF TooLate THEN excused \cup x ELSE excused
      BY <2>1, Zenon DEF FlushStart
    <3>2. stage = "idle" /\ stage' \in Between /\ UNCHANGED <<snapshot, rows, inserts, changes>>
      BY <2>1 DEF FlushStart, databaseVars, commitVars
    <3> QED
      BY <3>1, <3>2 DEF Writing, Between
  <2>2. CASE RoundBegins
    BY <2>2 DEF RoundBegins, Writing, databaseVars
  <2>3. CASE RoundEnds
    BY <2>3 DEF RoundEnds, Writing, databaseVars
  <2>4. CASE FlushEnd
    BY <2>4 DEF FlushEnd, Writing, databaseVars, commitVars
  <2> QED
    BY <2>1, <2>2, <2>3, <2>4
<1> QED
  BY <1>1, AccurateClosed, AccurateClose

\* A row and its snapshot go together, or the entity is excused.
LEMMA DeleteAccurate ==
  ASSUME SessionTypeOK, Accurate, Delete
  PROVE  Accurate'
<1>1. stage = "deleting" /\ stage \notin Writing
  BY DEF Delete, Writing
<1>2. inserts = {} /\ DOMAIN changes = {} /\ \A i \in Item \ excused : snapshot[i] = rows[i]
  BY <1>1, AccurateClosed
<1>3. ASSUME UNCHANGED <<stage, inserts, changes>>, \A i \in Item \ excused' : snapshot'[i] = rows'[i]
      PROVE  Accurate'
  BY <1>1, <1>2, <1>3, AccurateClose
<1>4. ASSUME rows' = Put(rows, Head(todo), Nowhere),
             \/ snapshot' = Put(snapshot, Head(todo), Nowhere) /\ excused' = excused
             \/ snapshot' = snapshot /\ excused' = excused \cup Head(todo)
      PROVE  \A i \in Item \ excused' : snapshot'[i] = rows'[i]
  BY <1>2, <1>4, PutIs
<1>5. ASSUME NEW w, rows' = Put(rows, w, Nowhere), excused' = excused \cup w, snapshot' = snapshot
      PROVE  \A i \in Item \ excused' : snapshot'[i] = rows'[i]
  BY <1>2, <1>5, PutIs
<1>6. ASSUME excused \subseteq excused', UNCHANGED <<rows, snapshot>>
      PROVE  \A i \in Item \ excused' : snapshot'[i] = rows'[i]
  BY <1>2, <1>6
<1> QED
  BY <1>3, <1>4, <1>5, <1>6, DeleteWays, AbortAccurate

\* Sorting touches neither.
LEMMA SortAccurate ==
  ASSUME SessionTypeOK, Ordered, Accurate, Sort
  PROVE  Accurate'
<1>1. /\ stage = "deleting" /\ stage \notin Writing
      /\ UNCHANGED <<snapshot, rows, excused>>
      /\ Abort \/ (stage' = "grouping" /\ UNCHANGED <<inserts, changes>>)
  BY SortIs, Zenon DEF Writing
<1>2. inserts = {} /\ DOMAIN changes = {} /\ \A i \in Item \ excused : snapshot[i] = rows[i]
  BY <1>1, AccurateClosed
<1>3. CASE Abort
  BY <1>1, <1>2, <1>3, AbortAccurate
<1>4. CASE stage' = "grouping" /\ UNCHANGED <<inserts, changes>>
  BY <1>1, <1>2, <1>4, AccurateClose DEF Writing
<1> QED
  BY <1>1, <1>3, <1>4

\* What is compared is what is in memory, and differs from what is known.
LEMMA CompareAccurate ==
  ASSUME Accurate, Compare
  PROVE  Accurate'
<1>1. stage = "grouping" /\ stage \notin Writing /\ UNCHANGED <<mem, snapshot, rows, excused>>
  BY DEF Compare, Writing, databaseVars
<1>2. inserts = {} /\ DOMAIN changes = {} /\ \A i \in Item \ excused : snapshot[i] = rows[i]
  BY <1>1, AccurateClosed
<1>3. ASSUME inserts' = {i \in Group : ~Known(i)},
             changes' = [i \in {j \in Group : Known(j) /\ mem[j] # snapshot[j]} |-> mem[i]],
             stage' = "inserting", todo' = todo
      PROVE  Accurate'
  <2>1. Group' = Group
    BY <1>1, <1>3 DEF Group
  <2>2. inserts' = {i \in Group : snapshot[i] = Absent}
    BY <1>3 DEF Known
  <2>3. /\ \A i \in DOMAIN changes' : i \in Group /\ snapshot[i] # Absent /\ changes'[i] = mem[i]
        /\ \A i \in Group : i \notin inserts' /\ i \notin DOMAIN changes' => snapshot[i] = mem[i]
    BY <1>3 DEF Known
  <2>4. Compared'
    BY <1>1, <1>3, <2>1, <2>2, <2>3 DEF Compared, Writing
  <2>5. ASSUME NEW i \in Item \ excused' PROVE Matches(i)'
    BY <1>1, <1>2, <1>3, <2>1, <2>3 DEF Matches
  <2> QED
    BY <2>4, <2>5 DEF Accurate
<1>4. CASE Abort
  BY <1>1, <1>2, <1>4, AbortAccurate
<1> QED
  BY <1>3, <1>4 DEF Compare

\* What was not known is in the database after the inserts, with its value.
LEMMA InsertAccurate ==
  ASSUME SessionTypeOK, Accurate, Insert
  PROVE  Accurate'
<1>1. stage = "inserting" /\ stage \in Writing /\ UNCHANGED <<mem, snapshot>>
  BY InsertWays DEF Writing
<1>2. /\ inserts = {i \in Group : snapshot[i] = Absent}
      /\ \A i \in DOMAIN changes : i \in Group /\ snapshot[i] # Absent
      /\ \A i \in Item \ excused : /\ snapshot[i] = rows[i]
                                   /\ i \in Group /\ i \notin inserts =>
                                         IF i \in DOMAIN changes THEN changes[i] = mem[i] ELSE snapshot[i] = mem[i]
  BY <1>1 DEF Accurate, Compared, Matches
<1>3. ASSUME Written, excused \subseteq excused',
             \A i \in Item \ excused' : rows'[i] = IF i \in inserts THEN mem[i] ELSE rows[i]
      PROVE  Accurate'
  <2>1. stage' = "updating" /\ UNCHANGED <<todo, inserts, changes>>
    BY <1>1, <1>3 DEF Written, commitVars
  <2>2. Group' = Group
    BY <1>1, <2>1 DEF Group
  <2>3. Compared'
    BY <1>1, <1>2, <2>1, <2>2 DEF Compared, Writing
  <2>4. ASSUME NEW i \in Item \ excused' PROVE Matches(i)'
    BY <1>1, <1>2, <1>3, <2>1, <2>2 DEF Matches
  <2> QED
    BY <2>3, <2>4 DEF Accurate
<1>4. ASSUME rows' = Put(rows, inserts, mem), excused' = excused, Written PROVE Accurate'
  BY <1>3, <1>4, PutIs
<1>5. ASSUME rows' = rows, excused' = excused \cup inserts, Written PROVE Accurate'
  BY <1>3, <1>5
<1>6. ASSUME NEW w, rows' = Put(rows, w, mem), excused' = excused \cup w, Abort PROVE Accurate'
  BY <1>1, <1>2, <1>6, PutIs, AbortAccurate
<1> QED
  BY <1>4, <1>5, <1>6, InsertWays

\* After the updates the rows of the whole group are what is in memory.
LEMMA UpdateAccurate ==
  ASSUME SessionTypeOK, Accurate, Update
  PROVE  Accurate'
<1>1. stage = "updating" /\ stage \in Writing /\ UNCHANGED <<mem, snapshot>>
  BY UpdateWays DEF Writing
<1>2. /\ inserts = {i \in Group : snapshot[i] = Absent}
      /\ \A i \in DOMAIN changes : i \in Group /\ snapshot[i] # Absent
  BY <1>1 DEF Accurate, Compared
<1>3. \A i \in Item \ excused : /\ IF i \in inserts THEN rows[i] = mem[i] ELSE rows[i] = snapshot[i]
                                /\ i \in Group /\ i \notin inserts =>
                                      IF i \in DOMAIN changes THEN changes[i] = mem[i] ELSE snapshot[i] = mem[i]
  BY <1>1 DEF Accurate, Matches
<1>4. ASSUME Written, excused \subseteq excused',
             \A i \in Item \ excused' : rows'[i] = IF i \in DOMAIN changes THEN changes[i] ELSE rows[i]
      PROVE  Accurate'
  <2>1. stage' = "storing" /\ UNCHANGED <<todo, inserts, changes>>
    BY <1>1, <1>4 DEF Written, commitVars
  <2>2. Group' = Group
    BY <1>1, <2>1 DEF Group
  <2>3. Compared'
    BY <1>1, <1>2, <2>1, <2>2 DEF Compared, Writing
  <2>4. ASSUME NEW i \in Item \ excused' PROVE Matches(i)'
    <3>1. rows'[i] = IF i \in DOMAIN changes THEN changes[i] ELSE rows[i]
      BY <1>4
    <3>2. i \in Group => rows'[i] = mem[i]
      BY <1>2, <1>3, <1>4, <3>1
    <3>3. i \notin Group => rows'[i] = snapshot[i]
      BY <1>2, <1>3, <1>4, <3>1
    <3>4. i \in Group /\ i \notin inserts => IF i \in DOMAIN changes THEN changes[i] = mem[i] ELSE snapshot[i] = mem[i]
      BY <1>3, <1>4
    <3> QED
      BY <1>1, <2>1, <2>2, <3>2, <3>3, <3>4 DEF Matches
  <2> QED
    BY <2>3, <2>4 DEF Accurate
<1>5. ASSUME rows' = Put(rows, Existing(DOMAIN changes), changes), excused' = excused, Written PROVE Accurate'
  <2>1. \A i \in Item \ excused' : i \in DOMAIN changes => i \in Existing(DOMAIN changes)
    BY <1>2, <1>3, <1>5 DEF Existing
  <2>2. \A i \in Existing(DOMAIN changes) : i \in DOMAIN changes
    BY DEF Existing
  <2>3. \A i \in Item \ excused' : rows'[i] = IF i \in DOMAIN changes THEN changes[i] ELSE rows[i]
    BY <1>5, <2>1, <2>2, PutIs
  <2> QED
    BY <1>4, <1>5, <2>3
<1>6. ASSUME rows' = rows, excused' = excused \cup DOMAIN changes, Written PROVE Accurate'
  BY <1>4, <1>6
<1>7. ASSUME NEW w, rows' = Put(rows, w, changes), excused' = excused \cup inserts \cup w, Abort PROVE Accurate'
  <2>1. \A i \in Item \ excused' : snapshot'[i] = rows'[i]
    BY <1>1, <1>3, <1>7, PutIs
  <2> QED
    BY <1>7, <2>1, AbortAccurate
<1> QED
  BY <1>5, <1>6, <1>7, UpdateWays

\* So are its snapshots then.
LEMMA StoreAccurate ==
  ASSUME Accurate, Store
  PROVE  Accurate'
<1>1. /\ stage = "storing"
      /\ \A i \in Item : snapshot'[i] = IF i \in Group THEN mem[i] ELSE snapshot[i]
      /\ stage' = "grouping" /\ inserts' = {} /\ changes' = << >> /\ UNCHANGED <<rows, excused>>
  BY PutIs DEF Store, Marked
<1>2. \A i \in Item \ excused : /\ i \in Group => rows[i] = mem[i]
                                /\ i \notin Group => snapshot[i] = rows[i]
  BY <1>1 DEF Accurate, Matches
<1>3. \A i \in Item \ excused' : snapshot'[i] = rows'[i]
  BY <1>1, <1>2
<1>4. DOMAIN changes' = {} /\ stage' \notin Writing
  BY <1>1 DEF Writing
<1> QED
  BY <1>1, <1>3, <1>4, AccurateClose

\* A change between the comparison and the snapshot excuses the entity.
LEMMA ModifyAccurate ==
  ASSUME SessionTypeOK, Accurate, NEW j \in Item, Modify(j)
  PROVE  Accurate'
<1>1. /\ mem' = [mem EXCEPT ![j] = @ + 1]
      /\ excused' = IF /\ j \in Group /\ stage \in Writing
                       /\ ~(stage = "inserting" /\ j \in inserts)
                    THEN excused \cup {j} ELSE excused
      /\ UNCHANGED <<snapshot, rows, stage, todo, inserts, changes>>
  BY DEF Modify, Writing, flushVars, commitVars
<1>2. Group' = Group
  BY <1>1, GroupSame
<1>3. Compared
  BY DEF Accurate
<1>4. Compared'
  BY <1>1, <1>2, <1>3 DEF Compared
<1>5. ASSUME NEW i \in Item \ excused' PROVE Matches(i)'
  <2>1. Matches(i)
    BY <1>1 DEF Accurate
  <2>2. CASE i # j
    <3>1. mem'[i] = mem[i]
      BY <1>1, <2>2 DEF SessionTypeOK
    <3> QED
      BY <1>1, <1>2, <2>1, <3>1 DEF Matches
  <2>3. CASE i = j
    <3>1. i \notin Group \/ stage \notin Writing \/ (stage = "inserting" /\ i \in inserts)
      BY <1>1, <2>3
    <3>2. inserts \subseteq Group /\ (stage \notin Writing => inserts = {})
      BY <1>3 DEF Compared
    <3> QED
      BY <1>1, <1>2, <2>1, <3>1, <3>2 DEF Matches, Writing
  <2> QED
    BY <2>2, <2>3
<1> QED
  BY <1>4, <1>5 DEF Accurate

\* What a rollback changes is excused.
LEMMA RollbackAccurate ==
  ASSUME Accurate, Rollback
  PROVE  Accurate'
<1>1. /\ stage = "idle" /\ rows' = before
      /\ excused' = excused \cup {i \in Item : before[i] # rows[i]}
      /\ UNCHANGED <<snapshot, stage, inserts, changes>>
  BY DEF Rollback, flushVars, commitVars
<1>2. stage \notin Writing
  BY <1>1 DEF Writing
<1>3. inserts = {} /\ DOMAIN changes = {} /\ \A i \in Item \ excused : snapshot[i] = rows[i]
  BY <1>2, AccurateClosed
<1>4. \A i \in Item \ excused' : snapshot'[i] = rows'[i]
  BY <1>1, <1>3
<1> QED
  BY <1>1, <1>2, <1>3, <1>4, AccurateClose

\* Steps that touch neither rows nor snapshots.
LEMMA OthersAccurate ==
  ASSUME Accurate, UseTransaction \/ Commit \/ Reset \/ UNCHANGED sessionVars
  PROVE  Accurate'
<1>1. UNCHANGED <<mem, snapshot, rows, stage, todo, inserts, changes>> /\ excused \subseteq excused'
  BY DEF UseTransaction, Commit, Reset, sessionVars, databaseVars, flushVars, commitVars
<1> QED
  BY <1>1, AccurateSame

-----------------------------------------------------------------------------
(* What was asked for last, step by step                                   *)

\* Nothing is due to an entity for which nothing was asked.
LEMMA NothingWanted ==
  ASSUME NEW j, wanted'[j] = "nothing"
  PROVE  Words(j)'
BY DEF Words

\* Steps that leave the rounds and the row of an entity alone.
LEMMA WordsSame ==
  ASSUME NEW j, Words(j), UNCHANGED <<rounds, stage, at, lost, adding, todo>>,
         wanted'[j] = wanted[j], rows'[j] = rows[j]
  PROVE  Words(j)'
<1>1. Mentioned(j)' <=> Mentioned(j)
  BY DEF Mentioned, Pending
<1>2. (WillBeStored(j)' <=> WillBeStored(j)) /\ (WillBeGone(j)' <=> WillBeGone(j))
  BY DEF WillBeStored, WillBeGone, Due
<1> QED
  BY <1>1, <1>2 DEF Words

\* The round in which something was queued is the round to come, unless it is
\* too late; there was none before only if this one was empty.
LEMMA QueuedPending ==
  ASSUME SessionTypeOK, Ordered, NEW r, Tidy(r), r.state = Last(Current).state,
         rounds' = [Current EXCEPT ![Len(Current)] = r], UNCHANGED <<at, lost>>
  PROVE  /\ Last(rounds') = r
         /\ Pending' <=> ~TooLate
         /\ Pending => ~TooLate /\ Last(rounds) = Last(Current)
         /\ ~Pending /\ ~TooLate => ToSet(Last(Current).add) = {} /\ Last(Current).remove = {}
<1> DEFINE n == Len(Current)
           old == Last(Current)
<1>1. /\ n \in Nat /\ n >= 1
      /\ rounds' \in Seq(Round) /\ Len(rounds') = n /\ rounds'[n] = r /\ r.state # "inCommit"
  BY QueuedIs DEF Queued
<1>2. Last(rounds') = r /\ rounds' # <<>>
  BY <1>1 DEF Last
<1>3. r.state \in {"open", "inCommit", "committed"}
  BY DEF Tidy, Round
<1>4. Pending' <=> r.state = "open" /\ (lost \/ at <= n)
  BY <1>1, <1>2 DEF Pending
<1>5. TooLate <=> r.state = "committed" \/ (stage = "loop" /\ at > n /\ ~lost)
  BY DEF TooLate
<1>6. at \in Nat /\ at >= 1
  BY RoundsAre
<1>7. stage # "loop" => lost \/ at <= n
  <2>1. stage = "idle" => at <= n
    BY <1>1 DEF Ordered
  <2>2. stage \in Committing /\ ~lost => at \in DOMAIN rounds
    BY DEF Ordered
  <2>3. at \in DOMAIN rounds => at <= n
    BY CurrentIs
  <2> QED
    BY <2>1, <2>2, <2>3, StageIs
<1>8. Pending' <=> ~TooLate
  <2>1. r.state = "open" <=> r.state # "committed"
    BY <1>1, <1>3
  <2>2. (lost \/ at <= n) <=> ~(stage = "loop" /\ at > n /\ ~lost)
    BY <1>1, <1>6, <1>7
  <2> QED
    BY <1>4, <1>5, <2>1, <2>2
<1>9. n \in DOMAIN rounds => n = Len(rounds) /\ rounds # <<>> /\ Current = rounds
  BY CurrentIs
<1>10. n \notin DOMAIN rounds => old = NewRound /\ (rounds = <<>> \/ Last(rounds).state = "inCommit")
  BY CurrentIs
<1>11. Pending => ~TooLate /\ Last(rounds) = old
  <2>1. Pending => n \in DOMAIN rounds
    BY <1>10 DEF Pending
  <2>2. n \in DOMAIN rounds => (Pending <=> r.state = "open" /\ (lost \/ at <= n))
    BY <1>9 DEF Pending
  <2> QED
    BY <1>4, <1>8, <1>9, <2>1, <2>2
<1>12. ~Pending /\ ~TooLate => ToSet(old.add) = {} /\ old.remove = {}
  <2>1. n \in DOMAIN rounds => (Pending <=> r.state = "open" /\ (lost \/ at <= n))
    BY <1>9 DEF Pending
  <2>2. ~Pending /\ ~TooLate => n \notin DOMAIN rounds
    BY <1>4, <1>8, <2>1
  <2> QED
    BY <1>10, <2>2, NewRoundTidy
<1> QED
  BY <1>2, <1>8, <1>11, <1>12

\* What was not queued or dequeued stays as it was.
LEMMA NotQueued ==
  ASSUME SessionTypeOK, Ordered, NEW r, Tidy(r), r.state = Last(Current).state,
         rounds' = [Current EXCEPT ![Len(Current)] = r], UNCHANGED <<at, lost, adding, todo, rows>>,
         stage' = stage \/ (stage = "idle" /\ stage' = "loop"),
         NEW j, Words(j), wanted'[j] = wanted[j],
         j \in ToSet(r.add) <=> j \in ToSet(Last(Current).add), j \in r.remove <=> j \in Last(Current).remove
  PROVE  Words(j)'
<1> DEFINE old == Last(Current)
<1>1. /\ Last(rounds') = r
      /\ Pending' <=> ~TooLate
      /\ Pending => ~TooLate /\ Last(rounds) = old
      /\ ~Pending /\ ~TooLate => ToSet(old.add) = {} /\ old.remove = {}
  BY QueuedPending
<1>2. (j \in ToSet(r.add) <=> j \in ToSet(old.add)) /\ (j \in r.remove <=> j \in old.remove)
  OBVIOUS
<1> HIDE DEF old
<1>3. CASE Mentioned(j)
  BY <1>1, <1>2, <1>3 DEF Words, Mentioned
<1>4. CASE ~Mentioned(j)
  <2>1. ~Mentioned(j)'
    BY <1>1, <1>2, <1>4 DEF Mentioned
  <2>2. (WillBeStored(j)' <=> WillBeStored(j)) /\ (WillBeGone(j)' <=> WillBeGone(j))
    <3>1. CASE stage' = stage
      BY <3>1 DEF WillBeStored, WillBeGone, Due
    <3>2. CASE stage = "idle" /\ stage' = "loop"
      BY <3>2 DEF WillBeStored, WillBeGone, Between, Grouping
    <3> QED
      BY <3>1, <3>2
  <2> QED
    BY <1>4, <2>1, <2>2 DEF Words
<1> QED
  BY <1>3, <1>4

\* What was queued or dequeued in time has its last word in this round.
LEMMA HasWord ==
  ASSUME NEW r, Last(rounds') = r, Pending', NEW j,
         \/ j \in ToSet(r.add) /\ wanted'[j] = "stored"
         \/ j \in r.remove /\ wanted'[j] = "gone"
  PROVE  Words(j)'
BY DEF Words, Mentioned

\* add() and flush(): everything that joins the round has its word there.
LEMMA GrownWords ==
  ASSUME SessionTypeOK, Ordered, \A j \in Item \ excused : Words(j), NEW new, Tidy(new), Grown(Last(Current), new),
         rounds' = [Current EXCEPT ![Len(Current)] = new],
         wanted' = [j \in Item |-> IF j \in ToSet(new.add) \ ToSet(Last(Current).add) THEN "stored" ELSE wanted[j]],
         excused' = IF TooLate THEN excused \cup (ToSet(new.add) \ ToSet(Last(Current).add)) ELSE excused,
         UNCHANGED <<databaseVars, at, lost, commitVars>>, stage' = stage \/ (stage = "idle" /\ stage' = "loop")
  PROVE  \A j \in Item \ excused' : Words(j)'
<1> DEFINE old == Last(Current)
           added == ToSet(new.add) \ ToSet(old.add)
<1>1. new.state = old.state
  BY DEF Grown
<1>2. UNCHANGED <<at, lost, adding, todo, rows>>
  BY DEF databaseVars, commitVars
<1>3. Last(rounds') = new /\ (Pending' <=> ~TooLate)
  BY <1>1, <1>2, QueuedPending
<1> TAKE j \in Item \ excused'
<1>4. CASE j \in added
  <2>1. ~TooLate /\ wanted'[j] = "stored" /\ j \in ToSet(new.add)
    BY <1>4
  <2> QED
    BY <1>3, <2>1, HasWord
<1>5. CASE j \notin added
  <2>1. wanted'[j] = wanted[j] /\ j \notin excused /\ Words(j)
    BY <1>5
  <2>2. (j \in ToSet(new.add) <=> j \in ToSet(old.add)) /\ (j \in new.remove <=> j \in old.remove)
    BY <1>5 DEF Grown
  <2> QED
    BY <1>1, <1>2, <2>1, <2>2, NotQueued
<1> QED
  BY <1>4, <1>5

\* add(): the entity and what it refers to have their word in the last round.
LEMMA AddItemWords ==
  ASSUME SessionTypeOK, Ordered, NEW i \in Item, AddItem(i), \A j \in Item \ excused : Words(j)
  PROVE  \A j \in Item \ excused' : Words(j)'
<1> DEFINE new == Enqueue[i][Last(Current)]
<1>1. /\ Tidy(new) /\ Grown(Last(Current), new)
      /\ rounds' = [Current EXCEPT ![Len(Current)] = new]
      /\ wanted' = [j \in Item |-> IF j \in ToSet(new.add) \ ToSet(Last(Current).add) THEN "stored" ELSE wanted[j]]
      /\ excused' = IF TooLate THEN excused \cup (ToSet(new.add) \ ToSet(Last(Current).add)) ELSE excused
      /\ UNCHANGED <<databaseVars, stage, at, lost, commitVars>>
  BY AddItemIs
<1> HIDE DEF new
<1> QED
  BY <1>1, GrownWords

\* flush(): so has everything the session knows.
LEMMA FlushStartWords ==
  ASSUME SessionTypeOK, Ordered, FlushStart, \A j \in Item \ excused : Words(j)
  PROVE  \A j \in Item \ excused' : Words(j)'
BY FlushStartIs, GrownWords

\* remove(): so has what is to go.
LEMMA RemoveItemWords ==
  ASSUME SessionTypeOK, Ordered, NEW i \in Item, RemoveItem(i), \A j \in Item \ excused : Words(j)
  PROVE  \A j \in Item \ excused' : Words(j)'
<1> DEFINE old == Last(Current)
           new == Dequeue(old, i)
<1>1. /\ Tidy(new) /\ new.state = old.state
      /\ new.remove = old.remove \cup {i} /\ ToSet(new.add) = ToSet(old.add) \ {i}
      /\ rounds' = [Current EXCEPT ![Len(Current)] = new]
      /\ wanted' = [wanted EXCEPT ![i] = "gone"]
      /\ excused' = IF TooLate THEN excused \cup {i} ELSE excused
      /\ UNCHANGED <<databaseVars, stage, at, lost, commitVars>>
  BY RemoveItemIs
<1> HIDE DEF new
<1>2. UNCHANGED <<stage, at, lost, adding, todo, rows>>
  BY <1>1 DEF databaseVars, commitVars
<1>3. Last(rounds') = new /\ (Pending' <=> ~TooLate)
  BY <1>1, <1>2, QueuedPending
<1>4. wanted \in [Item -> {"nothing", "stored", "gone"}]
  BY DEF SessionTypeOK
<1> TAKE j \in Item \ excused'
<1>5. CASE j = i
  <2>1. ~TooLate /\ wanted'[j] = "gone" /\ j \in new.remove
    BY <1>1, <1>4, <1>5
  <2> QED
    BY <1>3, <2>1, HasWord
<1>6. CASE j # i
  <2>1. wanted'[j] = wanted[j] /\ j \notin excused /\ Words(j)
    BY <1>1, <1>4, <1>6
  <2>2. (j \in ToSet(new.add) <=> j \in ToSet(old.add)) /\ (j \in new.remove <=> j \in old.remove)
    BY <1>1, <1>6
  <2> QED
    BY <1>1, <1>2, <2>1, <2>2, NotQueued
<1> QED
  BY <1>5, <1>6

\* A step within the current round: what is to come stays as it is, and what
\* the round leaves of j is what it would have left.
LEMMA RoundGoesOn ==
  ASSUME NEW j, Words(j), UNCHANGED <<rounds, at, lost, wanted>>,
         WillBeStored(j) => WillBeStored(j)', WillBeGone(j) => WillBeGone(j)'
  PROVE  Words(j)'
<1>1. Mentioned(j)' <=> Mentioned(j)
  BY DEF Mentioned, Pending
<1> QED
  BY <1>1 DEF Words

\* The word of a round becomes what is due in it.
LEMMA RoundBeginsWords ==
  ASSUME SessionTypeOK, Ordered, RoundBegins, NEW j \in Item, Words(j)
  PROVE  Words(j)'
<1> DEFINE r == rounds[at]
<1>1. /\ stage = "loop" /\ at \in DOMAIN rounds /\ at \in Nat /\ Len(rounds) \in Nat /\ at <= Len(rounds)
      /\ rounds # <<>> /\ UNCHANGED <<rows, wanted, lost>>
  BY RoundsAre DEF RoundBegins, MoreRounds, databaseVars
<1>2. Last(rounds) = rounds[Len(rounds)]
  BY DEF Last
<1>3. CASE r.state = "committed" \/ (r.remove = {} /\ r.add = <<>>)
  <2>1. at' = at + 1 /\ UNCHANGED <<rounds, stage, adding, todo>>
    BY <1>3 DEF RoundBegins
  <2>2. Mentioned(j) => at # Len(rounds)
    <3>1. ToSet(<<>>) = {}
      BY DEF ToSet
    <3> QED
      BY <1>2, <1>3, <3>1 DEF Mentioned, Pending
  <2>3. Mentioned(j)' <=> Mentioned(j)
    BY <1>1, <2>1, <2>2 DEF Mentioned, Pending
  <2>4. (WillBeStored(j)' <=> WillBeStored(j)) /\ (WillBeGone(j)' <=> WillBeGone(j))
    BY <1>1, <2>1 DEF WillBeStored, WillBeGone, Due
  <2> QED
    BY <1>1, <2>1, <2>3, <2>4 DEF Words
<1>4. CASE ~(r.state = "committed" \/ (r.remove = {} /\ r.add = <<>>))
  <2>1. /\ at = Len(rounds) /\ r.state = "open"
        /\ Len(rounds') = Len(rounds) /\ rounds'[at].state = "inCommit"
        /\ adding' = r.add /\ stage' = "deleting"
        /\ \A k \in DOMAIN todo' : todo'[k] \subseteq r.remove
        /\ \A i \in r.remove : \E k \in DOMAIN todo' : i \in todo'[k]
    BY <1>1, <1>4, RoundBeginsIs
  <2>2. ToSet(r.add) \cap r.remove = {}
    BY <1>1 DEF Ordered, Tidy
  <2>3. Mentioned(j) <=> j \in ToSet(r.add) \cup r.remove
    BY <1>1, <1>2, <2>1 DEF Mentioned, Pending
  <2>4. ~Mentioned(j)'
    <3>1. Last(rounds') = rounds'[Len(rounds')]
      BY DEF Last
    <3> QED
      BY <2>1, <3>1 DEF Mentioned, Pending
  <2>5. Due(j)' <=> j \in r.remove
    BY <2>1 DEF Due
  <2>6. CASE Mentioned(j)
    <3>1. /\ wanted[j] = "stored" => j \in ToSet(r.add)
          /\ wanted[j] = "gone" => j \in r.remove
      BY <1>2, <2>1, <2>6 DEF Words
    <3> QED
      BY <1>1, <2>1, <2>2, <2>4, <2>5, <3>1 DEF Words, WillBeStored, WillBeGone, Between, Grouping
  <2>7. CASE ~Mentioned(j)
    <3>1. /\ wanted[j] = "stored" => rows[j] # Absent
          /\ wanted[j] = "gone" => rows[j] = Absent
      BY <1>1, <2>7 DEF Words, WillBeStored, WillBeGone, Between
    <3> QED
      BY <1>1, <2>1, <2>3, <2>4, <2>5, <2>7, <3>1 DEF Words, WillBeStored, WillBeGone, Between, Grouping
  <2> QED
    BY <2>6, <2>7
<1> QED
  BY <1>3, <1>4

\* An error drops all that was asked for.
LEMMA AbortWords ==
  ASSUME NEW j \in Item, Abort
  PROVE  Words(j)'
<1>1. wanted'[j] = "nothing"
  BY DEF Abort
<1> QED
  BY <1>1, NothingWanted

\* A class that is deleted is no longer due, but gone.
LEMMA DeleteWords ==
  ASSUME SessionTypeOK, Ordered, Delete, \A j \in Item \ excused : Words(j)
  PROVE  \A j \in Item \ excused' : Words(j)'
<1>1. stage = "deleting" /\ todo # <<>> /\ todo \in Seq(SUBSET Item)
  BY DEF Delete, Ordered
<1>2. /\ DOMAIN todo = 1 .. Len(todo) /\ Len(todo) \in Nat \ {0}
      /\ DOMAIN Tail(todo) = 1 .. Len(todo) - 1 /\ Head(todo) = todo[1]
      /\ \A k \in 1 .. Len(todo) - 1 : Tail(todo)[k] = todo[k + 1]
  BY <1>1, TailAt
<1>3. ASSUME todo' = <<>>, excused' = excused \cup UNION ToSet(todo),
             UNCHANGED <<rows, rounds, stage, at, lost, adding, wanted>>, NEW j \in Item \ excused'
      PROVE  Words(j)'
  <2>1. Words(j)
    BY <1>3
  <2>2. ~Due(j)
    <3>1. \A k \in DOMAIN todo : todo[k] \in ToSet(todo)
      BY DEF ToSet
    <3> QED
      BY <1>1, <1>3, <3>1 DEF Due
  <2>3. ~Due(j)'
    BY <1>1, <1>3 DEF Due
  <2>4. WillBeStored(j) => WillBeStored(j)'
    BY <1>1, <1>3, <2>3 DEF WillBeStored, Grouping, Between
  <2>5. WillBeGone(j) => WillBeGone(j)'
    BY <1>1, <1>3, <2>2 DEF WillBeGone, Grouping, Between
  <2> QED
    BY <1>3, <2>1, <2>4, <2>5, RoundGoesOn
<1>4. ASSUME rows' = Put(rows, Head(todo), Nowhere), todo' = Tail(todo), excused \subseteq excused',
             UNCHANGED <<rounds, stage, at, lost, adding, wanted>>, NEW j \in Item \ excused'
      PROVE  Words(j)'
  <2>1. Words(j)
    BY <1>4
  <2>2. /\ j \notin todo[1] => rows'[j] = rows[j]
        /\ j \in todo[1] => rows'[j] = Absent
    BY <1>2, <1>4, PutIs, NowhereIs
  <2>3. Due(j) => Due(j)' \/ j \in todo[1]
    <3>1. ASSUME NEW k \in DOMAIN todo, j \in todo[k] PROVE Due(j)' \/ j \in todo[1]
      <4>1. CASE k = 1
        BY <3>1, <4>1
      <4>2. CASE k # 1
        <5>1. k - 1 \in 1 .. Len(todo) - 1 /\ (k - 1) + 1 = k
          BY <1>2, <4>2
        <5>2. k - 1 \in DOMAIN todo' /\ todo'[k - 1] = todo[k]
          BY <1>2, <1>4, <5>1
        <5> QED
          BY <1>1, <1>4, <3>1, <5>2 DEF Due
      <4> QED
        BY <4>1, <4>2
    <3> QED
      BY <1>1, <3>1 DEF Due
  <2>4. ~Due(j) => ~Due(j)' /\ j \notin todo[1]
    <3>1. \A k \in DOMAIN todo' : k + 1 \in DOMAIN todo /\ todo'[k] = todo[k + 1]
      BY <1>2, <1>4
    <3>2. 1 \in DOMAIN todo
      BY <1>2
    <3> QED
      BY <1>1, <1>4, <3>1, <3>2 DEF Due
  <2>5. WillBeStored(j) => WillBeStored(j)'
    BY <1>1, <1>4, <2>2, <2>4 DEF WillBeStored, Grouping, Between
  <2>6. WillBeGone(j) => WillBeGone(j)'
    BY <1>1, <1>4, <2>2, <2>3 DEF WillBeGone, Grouping, Between
  <2> QED
    BY <1>4, <2>1, <2>5, <2>6, RoundGoesOn
<1>5. ASSUME Abort, NEW j \in Item \ excused' PROVE Words(j)'
  BY <1>5, AbortWords
<1> QED
  BY <1>3, <1>4, <1>5, DeleteWays

\* Everything that was added is due in a group, and nothing else.
LEMMA SortWords ==
  ASSUME SessionTypeOK, Ordered, Sort, NEW j \in Item, Words(j)
  PROVE  Words(j)'
<1>1. stage = "deleting" /\ todo = <<>> /\ rows' = rows
  BY SortIs
<1>2. ASSUME stage' = "grouping", UNCHANGED <<rounds, at, lost, wanted>>,
             j \in ToSet(adding) <=> \E k \in DOMAIN todo' : j \in ToSet(todo'[k].items)
      PROVE  Words(j)'
  <2>1. j \in ToSet(adding) <=> Due(j)'
    BY <1>2 DEF Due
  <2>2. ~Due(j)
    BY <1>1 DEF Due
  <2>3. WillBeStored(j) => WillBeStored(j)'
    BY <1>1, <1>2, <2>1 DEF WillBeStored, Grouping, Between
  <2>4. WillBeGone(j) => WillBeGone(j)'
    BY <1>1, <1>2, <2>1, <2>2 DEF WillBeGone, Grouping, Between
  <2> QED
    BY <1>2, <2>3, <2>4, RoundGoesOn
<1>3. ASSUME Abort PROVE Words(j)'
  BY <1>3, AbortWords
<1> QED
  BY <1>2, <1>3, SortIs

\* Within a group nothing that is stored vanishes, and only what is in the
\* group is written.
LEMMA GroupWords ==
  ASSUME NEW j \in Item, Words(j),
         stage \in Grouping, stage' \in Grouping, UNCHANGED <<rounds, at, lost, todo, wanted>>,
         rows[j] # Absent => rows'[j] # Absent,
         rows'[j] # rows[j] => Due(j)
  PROVE  Words(j)'
<1>1. /\ stage \notin Between /\ stage # "deleting" /\ stage' \notin Between /\ stage' # "deleting"
  BY DEF Grouping, Between
<1>2. Due(j)' <=> Due(j)
  BY <1>1 DEF Due
<1>3. WillBeStored(j) => WillBeStored(j)'
  BY <1>1, <1>2 DEF WillBeStored
<1>4. WillBeGone(j) => WillBeGone(j)'
  BY <1>1, <1>2 DEF WillBeGone
<1> QED
  BY <1>3, <1>4, RoundGoesOn

\* Comparing changes nothing of it.
LEMMA CompareWords ==
  ASSUME Compare, NEW j \in Item, Words(j)
  PROVE  Words(j)'
<1>1. stage = "grouping" /\ rows' = rows
  BY DEF Compare, databaseVars
<1>2. ASSUME stage' = "inserting", UNCHANGED <<rounds, at, lost, todo, wanted>> PROVE Words(j)'
  BY <1>1, <1>2, GroupWords DEF Grouping
<1>3. ASSUME Abort PROVE Words(j)'
  BY <1>3, AbortWords
<1> QED
  BY <1>2, <1>3 DEF Compare

\* Inserts only make rows, and of what is in the group.
LEMMA InsertWords ==
  ASSUME SessionTypeOK, Ordered, Compared, Insert, NEW j \in Item, Words(j)
  PROVE  Words(j)'
<1>1. stage = "inserting" /\ stage \in Grouping /\ todo # <<>>
  BY InsertWays DEF Ordered, Writing, Grouping
<1>2. j \in inserts => Due(j)
  BY <1>1, GroupIs DEF Compared, Writing
<1>3. mem[j] # Absent
  BY AbsentAssumption DEF SessionTypeOK, Value
<1>4. ASSUME Written, rows' = Put(rows, inserts, mem) \/ rows' = rows PROVE Words(j)'
  <2>1. stage' \in Grouping /\ UNCHANGED <<rounds, at, lost, todo, wanted>>
    BY <1>1, <1>4 DEF Written, commitVars, Grouping
  <2>2. (rows[j] # Absent => rows'[j] # Absent) /\ (rows'[j] # rows[j] => Due(j))
    BY <1>2, <1>3, <1>4, PutIs
  <2> QED
    BY <1>1, <2>1, <2>2, GroupWords
<1>5. ASSUME Abort PROVE Words(j)'
  BY <1>5, AbortWords
<1> QED
  BY <1>4, <1>5, InsertWays

\* Updates change rows that exist.
LEMMA UpdateWords ==
  ASSUME SessionTypeOK, Ordered, Compared, Update, NEW j \in Item, Words(j)
  PROVE  Words(j)'
<1>1. stage = "updating" /\ stage \in Grouping /\ todo # <<>>
  BY UpdateWays DEF Ordered, Writing, Grouping
<1>2. j \in Existing(DOMAIN changes) => Due(j) /\ changes[j] # Absent
  <2>1. j \in DOMAIN changes => Due(j)
    BY <1>1, GroupIs DEF Compared, Writing
  <2>2. j \in DOMAIN changes => changes[j] # Absent
    BY AbsentAssumption DEF SessionTypeOK, Value
  <2> QED
    BY <2>1, <2>2 DEF Existing
<1>3. ASSUME Written, rows' = Put(rows, Existing(DOMAIN changes), changes) \/ rows' = rows PROVE Words(j)'
  <2>1. stage' \in Grouping /\ UNCHANGED <<rounds, at, lost, todo, wanted>>
    BY <1>1, <1>3 DEF Written, commitVars, Grouping
  <2>2. (rows[j] # Absent => rows'[j] # Absent) /\ (rows'[j] # rows[j] => Due(j))
    BY <1>2, <1>3, PutIs
  <2> QED
    BY <1>1, <2>1, <2>2, GroupWords
<1>4. ASSUME Abort PROVE Words(j)'
  BY <1>4, AbortWords
<1> QED
  BY <1>3, <1>4, UpdateWays

\* A group that is stored is no longer due, but there.
LEMMA StoreWords ==
  ASSUME SessionTypeOK, Ordered, Accurate, Store, NEW j \in Item \ excused, Words(j)
  PROVE  Words(j)'
<1>1. /\ stage = "storing" /\ todo # <<>> /\ todo \in Seq(GroupOf)
      /\ todo' = Tail(todo) /\ stage' = "grouping" /\ UNCHANGED <<rows, rounds, at, lost, wanted>>
  BY DEF Store, Ordered, Writing, Grouping
<1>2. /\ DOMAIN todo = 1 .. Len(todo) /\ Len(todo) \in Nat \ {0}
      /\ DOMAIN Tail(todo) = 1 .. Len(todo) - 1
      /\ \A k \in 1 .. Len(todo) - 1 : Tail(todo)[k] = todo[k + 1]
  BY <1>1, TailAt
<1>3. Group = ToSet(todo[1].items)
  BY <1>1, GroupIs DEF Grouping
<1>4. j \in Group => rows[j] # Absent
  <2>1. j \in Group => rows[j] = mem[j]
    BY <1>1 DEF Accurate, Matches
  <2>2. mem[j] # Absent
    BY AbsentAssumption DEF SessionTypeOK, Value
  <2> QED
    BY <2>1, <2>2
<1>5. Due(j) => Due(j)' \/ rows[j] # Absent
  <2>1. ASSUME NEW k \in DOMAIN todo, j \in ToSet(todo[k].items) PROVE Due(j)' \/ rows[j] # Absent
    <3>1. CASE k = 1
      BY <1>3, <1>4, <2>1, <3>1
    <3>2. CASE k # 1
      <4>1. k - 1 \in 1 .. Len(todo) - 1 /\ (k - 1) + 1 = k
        BY <1>2, <3>2
      <4>2. k - 1 \in DOMAIN todo' /\ todo'[k - 1] = todo[k]
        BY <1>1, <1>2, <4>1
      <4> QED
        BY <1>1, <2>1, <4>2 DEF Due
    <3> QED
      BY <3>1, <3>2
  <2> QED
    BY <1>1, <2>1 DEF Due
<1>6. ~Due(j) => ~Due(j)'
  <2>1. \A k \in DOMAIN todo' : k + 1 \in DOMAIN todo /\ todo'[k] = todo[k + 1]
    BY <1>1, <1>2
  <2> QED
    BY <1>1, <2>1 DEF Due
<1>7. WillBeStored(j) => WillBeStored(j)'
  BY <1>1, <1>5 DEF WillBeStored, Grouping, Between
<1>8. WillBeGone(j) => WillBeGone(j)'
  BY <1>1, <1>6 DEF WillBeGone, Grouping, Between
<1> QED
  BY <1>1, <1>7, <1>8, RoundGoesOn

\* With no group left, what was due has been done.
LEMMA RoundEndsWords ==
  ASSUME SessionTypeOK, Ordered, RoundEnds, NEW j \in Item, Words(j)
  PROVE  Words(j)'
<1> DEFINE l == Len(rounds)
<1>1. /\ stage = "grouping" /\ todo = <<>> /\ at' = at + 1 /\ stage' = "loop" /\ UNCHANGED <<lost, rows, wanted>>
      /\ rounds' \in Seq(Round) /\ Len(rounds') = l /\ DOMAIN rounds' = DOMAIN rounds
      /\ \A k \in DOMAIN rounds : /\ rounds'[k].add = rounds[k].add /\ rounds'[k].remove = rounds[k].remove
                                  /\ rounds'[k].state = "open" <=> rounds[k].state = "open"
  BY RoundEndsIs
<1>2. /\ l \in Nat /\ DOMAIN rounds = 1 .. l /\ (rounds = <<>> <=> l = 0) /\ at \in Nat
      /\ rounds \in Seq(Round)
  BY RoundsAre
<1>3. Last(rounds) = rounds[l] /\ Last(rounds') = rounds'[l]
  BY <1>1 DEF Last
<1>4. ~lost => at \in DOMAIN rounds /\ rounds[at].state = "inCommit"
  BY <1>1 DEF Ordered, Committing
<1>5. rounds' = <<>> <=> rounds = <<>>
  BY <1>1, <1>2, EmptySeq
<1>6. rounds # <<>> => l \in DOMAIN rounds
  BY <1>2
<1>7. Pending' <=> Pending
  <2>1. rounds # <<>> /\ rounds[l].state = "open" /\ ~lost => (at + 1 <= l <=> at <= l)
    BY <1>2, <1>4
  <2>2. rounds # <<>> => (rounds'[l].state = "open" <=> rounds[l].state = "open")
    BY <1>1, <1>6
  <2> HIDE DEF l
  <2> QED
    BY <1>1, <1>3, <1>5, <2>1, <2>2 DEF Pending, l
<1>8. rounds # <<>> => Last(rounds').add = Last(rounds).add /\ Last(rounds').remove = Last(rounds).remove
  BY <1>1, <1>3, <1>6
<1>9. Mentioned(j)' <=> Mentioned(j)
  BY <1>7, <1>8 DEF Mentioned, Pending
<1>10. ~Due(j)
  BY <1>1 DEF Due
<1>11. WillBeStored(j) => WillBeStored(j)'
  BY <1>1, <1>10 DEF WillBeStored, Grouping, Between
<1>12. WillBeGone(j) => WillBeGone(j)'
  BY <1>1, <1>10 DEF WillBeGone, Grouping, Between
<1>13. CASE Mentioned(j)
  <2>1. Last(rounds').add = Last(rounds).add /\ Last(rounds').remove = Last(rounds).remove
    BY <1>8, <1>13 DEF Mentioned, Pending
  <2> QED
    BY <1>1, <1>9, <1>13, <2>1 DEF Words
<1>14. CASE ~Mentioned(j)
  BY <1>1, <1>9, <1>11, <1>12, <1>14 DEF Words
<1> QED
  BY <1>13, <1>14

\* With no round left, what was asked for has been done; rounds that stay
\* because there is no persistence are still to come.
LEMMA FlushEndWords ==
  ASSUME SessionTypeOK, Ordered, FlushEnd, NEW j \in Item, Words(j)
  PROVE  Words(j)'
<1>1. /\ stage = "loop" /\ ~(at <= Len(rounds)) /\ stage' = "idle" /\ at' = 1 /\ lost' = FALSE
      /\ rounds' = IF lost THEN rounds ELSE <<>>
      /\ UNCHANGED <<rows, wanted>>
  BY DEF FlushEnd, MoreRounds, databaseVars
<1>2. (WillBeStored(j)' <=> WillBeStored(j)) /\ (WillBeGone(j)' <=> WillBeGone(j))
  BY <1>1 DEF WillBeStored, WillBeGone, Between, Grouping
<1>3. Mentioned(j)' <=> Mentioned(j)
  <2>1. rounds # <<>> => 1 <= Len(rounds)
    BY RoundsAre
  <2> QED
    BY <1>1, <2>1 DEF Mentioned, Pending
<1>4. Mentioned(j) => rounds' = rounds
  BY <1>1 DEF Mentioned, Pending
<1> QED
  BY <1>1, <1>2, <1>3, <1>4 DEF Words

\* Transactions, reset(), changes of entities, and steps elsewhere.
LEMMA OthersWords ==
  ASSUME \A j \in Item \ excused : Words(j),
         \/ UseTransaction \/ Commit \/ Rollback \/ Reset \/ UNCHANGED sessionVars
         \/ \E i \in Item : Modify(i)
  PROVE  \A j \in Item \ excused' : Words(j)'
<1>1. ASSUME UNCHANGED <<rounds, stage, at, lost, adding, todo, wanted>>, excused \subseteq excused',
             \A j \in Item \ excused' : rows'[j] = rows[j]
      PROVE  \A j \in Item \ excused' : Words(j)'
  BY <1>1, WordsSame
<1>2. CASE UseTransaction \/ Commit \/ UNCHANGED sessionVars
  <2>1. UNCHANGED <<rounds, stage, at, lost, adding, todo, wanted, rows, excused>>
    BY <1>2 DEF UseTransaction, Commit, sessionVars, databaseVars, flushVars, commitVars
  <2> QED
    BY <1>1, <2>1
<1>3. CASE Rollback
  <2>1. /\ UNCHANGED <<rounds, stage, at, lost, adding, todo, wanted>> /\ rows' = before
        /\ excused' = excused \cup {i \in Item : before[i] # rows[i]}
    BY <1>3 DEF Rollback, flushVars, commitVars
  <2>2. \A j \in Item \ excused' : rows'[j] = rows[j]
    BY <2>1
  <2> QED
    BY <1>1, <2>1, <2>2
<1>4. CASE Reset
  <2>1. \A j \in Item : wanted'[j] = "nothing"
    BY <1>4 DEF Reset
  <2> QED
    BY <2>1, NothingWanted
<1>5. ASSUME NEW i \in Item, Modify(i) PROVE \A j \in Item \ excused' : Words(j)'
  <2>1. UNCHANGED <<rounds, stage, at, lost, adding, todo, wanted, rows>> /\ excused \subseteq excused'
    BY <1>5 DEF Modify, flushVars, commitVars
  <2> QED
    BY <1>1, <2>1
<1> QED
  BY <1>2, <1>3, <1>4, <1>5

-----------------------------------------------------------------------------
(* All of it                                                               *)

\* What SessionInv says, in the parts of the lemmas.
LEMMA SessionInvParts ==
  /\ SessionInv <=> /\ SessionTypeOK /\ Ordered /\ Accurate
                    /\ \A j \in Item \ excused : Words(j)
  /\ SessionInv' <=> /\ SessionTypeOK' /\ Ordered' /\ Accurate'
                     /\ \A j \in Item \ excused' : Words(j)'
BY DEF SessionInv, Accurate

\* A new session.
LEMMA SessionStarts ==
  ASSUME SessionInit
  PROVE  SessionInv
<1>1. /\ mem = [i \in Item |-> 0] /\ snapshot = [i \in Item |-> Absent] /\ rows = [i \in Item |-> Absent]
      /\ before = Absent /\ rounds = <<>> /\ stage = "idle" /\ at = 1 /\ lost = FALSE
      /\ adding = <<>> /\ usable = TRUE /\ inserts = {} /\ changes = << >>
      /\ wanted = [i \in Item |-> "nothing"] /\ excused = {}
  BY DEF SessionInit
<1>2. DOMAIN changes = {} /\ rounds \in Seq(Round) /\ Len(rounds) = 0 /\ DOMAIN rounds = {} /\ adding \in Seq(Item)
  BY <1>1
<1>3. SessionTypeOK
  <2>1. /\ mem \in [Item -> Value] /\ rows \in [Item -> Row] /\ snapshot \in [Item -> Row]
        /\ wanted \in [Item -> {"nothing", "stored", "gone"}]
    BY <1>1, BoundsAssumption DEF Value, Row
  <2>2. 1 \in 1 .. MaxRounds + 1 /\ 0 <= MaxRounds
    BY BoundsAssumption
  <2> QED
    BY <1>1, <1>2, <2>1, <2>2 DEF SessionTypeOK, Between
<1>4. Ordered
  BY <1>1, <1>2 DEF Ordered, Committing, Grouping, Writing
<1>5. Accurate
  BY <1>1, <1>2 DEF Accurate, Compared, Matches, Writing
<1>6. \A j \in Item : Words(j)
  BY <1>1 DEF Words
<1> QED
  BY <1>3, <1>4, <1>5, <1>6, SessionInvParts

\* Each step of flush().
LEMMA FlushKeeps ==
  ASSUME SessionInv, Flush
  PROVE  SessionInv'
<1>1. /\ SessionTypeOK /\ Ordered /\ Accurate /\ \A j \in Item \ excused : Words(j)
  BY SessionInvParts
<1>2. Compared
  BY <1>1 DEF Accurate
<1>3. CASE RoundBegins
  <2>1. excused' = excused
    BY <1>3 DEF RoundBegins
  <2>2. \A j \in Item \ excused' : Words(j)'
    BY <1>1, <1>3, <2>1, RoundBeginsWords
  <2> QED
    BY <1>1, <1>3, <2>2, RoundBeginsOrdered, OutsideAccurate, SessionInvParts
<1>4. CASE Delete
  BY <1>1, <1>4, DeleteOrdered, DeleteAccurate, DeleteWords, SessionInvParts
<1>5. CASE Sort
  <2>1. excused' = excused
    BY <1>1, <1>5, SortIs
  <2>2. \A j \in Item \ excused' : Words(j)'
    BY <1>1, <1>5, <2>1, SortWords
  <2> QED
    BY <1>1, <1>5, <2>2, SortOrdered, SortAccurate, SessionInvParts
<1>6. CASE Compare
  <2>1. excused' = excused
    BY <1>6 DEF Compare
  <2>2. \A j \in Item \ excused' : Words(j)'
    BY <1>1, <1>6, <2>1, CompareWords
  <2> QED
    BY <1>1, <1>6, <2>2, CompareOrdered, CompareAccurate, SessionInvParts
<1>7. CASE Insert
  <2>1. excused \subseteq excused'
    BY <1>1, <1>7, InsertWays
  <2>2. \A j \in Item \ excused' : Words(j)'
    BY <1>1, <1>2, <1>7, <2>1, InsertWords
  <2> QED
    BY <1>1, <1>7, <2>2, InsertOrdered, InsertAccurate, SessionInvParts
<1>8. CASE Update
  <2>1. excused \subseteq excused'
    BY <1>1, <1>8, UpdateWays
  <2>2. \A j \in Item \ excused' : Words(j)'
    BY <1>1, <1>2, <1>8, <2>1, UpdateWords
  <2> QED
    BY <1>1, <1>8, <2>2, UpdateOrdered, UpdateAccurate, SessionInvParts
<1>9. CASE Store
  <2>1. excused' = excused
    BY <1>9 DEF Store
  <2>2. \A j \in Item \ excused' : Words(j)'
    BY <1>1, <1>9, <2>1, StoreWords
  <2> QED
    BY <1>1, <1>9, <2>2, StoreOrdered, StoreAccurate, SessionInvParts
<1>10. CASE RoundEnds
  <2>1. excused' = excused
    BY <1>10 DEF RoundEnds
  <2>2. \A j \in Item \ excused' : Words(j)'
    BY <1>1, <1>10, <2>1, RoundEndsWords
  <2> QED
    BY <1>1, <1>10, <2>2, RoundEndsOrdered, OutsideAccurate, SessionInvParts
<1>11. CASE FlushEnd
  <2>1. excused' = excused
    BY <1>11 DEF FlushEnd
  <2>2. \A j \in Item \ excused' : Words(j)'
    BY <1>1, <1>11, <2>1, FlushEndWords
  <2> QED
    BY <1>1, <1>11, <2>2, FlushEndOrdered, OutsideAccurate, SessionInvParts
<1> QED
  BY <1>3, <1>4, <1>5, <1>6, <1>7, <1>8, <1>9, <1>10, <1>11 DEF Flush

\* Each step.
LEMMA SessionKeeps ==
  ASSUME SessionInv, [SessionNext]_sessionVars
  PROVE  SessionInv'
<1>1. /\ SessionTypeOK /\ Ordered /\ Accurate /\ \A j \in Item \ excused : Words(j)
  BY SessionInvParts
<1>2. CASE FlushStart
  BY <1>1, <1>2, FlushStartOrdered, OutsideAccurate, FlushStartWords, SessionInvParts
<1>3. CASE Flush
  BY <1>3, FlushKeeps
<1>4. ASSUME NEW i \in Item, AddItem(i) PROVE SessionInv'
  BY <1>1, <1>4, AddItemOrdered, QueueAccurate, AddItemWords, SessionInvParts
<1>5. ASSUME NEW i \in Item, RemoveItem(i) PROVE SessionInv'
  BY <1>1, <1>5, RemoveItemOrdered, QueueAccurate, RemoveItemWords, SessionInvParts
<1>6. ASSUME NEW i \in Item, Modify(i) PROVE SessionInv'
  BY <1>1, <1>6, ModifyOrdered, ModifyAccurate, OthersWords, SessionInvParts
<1>7. CASE UseTransaction \/ Commit \/ UNCHANGED sessionVars
  BY <1>1, <1>7, OthersOrdered, OthersAccurate, OthersWords, SessionInvParts
<1>8. CASE Rollback
  BY <1>1, <1>8, OthersOrdered, RollbackAccurate, OthersWords, SessionInvParts
<1>9. CASE Reset
  BY <1>1, <1>9, ResetOrdered, OthersAccurate, OthersWords, SessionInvParts
<1> QED
  BY <1>2, <1>3, <1>4, <1>5, <1>6, <1>7, <1>8, <1>9 DEF SessionNext

\* The books of a session are in order after any calls of add(), remove(),
\* flush(), reset() and its listeners, whatever the database or a listener
\* refuses, and whatever had been written when it failed.
THEOREM SessionInvariant == SessionSpec => []SessionInv
<1>1. SessionInit => SessionInv
  BY SessionStarts
<1>2. SessionInv /\ [SessionNext]_sessionVars => SessionInv'
  BY SessionKeeps
<1> QED
  BY <1>1, <1>2, PTL DEF SessionSpec

\* The snapshots are what is stored, and what is inserted is not there yet: what
\* a session knows of the database is right in every round and every group,
\* except for the entities it is known to lose track of (excused).
THEOREM SessionConsistent == SessionSpec => []Consistent
<1>1. SessionInv => Consistent
  <2> SUFFICES ASSUME SessionInv PROVE Consistent
    OBVIOUS
  <2>1. SessionTypeOK /\ Ordered /\ Compared /\ \A i \in Item \ excused : Matches(i)
    BY DEF SessionInv
  <2>2. ASSUME NEW i \in Item \ excused, i \notin inserts \cup DOMAIN changes PROVE snapshot[i] = rows[i]
    <3>1. Matches(i)
      BY <2>1
    <3>2. CASE i \notin Group \/ stage \notin {"updating", "storing"}
      BY <3>1, <3>2 DEF Matches
    <3>3. CASE i \in Group /\ stage = "updating"
      BY <2>2, <3>1, <3>3 DEF Matches
    <3>4. CASE i \in Group /\ stage = "storing"
      <4>1. rows[i] = mem[i] /\ snapshot[i] = mem[i]
        BY <2>2, <3>1, <3>4 DEF Matches, Writing
      <4> QED
        BY <4>1
    <3> QED
      BY <3>2, <3>3, <3>4
  <2>3. ASSUME stage = "inserting", NEW i \in inserts \ excused PROVE rows[i] = Absent
    <3>1. i \in Item /\ snapshot[i] = Absent
      BY <2>1, <2>3 DEF SessionTypeOK, Compared, Writing
    <3>2. Matches(i)
      BY <2>1, <2>3, <3>1
    <3> QED
      BY <2>3, <3>1, <3>2 DEF Matches
  <2> QED
    BY <2>1, <2>2, <2>3 DEF Consistent, SnapshotIsStored, NoDuplicateInsert
<1> QED
  BY <1>1, SessionInvariant, PTL

\* When a flush() has succeeded, every entity is stored or gone as the last
\* add() or remove() asked for, in whichever round that was queued.
THEOREM SessionNothingForgotten == SessionSpec => []NothingForgotten
<1>1. SessionInv => NothingForgotten
  <2> SUFFICES ASSUME SessionInv, stage = "idle", rounds = <<>>, NEW i \in Item \ excused
               PROVE  /\ wanted[i] = "stored" => rows[i] # Absent
                      /\ wanted[i] = "gone" => rows[i] = Absent
    BY DEF NothingForgotten
  <2>1. ~Mentioned(i)
    BY DEF Mentioned, Pending
  <2>2. Words(i)
    BY DEF SessionInv
  <2> QED
    BY <2>1, <2>2 DEF Words, WillBeStored, WillBeGone, Between
<1> QED
  BY <1>1, SessionInvariant, PTL
=============================================================================
