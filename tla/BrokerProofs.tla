----------------------------- MODULE BrokerProofs -----------------------------
(***************************************************************************)
(* Machine-checked proofs about the broker: ProcessLock and BrokerLock,    *)
(* for any set of lock objects, names, options and connections, and        *)
(* BrokerEntityFields, for any clients and fields.                         *)
(*                                                                         *)
(* Mutual exclusion alone is not inductive: that unlock() may hand a name  *)
(* to the first queued object, or delete the entry, is safe only because   *)
(* the queue holds exactly the objects whose acquire() of that name is     *)
(* still pending, each once, and none of them holds anything.  IInv says   *)
(* that next to the properties themselves.                                 *)
(*                                                                         *)
(* The lock of the broker process is a ProcessLock in every step, so what  *)
(* is proved of it holds in the broker; on top of that come the            *)
(* bookkeeping facts that connect a grant, the .then() behind it,          *)
(* this.locks and the client (BInv).                                       *)
(*                                                                         *)
(* The counts of the announced fields agree because along the queue of a   *)
(* client each field is announced and taken back in turn, from what the    *)
(* broker has counted to what the client has (InTurn).  What a client      *)
(* knows is up to date because the last message to it always carries the   *)
(* fields the broker has, unless a handler still owes it one (Newest).     *)
(***************************************************************************)
EXTENDS BrokerLock, BrokerEntityFields, QueueLemmas, FiniteSetTheorems

\* Who is queued under i has a pending acquire() of i ...
QueueSound == \A i \in Id : \A k \in DOMAIN queue[i] :
                 promise[queue[i][k]] = "pending" /\ id[queue[i][k]] = i

\* ... and who has a pending acquire() is queued under its id, ...
QueueComplete == \A l \in Lock : promise[l] = "pending" =>
                    \E k \in DOMAIN queue[id[l]] : queue[id[l]][k] = l

\* ... once, ...
QueueDistinct == \A i \in Id : Distinct(queue[i])

\* ... under an entry that exists.
QueueHasEntry == \A i \in Id : i \notin LOCKS => queue[i] = <<>>

PendingHoldsNothing == \A l \in Lock : promise[l] = "pending" => ~holding[l]

IInv == /\ TypeOK
        /\ MutualExclusion
        /\ EntryIffHeld
        /\ RejectedHoldsNothing
        /\ QueueSound
        /\ QueueComplete
        /\ QueueDistinct
        /\ QueueHasEntry
        /\ PendingHoldsNothing

-----------------------------------------------------------------------------
\* In the beginning nothing is held or queued.
LEMMA InitInv == Init => IInv
<1> SUFFICES ASSUME Init PROVE IInv
  OBVIOUS
<1>1. TypeOK
  <2>1. (CHOOSE i \in Id : TRUE) \in Id
    BY IdAssumption
  <2>2. <<>> \in Seq(Lock)
    OBVIOUS
  <2> QED
    BY <2>1, <2>2 DEF Init, TypeOK
<1>2. MutualExclusion /\ EntryIffHeld /\ RejectedHoldsNothing /\ PendingHoldsNothing
  BY DEF Init, MutualExclusion, EntryIffHeld, RejectedHoldsNothing, PendingHoldsNothing
<1>3. QueueSound /\ QueueComplete /\ QueueDistinct /\ QueueHasEntry
  BY DEF Init, QueueSound, QueueComplete, QueueDistinct, QueueHasEntry, Distinct
<1> QED
  BY <1>1, <1>2, <1>3 DEF IInv

\* acquire() of a name that is taken: the object is queued last.
LEMMA AcquireQueuedInv ==
    ASSUME IInv, NEW l \in Lock, NEW i \in Id, NEW t \in Ttls, NEW o \in Timeouts,
           AcquireQueued(l, i, t, o)
    PROVE  IInv'
<1> USE DEF AcquireQueued, Fresh
<1> USE OptionsAssumption
<1>0. TypeOK
  BY DEF IInv
<1>1. /\ Append(queue[i], l) \in Seq(Lock)
      /\ Len(Append(queue[i], l)) = Len(queue[i]) + 1
      /\ \A k \in 1 .. Len(queue[i]) : Append(queue[i], l)[k] = queue[i][k]
      /\ Append(queue[i], l)[Len(queue[i]) + 1] = l
  BY <1>0, AppendProperties DEF TypeOK
<1>2. queue' = [queue EXCEPT ![i] = Append(queue[i], l)]
  OBVIOUS
<1>3. TypeOK'
  BY <1>0, <1>1, <1>2 DEF TypeOK
<1>4. \A j \in Id : \A k \in DOMAIN queue[j] : queue[j][k] \in Lock /\ queue[j][k] # l
  BY <1>0 DEF IInv, QueueSound, TypeOK
<1>5. MutualExclusion' /\ EntryIffHeld' /\ RejectedHoldsNothing' /\ PendingHoldsNothing'
  BY <1>0 DEF IInv, TypeOK, MutualExclusion, EntryIffHeld, RejectedHoldsNothing, PendingHoldsNothing
<1>6. QueueSound'
  <2> SUFFICES ASSUME NEW j \in Id, NEW k \in DOMAIN queue'[j]
               PROVE  promise'[queue'[j][k]] = "pending" /\ id'[queue'[j][k]] = j
    BY DEF QueueSound
  <2>1. CASE j = i
    <3>1. k \in 1 .. Len(queue[i]) + 1 /\ queue'[i] = Append(queue[i], l)
      BY <1>0, <1>1, <1>2, <2>1 DEF TypeOK
    <3>2. CASE k = Len(queue[i]) + 1
      BY <1>0, <1>1, <2>1, <3>1, <3>2 DEF TypeOK
    <3>3. CASE k # Len(queue[i]) + 1
      <4>1. k \in DOMAIN queue[i] /\ queue'[i][k] = queue[i][k]
        BY <1>0, <1>1, <3>1, <3>3 DEF TypeOK
      <4> QED
        BY <1>0, <1>4, <2>1, <4>1 DEF IInv, QueueSound, TypeOK
    <3> QED
      BY <3>2, <3>3
  <2>2. CASE j # i
    BY <1>0, <1>2, <1>4, <2>2 DEF IInv, QueueSound, TypeOK
  <2> QED
    BY <2>1, <2>2
<1>7. QueueComplete'
  <2> SUFFICES ASSUME NEW m \in Lock, promise'[m] = "pending"
               PROVE  \E k \in DOMAIN queue'[id'[m]] : queue'[id'[m]][k] = m
    BY DEF QueueComplete
  <2>1. CASE m = l
    <3>1. id'[m] = i /\ queue'[i] = Append(queue[i], l) /\ Len(queue[i]) + 1 \in DOMAIN queue'[i]
      BY <1>0, <1>1, <1>2, <2>1 DEF TypeOK
    <3> QED
      BY <1>1, <2>1, <3>1
  <2>2. CASE m # l
    <3>1. id'[m] = id[m] /\ promise[m] = "pending"
      BY <1>0, <2>2 DEF TypeOK
    <3>2. PICK k \in DOMAIN queue[id[m]] : queue[id[m]][k] = m
      BY <3>1 DEF IInv, QueueComplete
    <3>3. k \in DOMAIN queue'[id[m]] /\ queue'[id[m]][k] = m
      BY <1>0, <1>1, <1>2, <3>2 DEF TypeOK
    <3> QED
      BY <3>1, <3>3
  <2> QED
    BY <2>1, <2>2
<1>8. QueueDistinct'
  <2>1. Distinct(Append(queue[i], l))
    <3>1. Distinct(queue[i]) /\ DOMAIN queue[i] = 1 .. Len(queue[i]) /\ Len(queue[i]) \in Nat
      BY <1>0 DEF IInv, QueueDistinct, TypeOK
    <3>2. DOMAIN Append(queue[i], l) = 1 .. Len(queue[i]) + 1
      BY <1>1, <3>1
    <3> QED
      BY <1>1, <1>4, <3>1, <3>2 DEF Distinct
  <2> QED
    BY <1>0, <1>2, <2>1 DEF IInv, QueueDistinct, TypeOK
<1>9. QueueHasEntry'
  BY <1>0, <1>2 DEF IInv, QueueHasEntry, TypeOK
<1> QED
  BY <1>3, <1>5, <1>6, <1>7, <1>8, <1>9 DEF IInv

\* acquire() and tryLock() of a free name.
LEMMA TakeFreeInv ==
    ASSUME IInv, NEW l \in Lock, NEW i \in Id, NEW t \in Ttls,
           AcquireFree(l, i, t, TRUE) \/ AcquireFree(l, i, t, FALSE) \/ TryLock(l, i, t)
    PROVE  IInv'
<1>0. TypeOK /\ t \in BOOLEAN
  BY OptionsAssumption DEF IInv
<1> PICK p \in {"none", "resolved"}, o \in BOOLEAN :
        /\ LOCKS' = LOCKS \cup {i}
        /\ queue' = [queue EXCEPT ![i] = <<>>]
        /\ id' = [id EXCEPT ![l] = i]
        /\ ttl' = [ttl EXCEPT ![l] = t]
        /\ holding' = [holding EXCEPT ![l] = TRUE]
        /\ promise' = [promise EXCEPT ![l] = p]
        /\ ttlTimeout' = [ttlTimeout EXCEPT ![l] = t]
        /\ timeoutTimer' = [timeoutTimer EXCEPT ![l] = o]
  <2>1. [timeoutTimer EXCEPT ![l] = timeoutTimer[l]] = timeoutTimer /\ timeoutTimer[l] \in BOOLEAN
    BY <1>0 DEF TypeOK
  <2> QED
    BY <2>1 DEF AcquireFree, TryLock
<1> i \notin LOCKS /\ ~holding[l] /\ promise[l] # "pending"
  BY DEF AcquireFree, TryLock, Fresh
<1>1. queue' = queue
  <2>1. queue[i] = <<>>
    BY DEF IInv, QueueHasEntry
  <2> QED
    BY <1>0, <2>1 DEF TypeOK
<1>2. TypeOK'
  BY <1>0, <1>1 DEF TypeOK
<1>3. \A j \in Id : \A k \in DOMAIN queue[j] : queue[j][k] \in Lock /\ queue[j][k] # l
  BY <1>0 DEF IInv, QueueSound, TypeOK
<1>4. \A m \in Lock : holding[m] => id[m] # i
  BY <1>0 DEF IInv, EntryIffHeld
<1>5. MutualExclusion' /\ EntryIffHeld' /\ RejectedHoldsNothing' /\ PendingHoldsNothing'
  BY <1>0, <1>4 DEF IInv, TypeOK, MutualExclusion, EntryIffHeld, RejectedHoldsNothing, PendingHoldsNothing
<1>6. QueueSound' /\ QueueComplete'
  BY <1>0, <1>1, <1>3 DEF IInv, TypeOK, QueueSound, QueueComplete
<1>7. QueueDistinct' /\ QueueHasEntry'
  BY <1>0, <1>1 DEF IInv, TypeOK, QueueDistinct, QueueHasEntry
<1> QED
  BY <1>2, <1>5, <1>6, <1>7 DEF IInv

\* The timeout of acquire(): whoever still waits leaves the queue.
LEMMA TimeoutFiresInv ==
    ASSUME IInv, NEW l \in Lock, TimeoutFires(l)
    PROVE  IInv'
<1> DEFINE i == id[l]
           r == RemoveFirst(queue[i], l)
<1>0. TypeOK /\ i \in Id
  BY DEF IInv, TypeOK
<1> /\ queue' = IF i \in LOCKS THEN [queue EXCEPT ![i] = r] ELSE queue
    /\ timeoutTimer' = [timeoutTimer EXCEPT ![l] = FALSE]
    /\ promise' = [promise EXCEPT ![l] = IF @ = "pending" THEN "rejected" ELSE @]
    /\ UNCHANGED <<LOCKS, id, ttl, holding, ttlTimeout>>
  BY DEF TimeoutFires, Settle
<1>1. /\ r \in Seq(Lock)
      /\ Distinct(r)
      /\ \A j \in DOMAIN r : r[j] # l /\ \E k \in DOMAIN queue[i] : r[j] = queue[i][k]
      /\ \A k \in DOMAIN queue[i] : queue[i][k] # l => \E j \in DOMAIN r : r[j] = queue[i][k]
  <2> DEFINE q == queue[i]
  <2>1. q \in Seq(Lock) /\ Distinct(q)
    BY <1>0 DEF IInv, QueueDistinct, TypeOK
  <2>2. r = RemoveFirst(q, l)
    OBVIOUS
  <2> HIDE DEF q, r
  <2>3. /\ r \in Seq(Lock)
        /\ Distinct(r)
        /\ \A j \in DOMAIN r : r[j] # l /\ \E k \in DOMAIN q : r[j] = q[k]
        /\ \A k \in DOMAIN q : q[k] # l => \E j \in DOMAIN r : r[j] = q[k]
    BY <2>1, <2>2, RemoveFirstKeeps
  <2> QED
    BY <2>3 DEF q
<1>2. queue' = IF i \in LOCKS THEN [queue EXCEPT ![i] = r] ELSE queue
  OBVIOUS
<1> HIDE DEF r
<1>3. TypeOK'
  BY <1>0, <1>1, <1>2 DEF TypeOK
<1>4. promise[l] = "pending" => i \in LOCKS
  BY <1>0 DEF IInv, QueueComplete, QueueHasEntry
<1>5. MutualExclusion' /\ EntryIffHeld' /\ RejectedHoldsNothing' /\ PendingHoldsNothing'
  BY <1>0 DEF IInv, TypeOK, MutualExclusion, EntryIffHeld, RejectedHoldsNothing, PendingHoldsNothing
<1>6. \A j \in Id : \A k \in DOMAIN queue'[j] :
          /\ queue'[j][k] # l
          /\ \E n \in DOMAIN queue[j] : queue'[j][k] = queue[j][n]
  <2> TAKE j \in Id
  <2>1. CASE j = i /\ i \in LOCKS
    BY <1>0, <1>1, <1>2, <2>1 DEF TypeOK
  <2>2. CASE j # i
    BY <1>0, <1>2, <2>2 DEF IInv, QueueSound, TypeOK
  <2>3. CASE i \notin LOCKS
    BY <1>0, <1>2, <1>4, <2>3 DEF IInv, QueueSound, TypeOK
  <2> QED
    BY <2>1, <2>2, <2>3
<1>7. QueueSound'
  <2> SUFFICES ASSUME NEW j \in Id, NEW k \in DOMAIN queue'[j]
               PROVE  promise'[queue'[j][k]] = "pending" /\ id'[queue'[j][k]] = j
    BY DEF QueueSound
  <2>1. PICK n \in DOMAIN queue[j] : queue'[j][k] = queue[j][n]
    BY <1>6
  <2>2. queue[j][n] \in Lock /\ promise[queue[j][n]] = "pending" /\ id[queue[j][n]] = j
    BY <1>0 DEF IInv, QueueSound, TypeOK
  <2> QED
    BY <1>0, <1>6, <2>1, <2>2 DEF TypeOK
<1>8. QueueComplete'
  <2> SUFFICES ASSUME NEW m \in Lock, promise'[m] = "pending"
               PROVE  \E k \in DOMAIN queue'[id[m]] : queue'[id[m]][k] = m
    BY DEF QueueComplete
  <2>1. m # l /\ promise[m] = "pending" /\ id[m] \in Id
    BY <1>0 DEF TypeOK
  <2>2. PICK k \in DOMAIN queue[id[m]] : queue[id[m]][k] = m
    BY <2>1 DEF IInv, QueueComplete
  <2>3. CASE id[m] = i /\ i \in LOCKS
    BY <1>0, <1>1, <1>2, <2>1, <2>2, <2>3 DEF TypeOK
  <2>4. CASE id[m] # i \/ i \notin LOCKS
    BY <1>0, <1>2, <2>1, <2>2, <2>4 DEF TypeOK
  <2> QED
    BY <2>3, <2>4
<1>9. QueueDistinct' /\ QueueHasEntry'
  BY <1>0, <1>1, <1>2 DEF IInv, TypeOK, QueueDistinct, QueueHasEntry
<1> QED
  BY <1>3, <1>5, <1>7, <1>8, <1>9 DEF IInv

\* unlock() with somebody waiting: the first waiter takes over.
LEMMA HandOverInv ==
    ASSUME IInv, NEW l \in Lock, holding[l], HandOver(l), UNCHANGED <<id, ttl, timeoutTimer>>
    PROVE  IInv'
<1> DEFINE i == id[l]
           q == queue[i]
           next == Head(q)
<1>0. TypeOK /\ i \in Id /\ q \in Seq(Lock) /\ q # <<>>
  BY DEF IInv, TypeOK, HandOver
<1>1. /\ next \in Lock
      /\ next = q[1]
      /\ 1 \in DOMAIN q
      /\ Tail(q) \in Seq(Lock)
      /\ DOMAIN Tail(q) = 1 .. Len(q) - 1
      /\ DOMAIN q = 1 .. Len(q)
      /\ Len(q) \in Nat
      /\ \A k \in 1 .. Len(q) - 1 : Tail(q)[k] = q[k + 1]
  BY <1>0, HeadTailProperties
<1>2. /\ queue' = [queue EXCEPT ![i] = Tail(q)]
      /\ holding' = [holding EXCEPT ![l] = FALSE, ![next] = TRUE]
      /\ promise' = [promise EXCEPT ![next] = IF @ = "pending" THEN "resolved" ELSE @]
      /\ ttlTimeout' = [ttlTimeout EXCEPT ![l] = FALSE, ![next] = ttl[next]]
      /\ UNCHANGED <<LOCKS, id, ttl, timeoutTimer>>
  BY DEF HandOver, Settle
<1>3. promise[next] = "pending" /\ id[next] = i /\ ~holding[next] /\ next # l
  BY <1>0, <1>1 DEF IInv, QueueSound, PendingHoldsNothing
<1>4. Distinct(q) /\ \A k \in DOMAIN q : q[k] = next => k = 1
  BY <1>0, <1>1 DEF IInv, QueueDistinct, Distinct
<1> HIDE DEF next
<1>5. TypeOK'
  BY <1>0, <1>1, <1>2 DEF TypeOK
<1>6. MutualExclusion' /\ EntryIffHeld' /\ RejectedHoldsNothing' /\ PendingHoldsNothing'
  <2>1. \A m \in Lock : /\ holding'[m] = IF m = next THEN TRUE ELSE IF m = l THEN FALSE ELSE holding[m]
                        /\ promise'[m] = IF m = next THEN "resolved" ELSE promise[m]
    BY <1>0, <1>1, <1>2, <1>3 DEF TypeOK
  <2>2. \A m \in Lock : holding[m] /\ id[m] = i => m = l
    BY DEF IInv, MutualExclusion
  <2>3. id' = id /\ LOCKS' = LOCKS
    BY <1>2
  <2> HIDE <1>2
  <2>4. \A m \in Lock : holding'[m] => IF m = next THEN id[m] = i ELSE holding[m] /\ id[m] # i
    BY <1>3, <2>1, <2>2
  <2>5. MutualExclusion'
    <3> SUFFICES ASSUME NEW m \in Lock, NEW n \in Lock, holding'[m], holding'[n], id[m] = id[n]
                 PROVE  m = n
      BY <2>3 DEF MutualExclusion
    <3> QED
      BY <2>4 DEF IInv, MutualExclusion
  <2>6. EntryIffHeld'
    <3> SUFFICES ASSUME NEW j \in Id
                 PROVE  j \in LOCKS <=> \E m \in Lock : holding'[m] /\ id[m] = j
      BY <2>3 DEF EntryIffHeld
    <3>1. j \in LOCKS <=> \E m \in Lock : holding[m] /\ id[m] = j
      BY DEF IInv, EntryIffHeld
    <3>2. CASE j = i
      BY <1>1, <1>3, <2>1, <3>1, <3>2
    <3>3. CASE j # i
      <4>1. \A m \in Lock : id[m] = j => holding'[m] = holding[m]
        BY <1>3, <2>1, <3>3
      <4> QED
        BY <3>1, <4>1
    <3> QED
      BY <3>2, <3>3
  <2>7. RejectedHoldsNothing' /\ PendingHoldsNothing'
    BY <1>3, <2>1 DEF IInv, RejectedHoldsNothing, PendingHoldsNothing
  <2> QED
    BY <2>5, <2>6, <2>7
<1>7. \A j \in Id : \A k \in DOMAIN queue'[j] :
          queue'[j][k] # next /\ \E n \in DOMAIN queue[j] : queue'[j][k] = queue[j][n]
  <2> TAKE j \in Id
  <2> TAKE k \in DOMAIN queue'[j]
  <2>1. CASE j = i
    <3>1. k \in 1 .. Len(q) - 1 /\ queue'[j][k] = q[k + 1] /\ k + 1 \in DOMAIN q /\ k + 1 # 1
      BY <1>0, <1>1, <1>2, <2>1 DEF TypeOK
    <3> QED
      BY <1>4, <2>1, <3>1
  <2>2. CASE j # i
    BY <1>0, <1>2, <1>3, <2>2 DEF IInv, QueueSound, TypeOK
  <2> QED
    BY <2>1, <2>2
<1>8. QueueSound'
  <2> SUFFICES ASSUME NEW j \in Id, NEW k \in DOMAIN queue'[j]
               PROVE  promise'[queue'[j][k]] = "pending" /\ id'[queue'[j][k]] = j
    BY DEF QueueSound
  <2>1. PICK n \in DOMAIN queue[j] : queue'[j][k] = queue[j][n]
    BY <1>7
  <2>2. queue[j][n] \in Lock /\ promise[queue[j][n]] = "pending" /\ id[queue[j][n]] = j
    BY <1>0 DEF IInv, QueueSound, TypeOK
  <2> QED
    BY <1>0, <1>2, <1>7, <2>1, <2>2 DEF TypeOK
<1>9. QueueComplete'
  <2> SUFFICES ASSUME NEW m \in Lock, promise'[m] = "pending"
               PROVE  \E k \in DOMAIN queue'[id[m]] : queue'[id[m]][k] = m
    BY <1>2 DEF QueueComplete
  <2>1. m # next /\ promise[m] = "pending" /\ id[m] \in Id
    BY <1>0, <1>1, <1>2 DEF TypeOK
  <2>2. PICK k \in DOMAIN queue[id[m]] : queue[id[m]][k] = m
    BY <2>1 DEF IInv, QueueComplete
  <2>3. CASE id[m] = i
    <3>1. k - 1 \in 1 .. Len(q) - 1 /\ (k - 1) + 1 = k
      BY <1>1, <2>1, <2>2, <2>3
    <3>2. queue'[i] = Tail(q) /\ Tail(q)[k - 1] = q[k]
      BY <1>0, <1>1, <1>2, <3>1 DEF TypeOK
    <3> QED
      BY <1>1, <2>2, <2>3, <3>1, <3>2
  <2>4. CASE id[m] # i
    BY <1>0, <1>2, <2>1, <2>2, <2>4 DEF TypeOK
  <2> QED
    BY <2>3, <2>4
<1>10. QueueDistinct'
  <2>1. Distinct(Tail(q))
    <3> DEFINE u == Tail(q)
    <3>1. \A j, k \in DOMAIN u : u[j] = u[k] => j = k
      <4> TAKE j, k \in DOMAIN u
      <4>1. u[j] = q[j + 1] /\ u[k] = q[k + 1] /\ j + 1 \in DOMAIN q /\ k + 1 \in DOMAIN q
        BY <1>1
      <4>2. j \in Int /\ k \in Int
        BY <1>1
      <4> HIDE DEF u
      <4>3. q[j + 1] = q[k + 1] => j + 1 = k + 1
        BY <1>4, <4>1 DEF Distinct
      <4> QED
        BY <4>1, <4>2, <4>3
    <3> QED
      BY <3>1 DEF Distinct
  <2> QED
    BY <1>0, <1>2, <2>1 DEF IInv, QueueDistinct, TypeOK
<1>11. QueueHasEntry'
  <2>1. i \in LOCKS
    BY <1>0 DEF IInv, QueueHasEntry
  <2> QED
    BY <1>0, <1>2, <2>1 DEF IInv, QueueHasEntry, TypeOK
<1> QED
  BY <1>5, <1>6, <1>8, <1>9, <1>10, <1>11 DEF IInv

\* unlock() with nobody waiting: the entry goes with its only holder.
LEMMA DeleteEntryInv ==
    ASSUME IInv, NEW l \in Lock, holding[l], DeleteEntry(l), UNCHANGED <<id, ttl, timeoutTimer>>
    PROVE  IInv'
<1> USE DEF DeleteEntry
<1>0. TypeOK
  BY DEF IInv
<1>1. TypeOK'
  BY <1>0 DEF TypeOK
<1>2. MutualExclusion' /\ EntryIffHeld' /\ RejectedHoldsNothing' /\ PendingHoldsNothing'
  BY <1>0 DEF IInv, TypeOK, MutualExclusion, EntryIffHeld, RejectedHoldsNothing, PendingHoldsNothing
<1>3. QueueSound' /\ QueueComplete' /\ QueueDistinct' /\ QueueHasEntry'
  BY <1>0 DEF IInv, TypeOK, QueueSound, QueueComplete, QueueDistinct, QueueHasEntry
<1> QED
  BY <1>1, <1>2, <1>3 DEF IInv

\* unlock(), and the ttl timer, which calls it.
LEMMA UnlockInv ==
    ASSUME IInv, NEW l \in Lock, unlock(l)
    PROVE  IInv'
<1>1. CASE NotHeld(l)
  BY <1>1 DEF unlock, NotHeld, IInv, TypeOK, MutualExclusion, EntryIffHeld, RejectedHoldsNothing,
              PendingHoldsNothing, QueueSound, QueueComplete, QueueDistinct, QueueHasEntry
<1>2. CASE holding[l] /\ HandOver(l)
  BY <1>2, HandOverInv DEF unlock
<1>3. CASE holding[l] /\ DeleteEntry(l)
  BY <1>3, DeleteEntryInv DEF unlock
<1> QED
  BY <1>1, <1>2, <1>3 DEF unlock

\* One case for each operation and timer of the lock.
LEMMA StepInv == IInv /\ [Next]_lockVars => IInv'
<1> SUFFICES ASSUME IInv, [Next]_lockVars
             PROVE  IInv'
  OBVIOUS
<1>1. ASSUME NEW l \in Lock, NEW i \in Id, NEW t \in Ttls, NEW o \in Timeouts,
             AcquireQueued(l, i, t, o)
      PROVE  IInv'
  BY <1>1, AcquireQueuedInv
<1>2. ASSUME NEW l \in Lock, NEW i \in Id, NEW t \in Ttls, NEW o \in Timeouts,
             AcquireFree(l, i, t, o)
      PROVE  IInv'
  <2>1. o = TRUE \/ o = FALSE
    BY OptionsAssumption
  <2> QED
    BY <1>2, <2>1, TakeFreeInv
<1>3. ASSUME NEW l \in Lock, NEW i \in Id, NEW t \in Ttls, TryLock(l, i, t)
      PROVE  IInv'
  BY <1>3, TakeFreeInv
<1>4. ASSUME NEW l \in Lock, TimeoutFires(l)
      PROVE  IInv'
  BY <1>4, TimeoutFiresInv
<1>5. ASSUME NEW l \in Lock, Unlock(l) \/ TtlFires(l)
      PROVE  IInv'
  BY <1>5, UnlockInv DEF Unlock, TtlFires
<1>6. CASE UNCHANGED lockVars
  BY <1>6 DEF lockVars, IInv, TypeOK, MutualExclusion, EntryIffHeld, RejectedHoldsNothing,
              PendingHoldsNothing, QueueSound, QueueComplete, QueueDistinct, QueueHasEntry
<1> QED
  BY <1>1, <1>2, <1>3, <1>4, <1>5, <1>6 DEF Next

-----------------------------------------------------------------------------
\* The inductive invariant holds throughout.
THEOREM Invariance == Spec => []IInv
BY InitInv, StepInv, PTL DEF Spec

\* Types of the module global LOCKS and of the lock objects' fields.
THEOREM TypeCorrect == Spec => []TypeOK
<1>1. IInv => TypeOK
  BY DEF IInv
<1> QED
  BY <1>1, Invariance, PTL

\* No two lock objects ever hold the same name (acquire, tryLock, unlock).
THEOREM Exclusion == Spec => []MutualExclusion
<1>1. IInv => MutualExclusion
  BY DEF IInv
<1> QED
  BY <1>1, Invariance, PTL

\* LOCKS has an entry exactly for the names that are held.
THEOREM Entries == Spec => []EntryIffHeld
<1>1. IInv => EntryIffHeld
  BY DEF IInv
<1> QED
  BY <1>1, Invariance, PTL

\* A timed out acquire() never holds the lock.
THEOREM Rejected == Spec => []RejectedHoldsNothing
<1>1. IInv => RejectedHoldsNothing
  BY DEF IInv
<1> QED
  BY <1>1, Invariance, PTL

\* Every pending acquire() is queued once, and nothing else is queued.
THEOREM Queued == Spec => []PendingIffQueued
<1>1. IInv => PendingIffQueued
  <2> SUFFICES ASSUME IInv, NEW l \in Lock, NEW i \in Id
               PROVE  Cardinality({k \in DOMAIN queue[i] : queue[i][k] = l})
                         = IF promise[l] = "pending" /\ id[l] = i THEN 1 ELSE 0
    BY DEF PendingIffQueued
  <2> DEFINE at == {k \in DOMAIN queue[i] : queue[i][k] = l}
  <2>1. CASE promise[l] = "pending" /\ id[l] = i
    <3>1. PICK k \in DOMAIN queue[i] : queue[i][k] = l
      BY <2>1 DEF IInv, QueueComplete
    <3>2. at = {k}
      BY <3>1 DEF IInv, QueueDistinct, Distinct
    <3> QED
      BY <2>1, <3>2, FS_Singleton
  <2>2. CASE ~(promise[l] = "pending" /\ id[l] = i)
    <3>1. at = {}
      BY <2>2 DEF IInv, QueueSound
    <3> QED
      BY <2>2, <3>1, FS_EmptySet
  <2> QED
    BY <2>1, <2>2
<1> QED
  BY <1>1, Invariance, PTL

\* unlock() serves the queue from its front: whoever is granted was first.
THEOREM FirstComeFirstServed == Spec => NoOvertaking
<1> DEFINE A == \A i \in Id : \A k \in DOMAIN queue[i] :
                   promise'[queue[i][k]] = "resolved" =>
                       \A j \in 1 .. k - 1 : promise'[queue[i][j]] # "pending"
<1>1. IInv /\ [Next]_lockVars => [A]_lockVars
  <2> SUFFICES ASSUME IInv, Next, NEW i \in Id, NEW k \in DOMAIN queue[i],
                      promise'[queue[i][k]] = "resolved"
               PROVE  k = 1
    <3>1. \A j \in 1 .. 1 - 1 : FALSE
      OBVIOUS
    <3> QED
      BY <3>1
  <2> DEFINE w == queue[i][k]
  <2>1. w \in Lock /\ promise[w] = "pending" /\ id[w] = i
    BY DEF IInv, QueueSound, TypeOK
  <2>2. PICK l \in Lock : HandOver(l) /\ Head(queue[id[l]]) = w
    <3>1. PICK l \in Lock :
               \/ \E j \in Id, t \in Ttls, o \in Timeouts :
                     AcquireQueued(l, j, t, o) \/ AcquireFree(l, j, t, o)
               \/ \E j \in Id, t \in Ttls : TryLock(l, j, t)
               \/ TimeoutFires(l)
               \/ unlock(l)
      BY DEF Next, Unlock, TtlFires
    <3>2. promise \in [Lock -> {"none", "pending", "resolved", "rejected"}] /\ promise'[w] # promise[w]
      BY <2>1 DEF IInv, TypeOK
    <3> HIDE DEF w
    <3>3. CASE \E j \in Id, t \in Ttls, o \in Timeouts :
                     AcquireQueued(l, j, t, o) \/ AcquireFree(l, j, t, o)
      BY <2>1, <3>2, <3>3 DEF AcquireQueued, AcquireFree, Fresh
    <3>4. CASE \E j \in Id, t \in Ttls : TryLock(l, j, t)
      BY <2>1, <3>2, <3>4 DEF TryLock, Fresh
    <3>5. CASE TimeoutFires(l)
      BY <2>1, <3>2, <3>5 DEF TimeoutFires, Settle, w
    <3>6. CASE unlock(l)
      BY <2>1, <3>2, <3>6 DEF unlock, NotHeld, HandOver, DeleteEntry, Settle
    <3> QED
      BY <3>1, <3>3, <3>4, <3>5, <3>6
  <2>3. queue[id[l]] \in Seq(Lock) /\ queue[id[l]] # <<>>
    BY <2>2 DEF HandOver, IInv, TypeOK
  <2>4. w = queue[id[l]][1] /\ 1 \in DOMAIN queue[id[l]] /\ id[l] \in Id
    BY <2>2, <2>3 DEF IInv, TypeOK
  <2>5. id[l] = i
    BY <2>1, <2>4 DEF IInv, QueueSound
  <2> QED
    BY <2>4, <2>5 DEF IInv, QueueDistinct, Distinct
<1> QED
  BY <1>1, Invariance, PTL DEF Spec, NoOvertaking

-----------------------------------------------------------------------------
(* ProcessLock implements LockService.                                     *)

holders == [i \in Id |-> {l \in Lock : holding[l] /\ id[l] = i}]
waiting == [i \in Id |-> {l \in Lock : promise[l] = "pending" /\ id[l] = i}]

\* Refinement: a free lock is a free service.
LEMMA StartMaps == Init => Service!Init
BY DEF Init, Service!Init

\* A call that takes a fresh object was not involved with any name before.
LEMMA FreshUninvolved ==
    ASSUME IInv, NEW l \in Lock, Fresh(l)
    PROVE  Service!Uninvolved(l)
BY DEF Fresh, Service!Uninvolved

\* acquire() of a held name is a Wait.
LEMMA AcquireQueuedMaps ==
    ASSUME IInv, NEW l \in Lock, NEW i \in Id, NEW t \in Ttls, NEW o \in Timeouts,
           AcquireQueued(l, i, t, o)
    PROVE  Service!Wait(l, i)
<1>1. Service!Uninvolved(l)
  BY FreshUninvolved DEF AcquireQueued
<1>2. holders[i] # {}
  BY DEF AcquireQueued, holders, IInv, EntryIffHeld
<1>3. waiting' = [waiting EXCEPT ![i] = @ \cup {l}]
  BY DEF AcquireQueued, Fresh, waiting, IInv, TypeOK
<1>4. holders' = holders
  BY DEF AcquireQueued, Fresh, holders, IInv, TypeOK
<1> QED
  BY <1>1, <1>2, <1>3, <1>4 DEF Service!Wait, holders, waiting

\* acquire() and tryLock() of a free name are a Take.
LEMMA TakeFreeMaps ==
    ASSUME IInv, NEW l \in Lock, NEW i \in Id, NEW t \in Ttls,
           TryLock(l, i, t) \/ \E o \in Timeouts : AcquireFree(l, i, t, o)
    PROVE  Service!Take(l, i)
<1>1. Service!Uninvolved(l)
  BY FreshUninvolved DEF AcquireFree, TryLock
<1>2. /\ Fresh(l) /\ i \notin LOCKS
      /\ id' = [id EXCEPT ![l] = i]
      /\ holding' = [holding EXCEPT ![l] = TRUE]
      /\ \E p \in {"none", "resolved"} : promise' = [promise EXCEPT ![l] = p]
  BY DEF AcquireFree, TryLock
<1>3. holders[i] = {}
  BY <1>2 DEF holders, IInv, EntryIffHeld
<1>4. holders' = [holders EXCEPT ![i] = {l}]
  <2>1. \A j \in Id, m \in Lock : holding'[m] /\ id'[m] = j
            <=> IF j = i THEN m = l ELSE holding[m] /\ id[m] = j
    BY <1>2 DEF Fresh, IInv, TypeOK, EntryIffHeld
  <2>2. \A j \in Id : holders'[j] = IF j = i THEN {l} ELSE holders[j]
    BY <2>1 DEF holders
  <2> QED
    BY <2>2 DEF holders
<1>5. waiting' = waiting
  BY <1>2 DEF Fresh, waiting, IInv, TypeOK
<1> QED
  BY <1>1, <1>3, <1>4, <1>5 DEF Service!Take, holders, waiting

\* The timeout timer is a GiveUp, or nothing when the call has settled.
LEMMA TimeoutFiresMaps ==
    ASSUME IInv, NEW l \in Lock, NEW i \in Id, id[l] = i, TimeoutFires(l)
    PROVE  Service!GiveUp(l, i) \/ UNCHANGED Service!svars
<1>1. holders' = holders
  BY DEF TimeoutFires, holders
<1>2. CASE promise[l] = "pending"
  <2>1. l \in waiting[i]
    BY <1>2 DEF waiting, IInv, TypeOK
  <2>2. waiting' = [waiting EXCEPT ![i] = @ \ {l}]
    BY <1>2 DEF TimeoutFires, Settle, waiting, IInv, TypeOK
  <2> QED
    BY <1>1, <2>1, <2>2 DEF Service!GiveUp, holders, waiting
<1>3. CASE promise[l] # "pending"
  BY <1>1, <1>3 DEF TimeoutFires, Settle, Service!svars, holders
<1> QED
  BY <1>2, <1>3

\* unlock() frees the name, hands it over, or does nothing.
LEMMA UnlockMaps ==
    ASSUME IInv, NEW l \in Lock, NEW i \in Id, id[l] = i, unlock(l)
    PROVE  \/ Service!Free(l, i)
           \/ \E m \in Lock : Service!HandOver(l, m, i)
           \/ UNCHANGED Service!svars
<1>0. TypeOK /\ id' = id
  BY DEF IInv, TypeOK, unlock
<1>1. CASE NotHeld(l)
  BY <1>0, <1>1 DEF NotHeld, Service!svars
<1>2. holding[l] => holders[i] = {l}
  BY <1>0 DEF holders, IInv, MutualExclusion
<1>3. CASE holding[l] /\ DeleteEntry(l)
  <2>1. waiting[i] = {}
    BY <1>0, <1>3 DEF DeleteEntry, waiting, IInv, QueueComplete
  <2>2. waiting' = waiting
    BY <1>0, <1>3 DEF DeleteEntry, waiting
  <2>3. holders' = [holders EXCEPT ![i] = {}]
    <3>1. \A j \in Id, m \in Lock : holding'[m] /\ id'[m] = j
              <=> j # i /\ holding[m] /\ id[m] = j
      BY <1>0, <1>3 DEF DeleteEntry, IInv, TypeOK, MutualExclusion
    <3>2. \A j \in Id : holders'[j] = IF j = i THEN {} ELSE holders[j]
      BY <3>1 DEF holders
    <3> QED
      BY <3>2 DEF holders
  <2> QED
    BY <1>2, <1>3, <2>1, <2>2, <2>3 DEF Service!Free, holders, waiting
<1>4. CASE holding[l] /\ HandOver(l)
  <2> PICK w : w = Head(queue[i])
    OBVIOUS
  <2>1. /\ w \in Lock
        /\ promise[w] = "pending" /\ id[w] = i
    <3>1. queue[i] \in Seq(Lock) /\ queue[i] # <<>>
      BY <1>0, <1>4 DEF HandOver, TypeOK
    <3>2. w = queue[i][1] /\ 1 \in DOMAIN queue[i] /\ w \in Lock
      BY <3>1
    <3> QED
      BY <1>0, <3>2 DEF IInv, QueueSound
  <2>2. /\ holding' = [holding EXCEPT ![l] = FALSE, ![w] = TRUE]
        /\ promise' = [promise EXCEPT ![w] = IF @ = "pending" THEN "resolved" ELSE @]
    BY <1>4 DEF HandOver, Settle
  <2>3. w \in waiting[i]
    BY <1>0, <2>1 DEF waiting
  <2>4. waiting' = [waiting EXCEPT ![i] = @ \ {w}]
    BY <1>0, <2>1, <2>2 DEF waiting, TypeOK
  <2>5. holders' = [holders EXCEPT ![i] = {w}]
    <3>1. \A j \in Id, n \in Lock : holding'[n] /\ id'[n] = j
              <=> IF j = i THEN n = w ELSE holding[n] /\ id[n] = j
      BY <1>0, <1>4, <2>1, <2>2 DEF IInv, TypeOK, MutualExclusion
    <3>2. \A j \in Id : holders'[j] = IF j = i THEN {w} ELSE holders[j]
      BY <2>1, <3>1 DEF holders
    <3> QED
      BY <3>2 DEF holders
  <2>6. Service!HandOver(l, w, i)
    BY <1>2, <1>4, <2>3, <2>4, <2>5 DEF Service!HandOver, holders, waiting
  <2> QED
    BY <2>1, <2>6
<1> QED
  BY <1>1, <1>3, <1>4 DEF unlock

\* Refinement: each step is a step of the service or leaves it alone.
LEMMA StepMaps == IInv /\ [Next]_lockVars => [Service!Next]_(Service!svars)
<1> SUFFICES ASSUME IInv, [Next]_lockVars
             PROVE  [Service!Next]_(Service!svars)
  OBVIOUS
<1>0. \A l \in Lock : \E i \in Id : id[l] = i
  BY DEF IInv, TypeOK
<1>1. ASSUME NEW l \in Lock, NEW i \in Id, NEW t \in Ttls, NEW o \in Timeouts,
             AcquireQueued(l, i, t, o)
      PROVE  Service!Next
  BY <1>1, AcquireQueuedMaps DEF Service!Next
<1>2. ASSUME NEW l \in Lock, NEW i \in Id, NEW t \in Ttls, NEW o \in Timeouts,
             AcquireFree(l, i, t, o)
      PROVE  Service!Next
  BY <1>2, TakeFreeMaps DEF Service!Next
<1>3. ASSUME NEW l \in Lock, NEW i \in Id, NEW t \in Ttls, TryLock(l, i, t)
      PROVE  Service!Next
  BY <1>3, TakeFreeMaps DEF Service!Next
<1>4. ASSUME NEW l \in Lock, TimeoutFires(l)
      PROVE  [Service!Next]_(Service!svars)
  <2> PICK i \in Id : id[l] = i
    BY <1>0
  <2>1. Service!GiveUp(l, i) \/ UNCHANGED Service!svars
    BY <1>4, TimeoutFiresMaps
  <2>2. Service!GiveUp(l, i) => Service!Next
    BY DEF Service!Next
  <2> QED
    BY <2>1, <2>2
<1>5. ASSUME NEW l \in Lock, Unlock(l) \/ TtlFires(l)
      PROVE  [Service!Next]_(Service!svars)
  <2> PICK i \in Id : id[l] = i
    BY <1>0
  <2>1. unlock(l)
    BY <1>5 DEF Unlock, TtlFires
  <2>2. \/ Service!Free(l, i)
        \/ \E m \in Lock : Service!HandOver(l, m, i)
        \/ UNCHANGED Service!svars
    BY <2>1, UnlockMaps
  <2>3. Service!Free(l, i) => Service!Next
    BY DEF Service!Next
  <2>4. (\E m \in Lock : Service!HandOver(l, m, i)) => Service!Next
    BY DEF Service!Next
  <2> QED
    BY <2>2, <2>3, <2>4
<1>6. CASE UNCHANGED lockVars
  BY <1>6 DEF lockVars, Service!svars
<1> QED
  BY <1>1, <1>2, <1>3, <1>4, <1>5, <1>6 DEF Next

\* Every behaviour of ProcessLock is one of the abstract lock: a name has at
\* most one holder and is never free while an acquire() of it is pending.
THEOREM Implements == Spec => ServiceSpec
BY StartMaps, Invariance, StepMaps, PTL DEF Spec, ServiceSpec, Service!Spec
\* LOCKS, its queues and the fields of the lock objects always agree.
THEOREM Safe == Spec => []LockSafe
BY TypeCorrect, Exclusion, Entries, Queued, Rejected, PTL DEF LockSafe

-----------------------------------------------------------------------------
(* BrokerLock                                                              *)

\* A request waits for its .then() while its promise is pending, and it is
\* then in no connection's this.locks, nor being unlocked, nor known to the
\* client.
AcqFirst == /\ \A l \in Lock : promise[l] = "pending" => l \in acq
            /\ \A l \in acq : l \notin locks \cup closing /\ client[l] = "none"

\* Who holds a lock is on its way to this.locks or in it.
HeldIsKept == \A l \in Lock : holding[l] => l \in acq \cup locks

\* close() unlocks requests of closed connections only, one macrotask long.
ClosingIsClosed == \A l \in closing : owner[l] \notin open

\* The ttl timer runs only for requests with a ttl.
TtlAsked == \A l \in Lock : ttlTimeout[l] => ttl[l]

\* A lock without ttl is held from the grant to the client's Unlock, while
\* the connection stands.
Granted(l) == /\ ~ttl[l]
              /\ \/ l \in acq /\ promise[l] \in {"none", "resolved"}
                 \/ client[l] \in {"reply", "held"} /\ owner[l] \in open
GrantedIsHeld == \A l \in Lock : Granted(l) => holding[l]

BInv == /\ IInv
        /\ BrokerTypeOK
        /\ AcqFirst
        /\ HeldIsKept
        /\ ClosingIsClosed
        /\ TtlAsked
        /\ GrantedIsHeld

-----------------------------------------------------------------------------
\* In the beginning all connections stand and no lock is asked for.
LEMMA BrokerInitInv == BrokerInit => BInv
<1> SUFFICES ASSUME BrokerInit PROVE BInv
  OBVIOUS
<1>1. IInv
  BY InitInv DEF BrokerInit
<1>2. BrokerTypeOK
  BY DEF BrokerInit, BrokerTypeOK
<1>3. AcqFirst /\ HeldIsKept /\ ClosingIsClosed /\ TtlAsked /\ GrantedIsHeld
  BY DEF BrokerInit, Init, AcqFirst, HeldIsKept, ClosingIsClosed, TtlAsked, GrantedIsHeld, Granted
<1> QED
  BY <1>1, <1>2, <1>3 DEF BInv

\* Every step of the broker is a step of ProcessLock or leaves it alone.
LEMMA BrokerStepIsLockStep == BInv /\ [BrokerNext]_brokerVars => [Next]_lockVars
<1> SUFFICES ASSUME BInv, [BrokerNext]_brokerVars
             PROVE  [Next]_lockVars
  OBVIOUS
<1>1. ASSUME NEW l \in Lock, l \in locks \cup closing, unlock(l)
      PROVE  Next
  <2>1. promise[l] # "pending"
    BY <1>1 DEF BInv, AcqFirst
  <2> QED
    BY <1>1, <2>1 DEF Unlock, Next
<1>2. ASSUME NEW c \in Conn, Connect(c) \/ ClientDies(c) \/ Close(c)
      PROVE  UNCHANGED lockVars
  BY <1>2 DEF Connect, ClientDies, Close
<1>3. ASSUME NEW c \in Conn, NEW l \in Lock, NEW i \in Id, NEW t \in Ttls, NEW o \in Timeouts,
             HandleLock(c, l, i, t, o)
      PROVE  Next
  BY <1>3 DEF HandleLock, Next
<1>4. ASSUME NEW c \in Conn, NEW l \in Lock, NEW i \in Id, NEW t \in Ttls,
             HandleTryLock(c, l, i, t)
      PROVE  Next
  BY <1>4 DEF HandleTryLock, Next
<1>5. ASSUME NEW l \in Lock, CloseUnlocks(l)
      PROVE  Next
  BY <1>1, <1>5 DEF CloseUnlocks
<1>6. ASSUME NEW l \in Lock, Then(l) \/ ClientReceives(l) \/ ClientUnlocks(l)
      PROVE  UNCHANGED lockVars
  BY <1>6 DEF Then, ClientReceives, ClientUnlocks
<1>7. ASSUME NEW l \in Lock, HandleUnlock(l)
      PROVE  [Next]_lockVars
  BY <1>1, <1>7 DEF HandleUnlock
<1>8. ASSUME NEW l \in Lock, Timer(l)
      PROVE  Next
  BY <1>8 DEF Timer, Next
<1>9. CASE UNCHANGED brokerVars
  BY <1>9 DEF brokerVars
<1> QED
  BY <1>2, <1>3, <1>4, <1>5, <1>6, <1>7, <1>8, <1>9 DEF BrokerNext

\* What unlock() of l does to the other objects: nobody else loses a lock, and
\* who gains one had a pending acquire().
LEMMA UnlockEffect ==
    ASSUME IInv, TtlAsked, NEW l \in Lock, unlock(l)
    PROVE  /\ ttl' = ttl
           /\ ~holding'[l]
           /\ \A m \in Lock : m # l /\ holding[m] => holding'[m]
           /\ \A m \in Lock : holding'[m] /\ ~holding[m] => promise[m] = "pending"
           /\ \A m \in Lock : promise'[m] # promise[m] =>
                 promise[m] = "pending" /\ promise'[m] = "resolved" /\ holding'[m]
           /\ \A m \in Lock : ttlTimeout'[m] => ttl[m]
<1>0. TypeOK /\ ttl' = ttl
  BY DEF IInv, unlock
<1>1. CASE NotHeld(l)
  BY <1>0, <1>1 DEF NotHeld, TypeOK, TtlAsked
<1>2. CASE holding[l] /\ DeleteEntry(l)
  BY <1>0, <1>2 DEF DeleteEntry, TypeOK, TtlAsked
<1>3. CASE holding[l] /\ HandOver(l)
  <2> PICK w : w = Head(queue[id[l]])
    OBVIOUS
  <2>1. w \in Lock /\ promise[w] = "pending" /\ ~holding[w] /\ w # l
    <3>1. queue[id[l]] \in Seq(Lock) /\ queue[id[l]] # <<>> /\ id[l] \in Id
      BY <1>0, <1>3 DEF HandOver, TypeOK
    <3>2. w = queue[id[l]][1] /\ 1 \in DOMAIN queue[id[l]] /\ w \in Lock
      BY <3>1
    <3> QED
      BY <1>3, <3>1, <3>2 DEF IInv, QueueSound, PendingHoldsNothing
  <2>2. /\ holding' = [holding EXCEPT ![l] = FALSE, ![w] = TRUE]
        /\ promise' = [promise EXCEPT ![w] = IF @ = "pending" THEN "resolved" ELSE @]
        /\ ttlTimeout' = [ttlTimeout EXCEPT ![l] = FALSE, ![w] = ttl[w]]
    BY <1>3 DEF HandOver, Settle
  <2> QED
    BY <1>0, <2>1, <2>2 DEF TypeOK, TtlAsked
<1> QED
  BY <1>1, <1>2, <1>3 DEF unlock

\* unlock() of a registered request, from close() or from its Unlock message.
LEMMA UnlockKeepsBInv ==
    ASSUME BInv, NEW l \in Lock, unlock(l), l \in locks \cup closing,
           BrokerTypeOK', ClosingIsClosed', UNCHANGED <<open, owner, acq>>,
           \/ closing' = closing \ {l} /\ UNCHANGED <<locks, client>> /\ l \in closing
           \/ /\ locks' = locks \ {l}
              /\ client' = [client EXCEPT ![l] = "none"]
              /\ UNCHANGED closing
              /\ client[l] = "unlock"
    PROVE  BInv'
<1>0. /\ ttl' = ttl
      /\ ~holding'[l]
      /\ \A m \in Lock : m # l /\ holding[m] => holding'[m]
      /\ \A m \in Lock : holding'[m] /\ ~holding[m] => promise[m] = "pending"
      /\ \A m \in Lock : promise'[m] # promise[m] =>
            promise[m] = "pending" /\ promise'[m] = "resolved" /\ holding'[m]
      /\ \A m \in Lock : ttlTimeout'[m] => ttl[m]
  BY UnlockEffect DEF BInv
<1>1. IInv'
  BY UnlockInv DEF BInv
<1>2. l \notin acq
  BY DEF BInv, AcqFirst
<1>3. AcqFirst'
  <2>1. \A m \in Lock : promise'[m] = "pending" => m \in acq'
    BY <1>0 DEF BInv, AcqFirst
  <2>2. \A m \in acq' : m \notin locks' \cup closing' /\ client'[m] = "none"
    BY <1>2 DEF BInv, AcqFirst, BrokerTypeOK
  <2> QED
    BY <2>1, <2>2 DEF AcqFirst
<1>4. HeldIsKept'
  <2> SUFFICES ASSUME NEW m \in Lock, holding'[m] PROVE m \in acq' \cup locks'
    BY DEF HeldIsKept
  <2>1. m # l
    BY <1>0
  <2>2. m \in acq \cup locks
    BY <1>0 DEF BInv, HeldIsKept, AcqFirst
  <2> QED
    BY <2>1, <2>2
<1>5. TtlAsked'
  BY <1>0 DEF TtlAsked
<1>6. GrantedIsHeld'
  <2> SUFFICES ASSUME NEW m \in Lock, Granted(m)'
               PROVE  holding'[m]
    BY DEF GrantedIsHeld
  <2>1. CASE m = l
    BY <1>2, <2>1 DEF Granted, BInv, ClosingIsClosed, BrokerTypeOK
  <2>2. CASE m # l /\ promise'[m] = promise[m]
    <3>1. Granted(m)
      BY <1>0, <2>2 DEF Granted, BInv, BrokerTypeOK
    <3> QED
      BY <1>0, <2>2, <3>1 DEF BInv, GrantedIsHeld
  <2>3. CASE promise'[m] # promise[m]
    BY <1>0, <2>3
  <2> QED
    BY <2>1, <2>2, <2>3
<1> QED
  BY <1>1, <1>3, <1>4, <1>5, <1>6 DEF BInv

\* One round of close(): it unlocks a lock of the connection.
LEMMA CloseUnlocksInv ==
    ASSUME BInv, NEW l \in Lock, CloseUnlocks(l)
    PROVE  BInv'
<1>1. BrokerTypeOK' /\ ClosingIsClosed'
  BY DEF CloseUnlocks, BInv, BrokerTypeOK, ClosingIsClosed
<1> QED
  BY <1>1, UnlockKeepsBInv DEF CloseUnlocks

\* The Unlock message: unlock() of what is registered under its id.
LEMMA HandleUnlockInv ==
    ASSUME BInv, NEW l \in Lock, HandleUnlock(l)
    PROVE  BInv'
<1>1. BrokerTypeOK' /\ ClosingIsClosed'
  BY DEF HandleUnlock, BInv, BrokerTypeOK, ClosingIsClosed
<1>2. CASE l \in locks /\ locks' = locks \ {l} /\ unlock(l)
  BY <1>1, <1>2, UnlockKeepsBInv DEF HandleUnlock
<1>3. CASE l \notin locks /\ UNCHANGED <<locks, lockVars>>
  <2>1. UNCHANGED lockVars
    BY <1>3
  <2>2. IInv'
    BY <2>1, StepInv DEF BInv
  <2>3. /\ client' = [client EXCEPT ![l] = "none"]
        /\ UNCHANGED <<alive, open, owner, acq, closing, locks>>
        /\ UNCHANGED <<promise, holding, ttl, ttlTimeout>>
    BY <1>3, <2>1 DEF HandleUnlock, lockVars
  <2>4. AcqFirst' /\ HeldIsKept' /\ TtlAsked'
    BY <2>3 DEF BInv, AcqFirst, HeldIsKept, TtlAsked, BrokerTypeOK
  <2>5. GrantedIsHeld'
    BY <2>3 DEF BInv, GrantedIsHeld, Granted, BrokerTypeOK
  <2> QED
    BY <1>1, <2>2, <2>4, <2>5 DEF BInv
<1> QED
  BY <1>2, <1>3 DEF HandleUnlock

\* Steps that leave the process lock alone: connections, clients, .then().
LEMMA BookkeepingInv ==
    ASSUME BInv, UNCHANGED lockVars,
           \/ \E c \in Conn : Connect(c) \/ ClientDies(c) \/ Close(c)
           \/ \E l \in Lock : Then(l) \/ ClientReceives(l) \/ ClientUnlocks(l)
    PROVE  BInv'
<1>0. /\ UNCHANGED <<promise, holding, ttl, ttlTimeout>>
      /\ IInv'
      /\ TtlAsked'
  <2>1. IInv'
    BY StepInv DEF BInv
  <2> QED
    BY <2>1 DEF lockVars, BInv, TtlAsked
<1>1. ASSUME NEW c \in Conn, Connect(c)
      PROVE  BInv'
  <2>1. BrokerTypeOK' /\ ClosingIsClosed'
    BY <1>1 DEF Connect, Idle, BInv, BrokerTypeOK, ClosingIsClosed
  <2>2. AcqFirst' /\ HeldIsKept'
    BY <1>0, <1>1 DEF Connect, Unused, Fresh, Idle, BInv, BrokerTypeOK, AcqFirst, HeldIsKept
  <2>3. GrantedIsHeld'
    BY <1>0, <1>1 DEF Connect, Unused, BInv, BrokerTypeOK, GrantedIsHeld, Granted
  <2> QED
    BY <1>0, <2>1, <2>2, <2>3 DEF BInv
<1>2. ASSUME NEW c \in Conn, ClientDies(c)
      PROVE  BInv'
  <2>1. BrokerTypeOK' /\ ClosingIsClosed'
    BY <1>2 DEF ClientDies, BInv, BrokerTypeOK, ClosingIsClosed
  <2>2. AcqFirst' /\ HeldIsKept'
    BY <1>0, <1>2 DEF ClientDies, BInv, BrokerTypeOK, AcqFirst, HeldIsKept
  <2>3. GrantedIsHeld'
    BY <1>0, <1>2 DEF ClientDies, BInv, BrokerTypeOK, GrantedIsHeld, Granted
  <2> QED
    BY <1>0, <2>1, <2>2, <2>3 DEF BInv
<1>3. ASSUME NEW c \in Conn, Close(c)
      PROVE  BInv'
  <2>1. BrokerTypeOK' /\ ClosingIsClosed'
    BY <1>3 DEF Close, Idle, BInv, BrokerTypeOK, ClosingIsClosed
  <2>2. AcqFirst' /\ HeldIsKept'
    BY <1>0, <1>3 DEF Close, Idle, BInv, BrokerTypeOK, AcqFirst, HeldIsKept
  <2>3. GrantedIsHeld'
    BY <1>0, <1>3 DEF Close, BInv, BrokerTypeOK, GrantedIsHeld, Granted
  <2> QED
    BY <1>0, <2>1, <2>2, <2>3 DEF BInv
<1>4. ASSUME NEW l \in Lock, Then(l)
      PROVE  BInv'
  <2>1. BrokerTypeOK' /\ ClosingIsClosed'
    BY <1>4 DEF Then, BInv, BrokerTypeOK, ClosingIsClosed
  <2>2. AcqFirst'
    BY <1>0, <1>4 DEF Then, Ready, BInv, BrokerTypeOK, AcqFirst
  <2>3. HeldIsKept'
    BY <1>0, <1>4 DEF Then, BInv, HeldIsKept, IInv, RejectedHoldsNothing
  <2>4. GrantedIsHeld'
    <3>1. promise[l] # "rejected" => promise[l] \in {"none", "resolved"}
      BY <1>4 DEF Then, Ready, BInv, IInv, TypeOK
    <3> QED
      BY <1>0, <1>4, <3>1 DEF Then, Ready, BInv, BrokerTypeOK, GrantedIsHeld, Granted
  <2> QED
    BY <1>0, <2>1, <2>2, <2>3, <2>4 DEF BInv
<1>5. ASSUME NEW l \in Lock, ClientReceives(l) \/ ClientUnlocks(l)
      PROVE  BInv'
  <2>1. BrokerTypeOK' /\ ClosingIsClosed'
    BY <1>5 DEF ClientReceives, ClientUnlocks, BInv, BrokerTypeOK, ClosingIsClosed
  <2>2. AcqFirst' /\ HeldIsKept'
    BY <1>0, <1>5 DEF ClientReceives, ClientUnlocks, BInv, BrokerTypeOK, AcqFirst, HeldIsKept
  <2>3. GrantedIsHeld'
    BY <1>0, <1>5 DEF ClientReceives, ClientUnlocks, BInv, BrokerTypeOK, GrantedIsHeld, Granted
  <2> QED
    BY <1>0, <2>1, <2>2, <2>3 DEF BInv
<1> QED
  BY <1>1, <1>2, <1>3, <1>4, <1>5

\* Lock and TryLock messages: a new request, granted at once or pending.
LEMMA RequestInv ==
    ASSUME BInv, NEW c \in Conn, NEW l \in Lock, NEW i \in Id, NEW t \in Ttls,
           HandleTryLock(c, l, i, t) \/ \E o \in Timeouts : HandleLock(c, l, i, t, o)
    PROVE  BInv'
<1>1. /\ Unused(l) /\ closing = {}
      /\ owner' = [owner EXCEPT ![l] = c]
      /\ locks' = locks \ {l}
      /\ acq' = acq \cup {l}
      /\ UNCHANGED <<alive, open, closing, client>>
  BY DEF HandleTryLock, HandleLock, Idle
<1>2. TypeOK /\ t \in BOOLEAN
  BY OptionsAssumption DEF BInv, IInv
<1>3. /\ ttl' = [ttl EXCEPT ![l] = t]
      /\ \/ /\ promise' = [promise EXCEPT ![l] = "pending"]
            /\ UNCHANGED <<holding, ttlTimeout>>
         \/ /\ \E p \in {"none", "resolved"} : promise' = [promise EXCEPT ![l] = p]
            /\ holding' = [holding EXCEPT ![l] = TRUE]
            /\ ttlTimeout' = [ttlTimeout EXCEPT ![l] = t]
  BY DEF HandleTryLock, HandleLock, TryLock, AcquireFree, AcquireQueued
<1>4. Fresh(l) /\ l \notin acq /\ client[l] = "none"
  BY <1>1 DEF Unused
<1>5. IInv'
  <2>1. [Next]_lockVars
    BY DEF HandleTryLock, HandleLock, Next
  <2> QED
    BY <2>1, StepInv DEF BInv
<1>6. BrokerTypeOK' /\ ClosingIsClosed'
  BY <1>1 DEF BInv, BrokerTypeOK, ClosingIsClosed
<1>7. AcqFirst' /\ HeldIsKept'
  BY <1>1, <1>2, <1>3, <1>4 DEF BInv, BrokerTypeOK, TypeOK, AcqFirst, HeldIsKept
<1>8. TtlAsked'
  BY <1>2, <1>3, <1>4 DEF BInv, TypeOK, TtlAsked, Fresh
<1>9. GrantedIsHeld'
  <2> SUFFICES ASSUME NEW m \in Lock, Granted(m)'
               PROVE  holding'[m]
    BY DEF GrantedIsHeld
  <2>1. CASE m = l
    BY <1>1, <1>2, <1>3, <1>4, <2>1 DEF Granted, TypeOK
  <2>2. CASE m # l
    <3>1. Granted(m) /\ holding'[m] = holding[m]
      BY <1>1, <1>2, <1>3, <2>2 DEF Granted, BInv, BrokerTypeOK, TypeOK
    <3> QED
      BY <3>1 DEF BInv, GrantedIsHeld
  <2> QED
    BY <2>1, <2>2
<1> QED
  BY <1>5, <1>6, <1>7, <1>8, <1>9 DEF BInv

\* The timers: the ttl timer only ever ends a lock with a ttl.
LEMMA TimerInv ==
    ASSUME BInv, NEW l \in Lock, Timer(l)
    PROVE  BInv'
<1>0. UNCHANGED <<open, owner, locks, acq, closing, client>> /\ BrokerTypeOK'
  BY DEF Timer, connVars, BInv, BrokerTypeOK
<1>1. IInv'
  BY TimeoutFiresInv, UnlockInv DEF Timer, TtlFires, BInv
<1>2. ClosingIsClosed'
  BY <1>0 DEF BInv, ClosingIsClosed
<1>3. CASE TimeoutFires(l)
  <2>1. /\ promise' = [promise EXCEPT ![l] = IF @ = "pending" THEN "rejected" ELSE @]
        /\ UNCHANGED <<ttl, holding, ttlTimeout>>
    BY <1>3 DEF TimeoutFires, Settle
  <2>2. AcqFirst' /\ HeldIsKept' /\ TtlAsked'
    BY <1>0, <2>1 DEF BInv, IInv, TypeOK, AcqFirst, HeldIsKept, TtlAsked
  <2>3. GrantedIsHeld'
    BY <1>0, <2>1 DEF BInv, IInv, TypeOK, GrantedIsHeld, Granted
  <2> QED
    BY <1>0, <1>1, <1>2, <2>2, <2>3 DEF BInv
<1>4. CASE TtlFires(l)
  <2>0. /\ ttl' = ttl
        /\ \A m \in Lock : m # l /\ holding[m] => holding'[m]
        /\ \A m \in Lock : holding'[m] /\ ~holding[m] => promise[m] = "pending"
        /\ \A m \in Lock : promise'[m] # promise[m] =>
              promise[m] = "pending" /\ promise'[m] = "resolved" /\ holding'[m]
        /\ \A m \in Lock : ttlTimeout'[m] => ttl[m]
    BY <1>4, UnlockEffect DEF TtlFires, BInv
  <2>1. ttl[l]
    BY <1>4 DEF TtlFires, BInv, TtlAsked
  <2>2. AcqFirst' /\ HeldIsKept' /\ TtlAsked'
    BY <1>0, <2>0 DEF BInv, AcqFirst, HeldIsKept, TtlAsked
  <2>3. GrantedIsHeld'
    <3> SUFFICES ASSUME NEW m \in Lock, Granted(m)'
                 PROVE  holding'[m]
      BY DEF GrantedIsHeld
    <3>1. m # l
      BY <2>0, <2>1 DEF Granted
    <3>2. CASE promise'[m] = promise[m]
      BY <1>0, <2>0, <3>1, <3>2 DEF Granted, BInv, GrantedIsHeld
    <3>3. CASE promise'[m] # promise[m]
      BY <2>0, <3>3
    <3> QED
      BY <3>2, <3>3
  <2> QED
    BY <1>0, <1>1, <1>2, <2>2, <2>3 DEF BInv
<1> QED
  BY <1>3, <1>4 DEF Timer

\* One case for each handler, continuation and step of a client.
LEMMA BrokerStepInv == BInv /\ [BrokerNext]_brokerVars => BInv'
<1> SUFFICES ASSUME BInv, [BrokerNext]_brokerVars
             PROVE  BInv'
  OBVIOUS
<1>1. ASSUME NEW c \in Conn, Connect(c) \/ ClientDies(c) \/ Close(c)
      PROVE  BInv'
  <2>1. UNCHANGED lockVars
    BY <1>1 DEF Connect, ClientDies, Close
  <2> QED
    BY <1>1, <2>1, BookkeepingInv
<1>2. ASSUME NEW c \in Conn, NEW l \in Lock, NEW i \in Id, NEW t \in Ttls,
             HandleTryLock(c, l, i, t) \/ \E o \in Timeouts : HandleLock(c, l, i, t, o)
      PROVE  BInv'
  BY <1>2, RequestInv
<1>3. ASSUME NEW l \in Lock, Then(l) \/ ClientReceives(l) \/ ClientUnlocks(l)
      PROVE  BInv'
  <2>1. UNCHANGED lockVars
    BY <1>3 DEF Then, ClientReceives, ClientUnlocks
  <2> QED
    BY <1>3, <2>1, BookkeepingInv
<1>4. ASSUME NEW l \in Lock, CloseUnlocks(l) \/ HandleUnlock(l) \/ Timer(l)
      PROVE  BInv'
  BY <1>4, CloseUnlocksInv, HandleUnlockInv, TimerInv
<1>5. CASE UNCHANGED brokerVars
  <2>1. UNCHANGED <<lockVars, alive, open, owner, locks, acq, closing, client>>
    BY <1>5 DEF brokerVars, connVars
  <2>2. IInv'
    BY <2>1, StepInv DEF BInv
  <2>3. UNCHANGED <<promise, holding, ttl, ttlTimeout>>
    BY <2>1 DEF lockVars
  <2> QED
    BY <2>1, <2>2, <2>3 DEF BInv, BrokerTypeOK, AcqFirst, HeldIsKept, ClosingIsClosed, TtlAsked,
                            GrantedIsHeld, Granted
<1> QED
  BY <1>1, <1>2, <1>3, <1>4, <1>5 DEF BrokerNext

-----------------------------------------------------------------------------
\* The inductive invariant of the broker's locks.
THEOREM BrokerInvariance == BrokerSpec => []BInv
BY BrokerInitInv, BrokerStepInv, PTL DEF BrokerSpec

\* What connections and clients know of a lock request stays of its type,
\* whoever closes, dies or is handed the lock late.
THEOREM BrokerTypes == BrokerSpec => []BrokerTypeOK
<1>1. BInv => BrokerTypeOK
  BY DEF BInv
<1> QED
  BY <1>1, BrokerInvariance, PTL

\* The broker uses its ProcessLock objects only as ProcessLock allows: every
\* theorem about ProcessLock's Spec holds in the broker.
THEOREM BrokerUsesProcessLock == BrokerSpec => UsesProcessLock
<1>1. BrokerInit => Init
  BY DEF BrokerInit
<1> QED
  BY <1>1, BrokerInvariance, BrokerStepIsLockStep, PTL DEF BrokerSpec, UsesProcessLock, Spec

\* Hence no two requests, of whatever clients, hold the same name.
THEOREM BrokerExclusion == BrokerSpec => []MutualExclusion
BY BrokerUsesProcessLock, Exclusion, PTL DEF UsesProcessLock

\* Between two macrotasks every held lock can be reached by Unlock and close().
THEOREM Registered == BrokerSpec => []HeldIsRegistered
<1>1. BInv => HeldIsRegistered
  BY DEF BInv, HeldIsRegistered, HeldIsKept, Idle, Ready, IInv, PendingHoldsNothing
<1> QED
  BY <1>1, BrokerInvariance, PTL

\* A connected client that was told it has a lock without ttl has it.
THEOREM Kept == BrokerSpec => []HeldWhileConnected
<1>1. BInv => HeldWhileConnected
  BY DEF BInv, HeldWhileConnected, GrantedIsHeld, Granted
<1> QED
  BY <1>1, BrokerInvariance, PTL

\* A step in which a lock without ttl ends is its owner's Unlock, or the
\* close() of its owner's connection.
LEMMA EndingStep ==
    ASSUME BInv, [BrokerNext]_brokerVars, NEW l \in Lock, holding[l], ~holding'[l], ~ttl[l]
    PROVE  client[l] = "unlock" \/ owner[l] \notin open
<1>1. ASSUME NEW m \in Lock, unlock(m) PROVE m = l
  BY <1>1, UnlockEffect DEF BInv
<1>2. ASSUME NEW c \in Conn, Connect(c) \/ ClientDies(c) \/ Close(c) PROVE FALSE
  BY <1>2 DEF Connect, ClientDies, Close, lockVars
<1>3. ASSUME NEW c \in Conn, NEW m \in Lock, NEW i \in Id, NEW t \in Ttls,
             HandleTryLock(c, m, i, t) \/ \E o \in Timeouts : HandleLock(c, m, i, t, o)
      PROVE  FALSE
  BY <1>3 DEF HandleTryLock, HandleLock, TryLock, AcquireFree, AcquireQueued, BInv, IInv, TypeOK
<1>4. ASSUME NEW m \in Lock, Then(m) \/ ClientReceives(m) \/ ClientUnlocks(m) PROVE FALSE
  BY <1>4 DEF Then, ClientReceives, ClientUnlocks, lockVars
<1>5. ASSUME NEW m \in Lock, CloseUnlocks(m) PROVE owner[l] \notin open
  BY <1>1, <1>5 DEF CloseUnlocks, BInv, ClosingIsClosed
<1>6. ASSUME NEW m \in Lock, HandleUnlock(m) PROVE client[l] = "unlock"
  BY <1>1, <1>6 DEF HandleUnlock, lockVars
<1>7. ASSUME NEW m \in Lock, Timer(m) PROVE FALSE
  <2>1. CASE TtlFires(m)
    BY <1>1, <2>1 DEF TtlFires, BInv, TtlAsked
  <2>2. CASE TimeoutFires(m)
    BY <2>2 DEF TimeoutFires
  <2> QED
    BY <1>7, <2>1, <2>2 DEF Timer
<1>8. CASE UNCHANGED brokerVars
  BY <1>8 DEF brokerVars, lockVars
<1> QED
  BY <1>2, <1>3, <1>4, <1>5, <1>6, <1>7, <1>8 DEF BrokerNext

\* Nobody but its owner, or the end of its owner's connection, ends a lock
\* without ttl: a late Unlock never ends the lock of somebody else.
THEOREM OwnerEnds == BrokerSpec => EndsByOwnerOnly
<1>1. BInv /\ [BrokerNext]_brokerVars =>
          [\A l \in Lock : holding[l] /\ ~holding'[l] /\ ~ttl[l] =>
               client[l] = "unlock" \/ owner[l] \notin open]_brokerVars
  BY EndingStep
<1> QED
  BY <1>1, BrokerInvariance, PTL DEF BrokerSpec, EndsByOwnerOnly

\* What the broker has registered, and what clients believe, fits the lock.
THEOREM BrokerIsSafe == BrokerSpec => []BrokerSafe
BY BrokerTypes, Registered, Kept, PTL DEF BrokerSafe

-----------------------------------------------------------------------------
(* BrokerEntityFields                                                      *)

\* What the queues and the list of calls hold.
ToBrokerMsg == [type : {"publish", "unsubscribe", "all", "ack"}, fields : SUBSET Field, req : Requests]
ToClientMsg == [type : {"change", "reply"}, fields : SUBSET Field, req : Requests, all : BOOLEAN, exists : BOOLEAN]
Call == [fields : SUBSET Field, req : Requests \cup {<<>>}]

\* What a client sends is well-formed, and gone when its connection breaks; only
\* the two announcements have fields, and they are requests of the client.
Announces(m) == m.type \in {"publish", "unsubscribe"}
Upward ==
    /\ toBroker \in [Client -> Seq(ToBrokerMsg)]
    /\ \A c \in Client \ connections : toBroker[c] = <<>>
    /\ \A c \in Client : \A k \in DOMAIN toBroker[c] :
          /\ toBroker[c][k].fields # {} <=> Announces(toBroker[c][k])
          /\ toBroker[c][k].fields # {} => toBroker[c][k].req[1] = c

\* So is what the broker sends.
Downward ==
    /\ toClient \in [Client -> Seq(ToClientMsg)]
    /\ replies \in [Client -> Seq(ToClientMsg)]
    /\ \A c \in Client \ connections : toClient[c] = <<>>
    /\ \A c \in Client : \A k \in DOMAIN toClient[c] :
          toClient[c][k].type = "change" => toClient[c][k].exists

\* The count of a field is the number of calls that still have it, and there
\* are at most two requests for each call and one for getEntityFields().
Having(f) == {s \in Call : f \in s.fields}
TakenBack == {s \in Call : s.fields = {}}
CallsCounted ==
    /\ subs \in [Client -> Seq(Call)]
    /\ \A c \in Client : \A f \in Field : published[c][f] = HowMany(subs[c], Having(f))
    /\ \A c \in Client : requests[c] <= Len(subs[c]) + HowMany(subs[c], TakenBack)
                                             + (IF loaded[c] = "no" THEN 0 ELSE 1)

\* Along the queue q of a client its field f is announced and taken back in
\* turn: from what the broker has counted (first) to what the client has
\* (last), 0 or 1 each.
Adds(m) == IF m.type = "publish" THEN 1 ELSE 0
Turns(q, f, first, last) ==
    \E s \in [0 .. Len(q) -> {0, 1}] :
        /\ s[0] = first /\ s[Len(q)] = last
        /\ \A k \in DOMAIN q : IF f \in q[k].fields THEN s[k] = Adds(q[k]) /\ s[k - 1] = 1 - Adds(q[k])
                                                    ELSE s[k] = s[k - 1]

Announced(c, f) == IF published[c][f] > 0 THEN 1 ELSE 0
InTurn == \A c \in connections : \A f \in Field : Turns(toBroker[c], f, CountOf(c, f), Announced(c, f))

\* A connection leaves one count of a field behind at most.
FewLost == \A f \in Field : lost[f] <= Cardinality(Client \ connections)

FieldsInv == FieldsTypeOK /\ Upward /\ Downward /\ CallsCounted /\ InTurn /\ CountsAgree /\ FewLost

-----------------------------------------------------------------------------
(* KnownFresh                                                              *)

\* An answer from before the entity existed, which carries nothing.
Blank(m) == ~m.exists /\ m.fields = {}

\* Before the first announcement nobody knows of anything.
Unborn == ~exists =>
    /\ handlers = {} /\ \A f \in Field : fields[f] = 0
    /\ \A c \in Client : /\ known[c] = {}
                         /\ \A k \in DOMAIN toClient[c] : Blank(toClient[c][k])
                         /\ \A k \in DOMAIN replies[c] : Blank(replies[c][k])

\* What was answered before it comes before everything else.
BlankFirst == \A c \in connections :
    /\ \A k \in DOMAIN toClient[c] : ~toClient[c][k].exists =>
          /\ Blank(toClient[c][k]) /\ known[c] = {}
          /\ \A j \in 1 .. k : ~toClient[c][j].exists
          /\ \A j \in DOMAIN replies[c] : ~replies[c][j].exists
    /\ \A k \in DOMAIN replies[c] : ~replies[c][k].exists =>
          /\ Blank(replies[c][k])
          /\ \A j \in 1 .. k : ~replies[c][j].exists
    /\ c \notin stale /\ replies[c] # <<>> /\ ~replies[c][Len(replies[c])].exists => known[c] = {}

\* The last a client will hear are the fields of the broker; and, where no push
\* has overtaken an answer, the last it has heard.
Heard(c) == IF replies[c] # <<>> THEN replies[c][Len(replies[c])].fields = Present(fields)
            ELSE loaded[c] = "yes" => known[c] = Present(fields)
Latest(c) == IF toClient[c] # <<>> THEN toClient[c][Len(toClient[c])].fields = Present(fields)
             ELSE c \notin stale => Heard(c)
Newest == \A c \in connections : (\A r \in handlers : r[1] # c) => Latest(c)

FreshInv == FieldsInv /\ Unborn /\ BlankFirst /\ Newest
-----------------------------------------------------------------------------
\* A client announces a field it has not, takes back one it has, or sends
\* something else: the fields are still announced and taken back in turn.
LEMMA TurnsAppend ==
  ASSUME NEW q \in Seq(ToBrokerMsg), NEW m \in ToBrokerMsg, NEW f, NEW first, NEW last, NEW next \in {0, 1},
         Turns(q, f, first, last),
         IF f \in m.fields THEN next = Adds(m) /\ last = 1 - next ELSE next = last
  PROVE  Turns(Append(q, m), f, first, next)
<1> DEFINE r == Append(q, m)
<1>1. /\ DOMAIN q = 1 .. Len(q) /\ DOMAIN r = 1 .. Len(q) + 1 /\ Len(q) \in Nat /\ Len(r) = Len(q) + 1
      /\ \A k \in 1 .. Len(q) : r[k] = q[k]
      /\ r[Len(q) + 1] = m
  BY AppendProperties
<1>2. PICK s \in [0 .. Len(q) -> {0, 1}] :
         /\ s[0] = first /\ s[Len(q)] = last
         /\ \A k \in DOMAIN q : IF f \in q[k].fields THEN s[k] = Adds(q[k]) /\ s[k - 1] = 1 - Adds(q[k])
                                                     ELSE s[k] = s[k - 1]
  BY Zenon DEF Turns
<1> DEFINE t == [k \in 0 .. Len(q) + 1 |-> IF k = Len(q) + 1 THEN next ELSE s[k]]
<1>3. t \in [0 .. Len(q) + 1 -> {0, 1}]
  BY <1>1, <1>2
<1>4. t[0] = first /\ t[Len(q) + 1] = next /\ t[Len(q)] = last
  <2>1. 0 \in 0 .. Len(q) /\ Len(q) \in 0 .. Len(q)
    <3>1. Len(q) \in Nat
      BY <1>1
    <3> QED
      BY <3>1
  <2>2. /\ \A k \in 0 .. Len(q) : k # Len(q) + 1 /\ k \in 0 .. Len(q) + 1
        /\ Len(q) + 1 \in 0 .. Len(q) + 1
    BY <1>1
  <2> QED
    BY <1>2, <2>1, <2>2
<1>5. ASSUME NEW k \in 1 .. Len(q) + 1
      PROVE  IF f \in r[k].fields THEN t[k] = Adds(r[k]) /\ t[k - 1] = 1 - Adds(r[k]) ELSE t[k] = t[k - 1]
  <2>1. CASE k = Len(q) + 1
    <3>1. t[k] = next /\ t[k - 1] = last /\ r[k] = m
      <4>1. k - 1 = Len(q)
        BY <1>1, <2>1
      <4> HIDE DEF t
      <4> QED
        BY <1>1, <1>4, <2>1, <4>1
    <3> QED
      BY <3>1 DEF Adds
  <2>2. CASE k # Len(q) + 1
    <3>1. k \in DOMAIN q /\ t[k] = s[k] /\ t[k - 1] = s[k - 1] /\ r[k] = q[k]
      BY <1>1, <2>2
    <3> QED
      BY <1>2, <3>1
  <2> QED
    BY <2>1, <2>2
<1> HIDE DEF t, r
<1>6. Turns(r, f, first, next)
  BY <1>1, <1>3, <1>4, <1>5 DEF Turns
<1> QED
  BY <1>6 DEF r

\* The first message of a queue in turn fits what the broker has counted.
LEMMA TurnsTail ==
  ASSUME NEW q \in Seq(ToBrokerMsg), q # <<>>, NEW f, NEW first, NEW last,
         Turns(q, f, first, last)
  PROVE  /\ first \in {0, 1}
         /\ f \in q[1].fields => first = 1 - Adds(q[1]) /\ Turns(Tail(q), f, Adds(q[1]), last)
         /\ f \notin q[1].fields => Turns(Tail(q), f, first, last)
<1> DEFINE r == Tail(q)
<1>1. /\ DOMAIN q = 1 .. Len(q) /\ DOMAIN r = 1 .. Len(q) - 1 /\ Len(q) \in Nat \ {0} /\ Len(r) = Len(q) - 1
      /\ \A k \in 1 .. Len(q) - 1 : r[k] = q[k + 1]
  BY TailAt
<1>2. PICK s \in [0 .. Len(q) -> {0, 1}] :
         /\ s[0] = first /\ s[Len(q)] = last
         /\ \A k \in DOMAIN q : IF f \in q[k].fields THEN s[k] = Adds(q[k]) /\ s[k - 1] = 1 - Adds(q[k])
                                                     ELSE s[k] = s[k - 1]
  BY DEF Turns
<1> DEFINE t == [k \in 0 .. Len(q) - 1 |-> s[k + 1]]
<1>3. t \in [0 .. Len(q) - 1 -> {0, 1}]
  BY <1>1, <1>2
<1>4. t[0] = s[1] /\ t[Len(q) - 1] = last
  BY <1>1, <1>2
<1>5. ASSUME NEW k \in 1 .. Len(q) - 1
      PROVE  IF f \in r[k].fields THEN t[k] = Adds(r[k]) /\ t[k - 1] = 1 - Adds(r[k]) ELSE t[k] = t[k - 1]
  <2>1. k + 1 \in DOMAIN q /\ t[k] = s[k + 1] /\ t[k - 1] = s[k] /\ r[k] = q[k + 1] /\ (k + 1) - 1 = k
    BY <1>1
  <2> QED
    BY <1>2, <2>1
<1> HIDE DEF t, r
<1>6. Turns(r, f, s[1], last)
  BY <1>1, <1>3, <1>4, <1>5 DEF Turns
<1>7. 1 \in DOMAIN q /\ 1 - 1 = 0 /\ first \in {0, 1}
  BY <1>1, <1>2
<1>8. IF f \in q[1].fields THEN s[1] = Adds(q[1]) /\ first = 1 - Adds(q[1]) ELSE s[1] = first
  BY <1>2, <1>7
<1> QED
  BY <1>6, <1>7, <1>8 DEF r

\* Nothing on its way: the broker has counted what the client has.
LEMMA TurnsEmpty ==
  ASSUME NEW f, NEW n \in {0, 1}
  PROVE  Turns(<<>>, f, n, n)
<1>1. Len(<<>>) = 0 /\ DOMAIN <<>> = {}
  OBVIOUS
<1>2. [k \in 0 .. 0 |-> n] \in [0 .. 0 -> {0, 1}] /\ [k \in 0 .. 0 |-> n][0] = n
  OBVIOUS
<1> QED
  BY <1>1, <1>2 DEF Turns

\* What the broker has counted, by what the client has (last) and the queue.
Balance(q, f, last) == last - OnItsWay(q, "publish", f) + OnItsWay(q, "unsubscribe", f)
InStep(q, f, last) == Turns(q, f, Balance(q, f, last), last)

OfType(type, f) == {m \in ToBrokerMsg : m.type = type /\ f \in m.fields}

\* What is on its way is a count of items of the queue ...
LEMMA OnItsWayIs ==
  ASSUME NEW q \in Seq(ToBrokerMsg), NEW type, NEW f
  PROVE  OnItsWay(q, type, f) = HowMany(q, OfType(type, f))
<1>1. \A k \in DOMAIN q : q[k] \in ToBrokerMsg
  BY LenProperties
<1>2. {k \in DOMAIN q : q[k].type = type /\ f \in q[k].fields} = {k \in DOMAIN q : q[k] \in OfType(type, f)}
  BY <1>1 DEF OfType
<1> QED
  BY <1>2 DEF OnItsWay, HowMany

\* ... one more by what is sent ...
LEMMA OnItsWayAppend ==
  ASSUME NEW q \in Seq(ToBrokerMsg), NEW m \in ToBrokerMsg, NEW type, NEW f
  PROVE  /\ OnItsWay(q, type, f) \in Nat
         /\ OnItsWay(Append(q, m), type, f)
                = OnItsWay(q, type, f) + (IF m.type = type /\ f \in m.fields THEN 1 ELSE 0)
<1>1. Append(q, m) \in Seq(ToBrokerMsg)
  BY AppendProperties
<1>2. OnItsWay(q, type, f) = HowMany(q, OfType(type, f))
  BY OnItsWayIs
<1>3. OnItsWay(Append(q, m), type, f) = HowMany(Append(q, m), OfType(type, f))
  BY <1>1, OnItsWayIs
<1>4. HowMany(Append(q, m), OfType(type, f))
         = HowMany(q, OfType(type, f)) + (IF m \in OfType(type, f) THEN 1 ELSE 0)
  BY HowManyAppend
<1>5. m \in OfType(type, f) <=> m.type = type /\ f \in m.fields
  BY DEF OfType
<1>6. HowMany(q, OfType(type, f)) \in Nat
  BY HowManyBounds
<1> QED
  BY <1>2, <1>3, <1>4, <1>5, <1>6

\* ... and one less by what is handled.
LEMMA OnItsWayTail ==
  ASSUME NEW q \in Seq(ToBrokerMsg), q # <<>>, NEW type, NEW f
  PROVE  /\ OnItsWay(Tail(q), type, f) \in Nat
         /\ OnItsWay(q, type, f)
                = OnItsWay(Tail(q), type, f) + (IF q[1].type = type /\ f \in q[1].fields THEN 1 ELSE 0)
<1>1. Tail(q) \in Seq(ToBrokerMsg) /\ q[1] \in ToBrokerMsg
  BY TailAt
<1>2. OnItsWay(q, type, f) = HowMany(q, OfType(type, f))
  BY OnItsWayIs
<1>3. OnItsWay(Tail(q), type, f) = HowMany(Tail(q), OfType(type, f))
  BY <1>1, OnItsWayIs
<1>4. HowMany(q, OfType(type, f))
         = HowMany(Tail(q), OfType(type, f)) + (IF q[1] \in OfType(type, f) THEN 1 ELSE 0)
  BY HowManyTail
<1>5. q[1] \in OfType(type, f) <=> q[1].type = type /\ f \in q[1].fields
  BY <1>1 DEF OfType
<1>6. HowMany(Tail(q), OfType(type, f)) \in Nat
  BY <1>1, HowManyBounds
<1> QED
  BY <1>2, <1>3, <1>4, <1>5, <1>6

\* A client that sends m changes what it has by it, not what the broker has counted.
LEMMA SentInStep ==
  ASSUME NEW q \in Seq(ToBrokerMsg), NEW m \in ToBrokerMsg, NEW f, NEW last \in {0, 1}, NEW next \in {0, 1},
         InStep(q, f, last), f \in m.fields => Announces(m),
         IF f \in m.fields THEN next = Adds(m) /\ last = 1 - next ELSE next = last
  PROVE  Balance(Append(q, m), f, next) = Balance(q, f, last) /\ InStep(Append(q, m), f, next)
<1>1. Turns(Append(q, m), f, Balance(q, f, last), next)
  BY TurnsAppend DEF InStep
<1>2. /\ OnItsWay(q, "publish", f) \in Nat
      /\ OnItsWay(q, "unsubscribe", f) \in Nat
      /\ OnItsWay(Append(q, m), "publish", f)
                = OnItsWay(q, "publish", f) + (IF m.type = "publish" /\ f \in m.fields THEN 1 ELSE 0)
      /\ OnItsWay(Append(q, m), "unsubscribe", f)
                = OnItsWay(q, "unsubscribe", f) + (IF m.type = "unsubscribe" /\ f \in m.fields THEN 1 ELSE 0)
  BY OnItsWayAppend
<1>3. Balance(Append(q, m), f, next) = Balance(q, f, last)
  <2>1. CASE f \notin m.fields
    BY <1>2, <2>1 DEF Balance
  <2>2. CASE f \in m.fields /\ m.type = "publish"
    BY <1>2, <2>2 DEF Balance, Adds
  <2>3. CASE f \in m.fields /\ m.type = "unsubscribe"
    BY <1>2, <2>3 DEF Balance, Adds
  <2> QED
    BY <2>1, <2>2, <2>3 DEF Announces
<1> QED
  BY <1>1, <1>3 DEF InStep

\* The broker that handles the first message changes what it has counted by it.
LEMMA HandledInStep ==
  ASSUME NEW q \in Seq(ToBrokerMsg), q # <<>>, NEW f, NEW last \in {0, 1},
         InStep(q, f, last), f \in q[1].fields => Announces(q[1])
  PROVE  /\ InStep(Tail(q), f, last)
         /\ Balance(q, f, last) \in {0, 1}
         /\ IF f \in q[1].fields
            THEN Balance(q, f, last) = 1 - Adds(q[1]) /\ Balance(Tail(q), f, last) = Adds(q[1])
            ELSE Balance(Tail(q), f, last) = Balance(q, f, last)
<1>1. /\ Balance(q, f, last) \in {0, 1}
      /\ f \in q[1].fields => Balance(q, f, last) = 1 - Adds(q[1]) /\ Turns(Tail(q), f, Adds(q[1]), last)
      /\ f \notin q[1].fields => Turns(Tail(q), f, Balance(q, f, last), last)
  BY TurnsTail DEF InStep
<1>2. /\ OnItsWay(Tail(q), "publish", f) \in Nat
      /\ OnItsWay(Tail(q), "unsubscribe", f) \in Nat
      /\ OnItsWay(q, "publish", f)
                = OnItsWay(Tail(q), "publish", f) + (IF q[1].type = "publish" /\ f \in q[1].fields THEN 1 ELSE 0)
      /\ OnItsWay(q, "unsubscribe", f)
                = OnItsWay(Tail(q), "unsubscribe", f) + (IF q[1].type = "unsubscribe" /\ f \in q[1].fields THEN 1 ELSE 0)
  BY OnItsWayTail
<1>3. CASE f \notin q[1].fields
  <2>1. Balance(Tail(q), f, last) = Balance(q, f, last)
    BY <1>2, <1>3 DEF Balance
  <2> QED
    BY <1>1, <1>3, <2>1 DEF InStep
<1>4. CASE f \in q[1].fields
  <2>1. Balance(Tail(q), f, last) = Adds(q[1])
    <3>1. CASE q[1].type = "publish"
      BY <1>1, <1>2, <1>4, <3>1 DEF Balance, Adds
    <3>2. CASE q[1].type = "unsubscribe"
      BY <1>1, <1>2, <1>4, <3>2 DEF Balance, Adds
    <3> QED
      BY <1>4, <3>1, <3>2 DEF Announces
  <2> QED
    BY <1>1, <1>4, <2>1 DEF InStep
<1> QED
  BY <1>3, <1>4

\* How the client and the broker stand with field f.
LEMMA Standing ==
  ASSUME FieldsInv, NEW c \in connections, NEW f \in Field
  PROVE  /\ Announced(c, f) \in {0, 1}
         /\ InStep(toBroker[c], f, Announced(c, f))
         /\ CountOf(c, f) = Balance(toBroker[c], f, Announced(c, f))
<1>1. CountOf(c, f) = Balance(toBroker[c], f, Announced(c, f))
  BY DEF CountOf, Balance, Announced
<1>2. Turns(toBroker[c], f, CountOf(c, f), Announced(c, f))
  BY DEF FieldsInv, InTurn
<1> QED
  BY <1>1, <1>2 DEF InStep, Announced

\* A step that leaves the counts of the clients as they are.
LEMMA CountsStay ==
  ASSUME FieldsInv, UNCHANGED <<fields, lost, connections>>,
         \A c \in connections : \A f \in Field : /\ InStep(toBroker'[c], f, Announced(c, f)')
                                                /\ CountOf(c, f)' = CountOf(c, f)
  PROVE  InTurn' /\ CountsAgree' /\ FewLost'
<1>1. ASSUME NEW f \in Field
      PROVE  {c \in connections' : CountOf(c, f)' = 1} = {c \in connections : CountOf(c, f) = 1}
  OBVIOUS
<1>2. CountsAgree'
  <2> SUFFICES ASSUME NEW f \in Field
               PROVE  /\ \A c \in connections' : CountOf(c, f)' \in {0, 1}
                      /\ fields'[f] = lost'[f] + Cardinality({c \in connections' : CountOf(c, f)' = 1})
    BY DEF CountsAgree
  <2>1. /\ \A c \in connections : CountOf(c, f) \in {0, 1}
        /\ fields[f] = lost[f] + Cardinality({c \in connections : CountOf(c, f) = 1})
    BY DEF FieldsInv, CountsAgree
  <2> QED
    BY <1>1, <2>1
<1>3. FewLost'
  BY DEF FieldsInv, FewLost
<1>4. InTurn'
  <2> SUFFICES ASSUME NEW c \in connections, NEW f \in Field
               PROVE  Turns(toBroker'[c], f, CountOf(c, f)', Announced(c, f)')
    BY DEF InTurn
  <2>1. CountOf(c, f)' = Balance(toBroker'[c], f, Announced(c, f)')
    BY DEF CountOf, Balance, Announced
  <2> QED
    BY <2>1 DEF InStep
<1> QED
  BY <1>2, <1>3, <1>4

\* A step that changes neither the queue to the broker nor what a client has.
LEMMA CountsUntouched ==
  ASSUME FieldsInv, UNCHANGED <<fields, lost, connections, toBroker>>,
         \A c \in connections : \A f \in Field : Announced(c, f)' = Announced(c, f)
  PROVE  InTurn' /\ CountsAgree' /\ FewLost' /\ Upward'
<1>1. ASSUME NEW c \in connections, NEW f \in Field
      PROVE  InStep(toBroker'[c], f, Announced(c, f)') /\ CountOf(c, f)' = CountOf(c, f)
  <2>1. CountOf(c, f)' = Balance(toBroker'[c], f, Announced(c, f)')
    BY DEF CountOf, Balance, Announced
  <2> QED
    BY <2>1, Standing
<1>2. Upward'
  BY DEF FieldsInv, Upward
<1> QED
  BY <1>1, <1>2, CountsStay

\* Client c sends message m.
LEMMA Sends ==
  ASSUME FieldsInv, UNCHANGED <<fields, lost, connections>>,
         NEW c \in connections, NEW m \in ToBrokerMsg, toBroker' = [toBroker EXCEPT ![c] = Append(@, m)],
         m.fields # {} <=> Announces(m), m.fields # {} => m.req[1] = c,
         \A d \in connections \ {c} : \A f \in Field : Announced(d, f)' = Announced(d, f),
         \A f \in Field : IF f \in m.fields THEN Announced(c, f)' = Adds(m) /\ Announced(c, f) = 1 - Adds(m)
                                            ELSE Announced(c, f)' = Announced(c, f)
  PROVE  InTurn' /\ CountsAgree' /\ FewLost' /\ Upward'
<1>0. c \in Client /\ toBroker \in [Client -> Seq(ToBrokerMsg)]
  BY DEF FieldsInv, FieldsTypeOK, Upward
<1> PICK q \in Seq(ToBrokerMsg) : q = toBroker[c]
  BY <1>0
<1>1. toBroker'[c] = Append(q, m) /\ \A d \in Client \ {c} : toBroker'[d] = toBroker[d]
  BY <1>0
<1>2. ASSUME NEW d \in connections, NEW f \in Field
      PROVE  InStep(toBroker'[d], f, Announced(d, f)') /\ CountOf(d, f)' = CountOf(d, f)
  <2>1. CountOf(d, f)' = Balance(toBroker'[d], f, Announced(d, f)')
    BY DEF CountOf, Balance, Announced
  <2>2. CASE d # c
    <3>1. toBroker'[d] = toBroker[d] /\ Announced(d, f)' = Announced(d, f)
      BY <1>1, <2>2 DEF FieldsInv, FieldsTypeOK
    <3> QED
      BY <2>1, <3>1, Standing
  <2>3. CASE d = c
    <3>1. PICK last \in {0, 1}, next \in {0, 1} : last = Announced(c, f) /\ next = Announced(c, f)'
      BY DEF Announced
    <3>2. InStep(q, f, last) /\ CountOf(c, f) = Balance(q, f, last)
      BY <3>1, Standing
    <3>3. IF f \in m.fields THEN next = Adds(m) /\ last = 1 - next ELSE next = last
      BY <3>1
    <3>4. f \in m.fields => Announces(m)
      OBVIOUS
    <3>5. Balance(Append(q, m), f, next) = Balance(q, f, last) /\ InStep(Append(q, m), f, next)
      BY <3>2, <3>3, <3>4, SentInStep
    <3> QED
      BY <1>1, <2>1, <2>3, <3>1, <3>2, <3>5
  <2> QED
    BY <2>2, <2>3
<1>3. Upward'
  <2>1. /\ DOMAIN q = 1 .. Len(q) /\ DOMAIN Append(q, m) = 1 .. Len(q) + 1 /\ Len(q) \in Nat
        /\ Append(q, m) \in Seq(ToBrokerMsg)
        /\ \A k \in 1 .. Len(q) : Append(q, m)[k] = q[k]
        /\ Append(q, m)[Len(q) + 1] = m
    BY AppendProperties
  <2>2. toBroker' \in [Client -> Seq(ToBrokerMsg)]
    BY <1>0, <2>1
  <2>3. \A d \in Client \ connections' : toBroker'[d] = <<>>
    BY <1>1 DEF FieldsInv, Upward
  <2>4. ASSUME NEW d \in Client, NEW k \in DOMAIN toBroker'[d]
        PROVE  /\ toBroker'[d][k].fields # {} <=> Announces(toBroker'[d][k])
               /\ toBroker'[d][k].fields # {} => toBroker'[d][k].req[1] = d
    <3>1. CASE d # c \/ (d = c /\ k # Len(q) + 1)
      <4>1. k \in DOMAIN toBroker[d] /\ toBroker'[d][k] = toBroker[d][k]
        BY <1>1, <2>1, <2>4, <3>1
      <4> QED
        BY <4>1 DEF FieldsInv, Upward
    <3>2. CASE d = c /\ k = Len(q) + 1
      BY <1>1, <2>1, <3>2
    <3> QED
      BY <3>1, <3>2
  <2> QED
    BY <2>2, <2>3, <2>4 DEF Upward
<1> QED
  BY <1>2, <1>3, CountsStay

\* The bound on all calls bounds those of each client.
LEMMA CallsFit ==
  ASSUME FieldsTypeOK, NEW c \in Client, subs[c] \in Seq(Call)
  PROVE  Cardinality(Calls) \in Nat /\ Len(subs[c]) <= Cardinality(Calls)
<1> DEFINE D == 1 .. Len(subs[c])
           g == [k \in D |-> <<c, k>>]
<1>1. Len(subs[c]) \in 0 .. MaxCalls /\ DOMAIN subs[c] = D /\ MaxCalls \in Nat
  BY BoundsAssumption, LenProperties DEF FieldsTypeOK
<1>2. IsFiniteSet(Client \X (1 .. MaxCalls))
  <2>1. IsFiniteSet(1 .. MaxCalls)
    BY <1>1, FS_Interval
  <2> QED
    BY <2>1, BoundsAssumption, FS_Product
<1>3. Calls \in SUBSET (Client \X (1 .. MaxCalls))
  BY DEF Calls
<1>4. IsFiniteSet(Calls)
  BY <1>2, <1>3, FS_Subset
<1>5. g \in Injection(D, Calls)
  <2>1. \A k \in D : <<c, k>> \in Calls
    BY <1>1 DEF Calls
  <2> QED
    BY <2>1 DEF Injection, IsInjective
<1>6. Cardinality(D) <= Cardinality(Calls)
  BY <1>4, <1>5, FS_Injection
<1>7. Cardinality(D) = Len(subs[c])
  BY <1>1, FS_Interval
<1>8. Cardinality(Calls) \in Nat
  BY <1>4, FS_CardinalityType
<1> QED
  BY <1>6, <1>7, <1>8

\* What the calls of a client make of its counts and its requests.
LEMMA CallsBound ==
  ASSUME NEW s \in Seq(Call), NEW f
  PROVE  /\ Len(s) \in Nat
         /\ HowMany(s, Having(f)) \in 0 .. Len(s)
         /\ HowMany(s, TakenBack) \in 0 .. Len(s)
         /\ \A k \in DOMAIN s : f \in s[k].fields => HowMany(s, Having(f)) >= 1
<1>1. \A k \in DOMAIN s : s[k] \in Call
  BY LenProperties
<1>2. \A k \in DOMAIN s : f \in s[k].fields => s[k] \in Having(f)
  BY <1>1 DEF Having
<1>3. /\ HowMany(s, Having(f)) \in Nat /\ Len(s) \in Nat /\ HowMany(s, Having(f)) <= Len(s)
      /\ \A k \in DOMAIN s : s[k] \in Having(f) => HowMany(s, Having(f)) >= 1
  BY HowManyBounds
<1>4. HowMany(s, TakenBack) \in Nat /\ HowMany(s, TakenBack) <= Len(s)
  BY HowManyBounds
<1> QED
  BY <1>2, <1>3, <1>4

\* The types of what changes when client c makes or takes back a call.
LEMMA CallStep ==
  ASSUME FieldsInv, NEW c \in Client, UNCHANGED loaded,
         subs' \in [Client -> Seq(Call)], published' \in [Client -> [Field -> Int]], requests' \in [Client -> Nat],
         \A d \in Client \ {c} : /\ subs'[d] = subs[d]
                                /\ published'[d] = published[d]
                                /\ requests'[d] = requests[d],
         Len(subs'[c]) <= MaxCalls,
         \A f \in Field : published'[c][f] = HowMany(subs'[c], Having(f)),
         requests'[c] <= Len(subs'[c]) + HowMany(subs'[c], TakenBack) + (IF loaded[c] = "no" THEN 0 ELSE 1)
  PROVE  /\ CallsCounted'
         /\ published' \in [Client -> [Field -> 0 .. MaxCalls]]
         /\ \A d \in Client : Len(subs'[d]) \in 0 .. MaxCalls
         /\ requests' \in [Client -> 0 .. 2 * MaxCalls + 1]
<1>1. FieldsTypeOK /\ CallsCounted /\ MaxCalls \in Nat
  BY BoundsAssumption DEF FieldsInv
<1>2. CallsCounted'
  <2>1. ASSUME NEW d \in Client
        PROVE  /\ \A f \in Field : published'[d][f] = HowMany(subs'[d], Having(f))
               /\ requests'[d] <= Len(subs'[d]) + HowMany(subs'[d], TakenBack) + (IF loaded'[d] = "no" THEN 0 ELSE 1)
    <3>1. CASE d = c
      BY <3>1
    <3>2. CASE d # c
      BY <1>1, <3>2 DEF CallsCounted
    <3> QED
      BY <3>1, <3>2
  <2> QED
    BY <2>1 DEF CallsCounted
<1>3. ASSUME NEW d \in Client
      PROVE  Len(subs'[d]) \in 0 .. MaxCalls
  <2>1. Len(subs'[d]) \in Nat
    BY LenProperties
  <2>2. CASE d = c
    BY <1>1, <2>1, <2>2
  <2>3. CASE d # c
    BY <1>1, <2>3 DEF FieldsTypeOK
  <2> QED
    BY <2>2, <2>3
<1>4. ASSUME NEW d \in Client
      PROVE  /\ published'[d] \in [Field -> 0 .. MaxCalls]
             /\ requests'[d] \in 0 .. 2 * MaxCalls + 1
  <2> PICK r \in Seq(Call) : r = subs'[d]
    OBVIOUS
  <2>1. /\ Len(r) \in Nat /\ Len(r) <= MaxCalls
        /\ HowMany(r, TakenBack) \in Nat /\ HowMany(r, TakenBack) <= Len(r)
    <3>1. HowMany(r, TakenBack) \in Nat /\ HowMany(r, TakenBack) <= Len(r)
      BY HowManyBounds
    <3> QED
      BY <1>1, <1>3, <3>1
  <2>2. ASSUME NEW f \in Field
        PROVE  published'[d][f] \in 0 .. MaxCalls
    <3>1. HowMany(r, Having(f)) \in 0 .. Len(r)
      BY CallsBound
    <3>2. published'[d][f] = HowMany(r, Having(f))
      BY <1>2 DEF CallsCounted
    <3> QED
      BY <1>1, <2>1, <3>1, <3>2
  <2>3. published'[d] \in [Field -> 0 .. MaxCalls]
    BY <2>2
  <2> PICK once \in {0, 1} : once = IF loaded'[d] = "no" THEN 0 ELSE 1
    OBVIOUS
  <2>4. requests'[d] <= Len(r) + HowMany(r, TakenBack) + once /\ requests'[d] \in Nat
    BY <1>2 DEF CallsCounted
  <2> QED
    BY <1>1, <2>1, <2>3, <2>4
<1> QED
  BY <1>2, <1>3, <1>4

\* The two loops of publishEntityFields() and its unsubscribe(), field by field.
LEMMA AddAt ==
  ASSUME NEW m, NEW fs, NEW d, NEW f \in Field
  PROVE  Add(m, fs, d)[f] = IF f \in fs THEN m[f] + d ELSE m[f]
BY DEF Add

\* publishEntityFields(): what goes out are the fields the client did not have.
LEMMA PublishInv ==
  ASSUME FieldsInv, NEW c \in Client, NEW fs \in (SUBSET Field) \ {{}}, Publish(c, fs)
  PROVE  FieldsInv'
<1> PICK new \in SUBSET Field : new = {f \in fs : published[c][f] = 0}
  OBVIOUS
<1> PICK e : e = [fields |-> fs, req |-> IF new # {} THEN NextRequest(c) ELSE <<>>]
  OBVIOUS
<1> PICK m : m = [type |-> "publish", fields |-> new, req |-> NextRequest(c)]
  OBVIOUS
<1>1. /\ c \in connections /\ Cardinality(Calls) < MaxCalls
      /\ published' = [published EXCEPT ![c] = Add(published[c], fs, 1)]
      /\ subs' = [subs EXCEPT ![c] = Append(subs[c], e)]
      /\ UNCHANGED <<fields, exists, handlers, unacked, connections, toClient, loaded, replies, known, lost, stale>>
  BY DEF Publish, stateVars
<1>2. IF new # {}
      THEN /\ toBroker' = [toBroker EXCEPT ![c] = Append(toBroker[c], m)]
           /\ requests' = [requests EXCEPT ![c] = requests[c] + 1]
           /\ unanswered' = unanswered \cup {NextRequest(c)}
      ELSE UNCHANGED <<toBroker, requests, unanswered>>
  BY DEF Publish, Send
<1>3. /\ FieldsTypeOK /\ CallsCounted /\ MaxCalls \in Nat
      /\ subs[c] \in Seq(Call) /\ requests[c] \in Nat /\ published[c] \in [Field -> Nat]
  BY BoundsAssumption DEF FieldsInv, CallsCounted, FieldsTypeOK
<1>4. Len(subs[c]) \in Nat /\ Len(subs[c]) + 1 <= MaxCalls /\ HowMany(subs[c], TakenBack) \in 0 .. Len(subs[c])
  <2>1. Cardinality(Calls) \in Nat /\ Len(subs[c]) <= Cardinality(Calls)
    BY <1>3, CallsFit
  <2>2. /\ Len(subs[c]) \in Nat
        /\ HowMany(subs[c], TakenBack) \in Nat /\ HowMany(subs[c], TakenBack) <= Len(subs[c])
    BY <1>3, HowManyBounds
  <2> QED
    BY <1>1, <1>3, <2>1, <2>2
<1>5. requests[c] <= Len(subs[c]) + HowMany(subs[c], TakenBack) + (IF loaded[c] = "no" THEN 0 ELSE 1)
  BY <1>3 DEF CallsCounted
<1>6. NextRequest(c) \in Requests
  <2>1. requests[c] + 1 \in 1 .. 2 * MaxCalls + 1
    BY <1>3, <1>4, <1>5
  <2> QED
    BY <2>1 DEF NextRequest, Requests
<1>7. e \in Call /\ m \in ToBrokerMsg
  BY <1>6 DEF Call, ToBrokerMsg
<1> PICK r \in Seq(Call) : r = Append(subs[c], e)
  BY <1>3, <1>7, AppendProperties
<1>8. /\ Len(r) = Len(subs[c]) + 1
      /\ \A f : HowMany(r, Having(f)) = HowMany(subs[c], Having(f)) + (IF f \in fs THEN 1 ELSE 0)
      /\ HowMany(r, TakenBack) = HowMany(subs[c], TakenBack)
  <2>1. Len(r) = Len(subs[c]) + 1
    BY <1>3, <1>7, AppendProperties
  <2>2. ASSUME NEW f
        PROVE  HowMany(r, Having(f)) = HowMany(subs[c], Having(f)) + (IF f \in fs THEN 1 ELSE 0)
    <3>1. HowMany(r, Having(f)) = HowMany(subs[c], Having(f)) + (IF e \in Having(f) THEN 1 ELSE 0)
      BY <1>3, <1>7, HowManyAppend
    <3>2. e \in Having(f) <=> f \in fs
      BY <1>7 DEF Having
    <3> QED
      BY <3>1, <3>2
  <2>3. HowMany(r, TakenBack) = HowMany(subs[c], TakenBack) + (IF e \in TakenBack THEN 1 ELSE 0)
    BY <1>3, <1>7, HowManyAppend
  <2>4. e \notin TakenBack
    <3>1. e.fields = fs
      OBVIOUS
    <3>2. fs # {}
      BY Zenon
    <3> QED
      BY <3>1, <3>2 DEF TakenBack
  <2> QED
    BY <1>4, <2>1, <2>2, <2>3, <2>4
<1> PICK n \in Nat : n = IF new # {} THEN requests[c] + 1 ELSE requests[c]
  BY <1>3
<1> PICK p \in [Field -> Int] : p = Add(published[c], fs, 1)
  <2>1. Add(published[c], fs, 1) \in [Field -> Int]
    BY <1>3 DEF Add
  <2> QED
    BY <2>1
<1>9. /\ CallsCounted'
      /\ published' \in [Client -> [Field -> 0 .. MaxCalls]]
      /\ \A d \in Client : Len(subs'[d]) \in 0 .. MaxCalls
      /\ requests' \in [Client -> 0 .. 2 * MaxCalls + 1]
  <2>1. ASSUME NEW f \in Field
        PROVE  p[f] = HowMany(r, Having(f))
    <3>1. p[f] = IF f \in fs THEN published[c][f] + 1 ELSE published[c][f]
      BY AddAt
    <3>2. published[c][f] = HowMany(subs[c], Having(f)) /\ published[c][f] \in Nat
      BY <1>3 DEF CallsCounted
    <3>3. HowMany(r, Having(f)) = HowMany(subs[c], Having(f)) + (IF f \in fs THEN 1 ELSE 0)
      BY <1>8
    <3> QED
      BY <3>1, <3>2, <3>3
  <2>2. requests' = [requests EXCEPT ![c] = n]
    BY <1>2, <1>3 DEF FieldsTypeOK
  <2>3. n <= Len(r) + HowMany(r, TakenBack) + (IF loaded[c] = "no" THEN 0 ELSE 1)
    <3>1. HowMany(subs[c], TakenBack) \in Nat /\ Len(r) \in Nat /\ HowMany(r, TakenBack) \in Nat
      BY <1>4, <1>8
    <3>2. n <= requests[c] + 1 /\ requests[c] \in Nat
      BY <1>3
    <3>3. PICK once \in {0, 1} : once = IF loaded[c] = "no" THEN 0 ELSE 1
      OBVIOUS
    <3>4. requests[c] <= Len(subs[c]) + HowMany(subs[c], TakenBack) + once
      BY <1>5, <3>3
    <3>5. n <= Len(r) + HowMany(r, TakenBack) + once
      BY <1>4, <1>8, <3>1, <3>2, <3>4
    <3> QED
      BY <3>3, <3>5
  <2>4. Len(r) <= MaxCalls
    BY <1>4, <1>8
  <2>5. /\ subs' \in [Client -> Seq(Call)] /\ published' \in [Client -> [Field -> Int]] /\ requests' \in [Client -> Nat]
        /\ subs'[c] = r /\ published'[c] = p /\ requests'[c] = n /\ UNCHANGED loaded
        /\ \A d \in Client \ {c} : subs'[d] = subs[d] /\ published'[d] = published[d] /\ requests'[d] = requests[d]
    BY <1>1, <1>3, <2>2 DEF FieldsTypeOK, CallsCounted
  <2> QED
    BY <2>1, <2>3, <2>4, <2>5, CallStep
<1>10. /\ \A d \in connections \ {c} : \A f \in Field : Announced(d, f)' = Announced(d, f)
       /\ \A f \in Field : IF f \in new THEN Announced(c, f)' = 1 /\ Announced(c, f) = 0
                                        ELSE Announced(c, f)' = Announced(c, f)
  <2>1. \A d \in connections \ {c} : published'[d] = published[d]
    BY <1>1, <1>3 DEF FieldsTypeOK
  <2>2. ASSUME NEW f \in Field
        PROVE  published'[c][f] = IF f \in fs THEN published[c][f] + 1 ELSE published[c][f]
    BY <1>1, <1>3, AddAt DEF FieldsTypeOK
  <2>3. ASSUME NEW f \in Field
        PROVE  published[c][f] \in Nat /\ (f \in new <=> f \in fs /\ published[c][f] = 0)
    BY <1>3
  <2>4. ASSUME NEW f \in Field
        PROVE  IF f \in new THEN Announced(c, f)' = 1 /\ Announced(c, f) = 0 ELSE Announced(c, f)' = Announced(c, f)
    BY <2>2, <2>3 DEF Announced
  <2> QED
    BY <2>1, <2>4 DEF Announced
<1>11. InTurn' /\ CountsAgree' /\ FewLost' /\ Upward'
  <2>1. CASE new = {}
    <3>1. \A d \in connections : \A f \in Field : Announced(d, f)' = Announced(d, f)
      BY <1>10, <2>1
    <3> QED
      BY <1>1, <1>2, <2>1, <3>1, CountsUntouched
  <2>2. CASE new # {}
    <3>1. Announces(m) /\ m.fields = new /\ m.req[1] = c /\ Adds(m) = 1
      BY DEF Announces, Adds, NextRequest
    <3>2. \A f \in Field : IF f \in m.fields THEN Announced(c, f)' = Adds(m) /\ Announced(c, f) = 1 - Adds(m)
                                             ELSE Announced(c, f)' = Announced(c, f)
      BY <1>10, <3>1
    <3> QED
      BY <1>1, <1>2, <1>7, <1>10, <2>2, <3>1, <3>2, Sends
  <2> QED
    BY <2>1, <2>2
<1>12. Downward'
  BY <1>1 DEF FieldsInv, Downward
<1>13. FieldsTypeOK'
  <2>1. unanswered' \subseteq Requests
    BY <1>2, <1>3, <1>6 DEF FieldsTypeOK
  <2> QED
    BY <1>1, <1>3, <1>9, <2>1 DEF FieldsTypeOK
<1> QED
  BY <1>9, <1>11, <1>12, <1>13 DEF FieldsInv

\* unsubscribe() leaves the call without fields.
LEMMA TakingBack ==
  ASSUME NEW q \in Seq(Call), NEW r \in Seq(Call), NEW k \in DOMAIN q, r[k].fields = {}, q[k].fields # {},
         DOMAIN r = DOMAIN q, \A j \in DOMAIN q \ {k} : r[j] = q[j]
  PROVE  /\ \A f : HowMany(r, Having(f)) = HowMany(q, Having(f)) - (IF f \in q[k].fields THEN 1 ELSE 0)
         /\ HowMany(r, TakenBack) = HowMany(q, TakenBack) + 1
<1>1. ASSUME NEW T
      PROVE  HowMany(r, T) + (IF q[k] \in T THEN 1 ELSE 0) = HowMany(q, T) + (IF r[k] \in T THEN 1 ELSE 0)
  BY HowManyExcept
<1>5. q[k] \in Call /\ r[k] \in Call
  BY LenProperties
<1>2. \A T : HowMany(r, T) \in Nat /\ HowMany(q, T) \in Nat
  BY <1>1, HowManyBounds
<1>3. ASSUME NEW f
      PROVE  HowMany(r, Having(f)) = HowMany(q, Having(f)) - (IF f \in q[k].fields THEN 1 ELSE 0)
  <2>1. r[k] \notin Having(f) /\ (q[k] \in Having(f) <=> f \in q[k].fields)
    BY <1>5 DEF Having
  <2>2. HowMany(r, Having(f)) + (IF f \in q[k].fields THEN 1 ELSE 0) = HowMany(q, Having(f)) + 0
    BY <1>1, <2>1
  <2> PICK a \in Nat, b \in Nat : a = HowMany(r, Having(f)) /\ b = HowMany(q, Having(f))
    BY <1>2
  <2> QED
    BY <2>2
<1>4. HowMany(r, TakenBack) = HowMany(q, TakenBack) + 1
  <2>1. r[k] \in TakenBack /\ q[k] \notin TakenBack
    BY <1>5 DEF TakenBack
  <2>2. HowMany(r, TakenBack) + 0 = HowMany(q, TakenBack) + 1
    BY <1>1, <2>1
  <2> PICK a \in Nat, b \in Nat : a = HowMany(r, TakenBack) /\ b = HowMany(q, TakenBack)
    BY <1>2
  <2> QED
    BY <2>2
<1> QED
  BY <1>1, <1>3, <1>4

\* unsubscribe(): what goes out are the fields only this call had.
LEMMA UnsubscribeInv ==
  ASSUME FieldsInv, NEW c \in Client, NEW k \in DOMAIN subs[c], Unsubscribe(c, k)
  PROVE  FieldsInv'
<1>1. /\ FieldsTypeOK /\ CallsCounted /\ MaxCalls \in Nat
      /\ subs[c] \in Seq(Call) /\ subs[c][k] \in Call
      /\ requests[c] \in Nat /\ published[c] \in [Field -> Nat]
  <2>1. FieldsTypeOK /\ CallsCounted /\ MaxCalls \in Nat
    BY BoundsAssumption DEF FieldsInv
  <2>2. subs[c] \in Seq(Call)
    BY <2>1 DEF CallsCounted
  <2>3. subs[c][k] \in Call
    BY <2>2, LenProperties
  <2> QED
    BY <2>1, <2>2, <2>3 DEF FieldsTypeOK
<1> PICK fs \in SUBSET Field : fs = subs[c][k].fields
  BY <1>1 DEF Call
<1> PICK last \in SUBSET Field : last = {f \in fs : published[c][f] = 1}
  OBVIOUS
<1> PICK e : e = [subs[c][k] EXCEPT !.fields = {}]
  OBVIOUS
<1> PICK m : m = [type |-> "unsubscribe", fields |-> last, req |-> NextRequest(c)]
  OBVIOUS
<1>0. /\ c \in connections /\ fs # {}
      /\ published' = [published EXCEPT ![c] = Add(published[c], fs, -1)]
      /\ subs' = [subs EXCEPT ![c] = [subs[c] EXCEPT ![k] = e]]
      /\ UNCHANGED <<fields, exists, handlers, unacked, connections, toClient, loaded, replies, known, lost, stale>>
  BY DEF Unsubscribe, stateVars
<1>3. IF last # {}
      THEN /\ toBroker' = [toBroker EXCEPT ![c] = Append(toBroker[c], m)]
           /\ requests' = [requests EXCEPT ![c] = requests[c] + 1]
           /\ unanswered' = unanswered \cup {NextRequest(c)}
      ELSE UNCHANGED <<toBroker, requests, unanswered>>
  BY DEF Unsubscribe, Send
<1>4. e \in Call /\ e.fields = {}
  BY <1>1 DEF Call
<1>5. PICK r \in Seq(Call) :
        /\ subs' = [subs EXCEPT ![c] = r] /\ Len(r) = Len(subs[c])
        /\ \A f : HowMany(r, Having(f)) = HowMany(subs[c], Having(f)) - (IF f \in fs THEN 1 ELSE 0)
        /\ HowMany(r, TakenBack) = HowMany(subs[c], TakenBack) + 1
  <2> PICK q \in Seq(Call) : q = subs[c]
    BY <1>1
  <2> PICK r \in Seq(Call) : /\ subs' = [subs EXCEPT ![c] = r] /\ Len(r) = Len(q)
                            /\ DOMAIN r = DOMAIN q /\ r[k] = e /\ \A j \in DOMAIN q \ {k} : r[j] = q[j]
    <3>1. [q EXCEPT ![k] = e] \in Seq(Call) /\ Len([q EXCEPT ![k] = e]) = Len(q)
      BY <1>4, ExceptSeq
    <3> QED
      BY <1>0, <3>1
  <2>1. k \in DOMAIN q /\ q[k].fields = fs /\ q[k] \in Call
    BY <1>1
  <2>2. /\ \A f : HowMany(r, Having(f)) = HowMany(q, Having(f)) - (IF f \in q[k].fields THEN 1 ELSE 0)
        /\ HowMany(r, TakenBack) = HowMany(q, TakenBack) + 1
    <3>1. r[k].fields = {} /\ q[k].fields # {} /\ k \in DOMAIN q
      BY <1>0, <1>4, <2>1
    <3>2. /\ \A f : HowMany(r, Having(f)) = HowMany(q, Having(f)) - (IF f \in q[k].fields THEN 1 ELSE 0)
          /\ HowMany(r, TakenBack) = HowMany(q, TakenBack) + 1
      BY <3>1, TakingBack
    <3> QED
      BY <2>1, <3>2
  <2> QED
    BY <2>1, <2>2
<1>2. /\ c \in connections /\ fs # {}
      /\ published' = [published EXCEPT ![c] = Add(published[c], fs, -1)]
      /\ subs' = [subs EXCEPT ![c] = r]
      /\ UNCHANGED <<fields, exists, handlers, unacked, connections, toClient, loaded, replies, known, lost, stale>>
  BY <1>0, <1>5
<1>6. /\ Len(r) \in Nat /\ Len(r) <= MaxCalls
      /\ HowMany(subs[c], TakenBack) \in Nat /\ HowMany(r, TakenBack) \in Nat /\ HowMany(r, TakenBack) <= Len(r)
  <2>1. Len(subs[c]) <= MaxCalls
    BY <1>1 DEF FieldsTypeOK
  <2>2. HowMany(subs[c], TakenBack) \in Nat
    BY <1>1, HowManyBounds
  <2>3. HowMany(r, TakenBack) \in Nat /\ Len(r) \in Nat /\ HowMany(r, TakenBack) <= Len(r)
    BY <1>5, HowManyBounds
  <2> QED
    BY <1>5, <2>1, <2>2, <2>3
<1> PICK once \in {0, 1} : once = IF loaded[c] = "no" THEN 0 ELSE 1
  OBVIOUS
<1>7. requests[c] + 1 <= Len(r) + HowMany(r, TakenBack) + once
  <2>1. requests[c] <= Len(subs[c]) + HowMany(subs[c], TakenBack) + once
    BY <1>1 DEF CallsCounted
  <2> QED
    BY <1>1, <1>5, <1>6, <2>1
<1>8. NextRequest(c) \in Requests
  <2>1. requests[c] + 1 \in 1 .. 2 * MaxCalls + 1
    BY <1>1, <1>6, <1>7
  <2> QED
    BY <2>1 DEF NextRequest, Requests
<1>9. m \in ToBrokerMsg
  BY <1>8 DEF ToBrokerMsg
<1> PICK n \in Nat : n = IF last # {} THEN requests[c] + 1 ELSE requests[c]
  <2>1. requests[c] \in Nat
    BY <1>1
  <2>2. (IF last # {} THEN requests[c] + 1 ELSE requests[c]) \in Nat
    BY <2>1
  <2> QED
    BY <2>2
<1> PICK p \in [Field -> Int] : p = Add(published[c], fs, -1)
  <2>1. Add(published[c], fs, -1) \in [Field -> Int]
    BY <1>1 DEF Add
  <2> QED
    BY <2>1
<1>10. \A f \in Field : /\ published[c][f] \in Nat /\ (f \in fs => published[c][f] >= 1)
                        /\ p[f] = IF f \in fs THEN published[c][f] - 1 ELSE published[c][f]
  <2> TAKE f \in Field
  <2>1. f \in fs => HowMany(subs[c], Having(f)) >= 1
    BY <1>1, CallsBound
  <2>2. published[c][f] = HowMany(subs[c], Having(f)) /\ published[c][f] \in Nat
    BY <1>1 DEF CallsCounted
  <2>3. p[f] = IF f \in fs THEN published[c][f] + -1 ELSE published[c][f]
    BY AddAt
  <2> QED
    BY <2>1, <2>2, <2>3
<1>11. /\ CallsCounted'
       /\ published' \in [Client -> [Field -> 0 .. MaxCalls]]
       /\ \A d \in Client : Len(subs'[d]) \in 0 .. MaxCalls
       /\ requests' \in [Client -> 0 .. 2 * MaxCalls + 1]
  <2>1. ASSUME NEW f \in Field
        PROVE  p[f] = HowMany(r, Having(f))
    <3>1. published[c][f] = HowMany(subs[c], Having(f))
      BY <1>1 DEF CallsCounted
    <3>2. HowMany(r, Having(f)) = HowMany(subs[c], Having(f)) - (IF f \in fs THEN 1 ELSE 0)
      BY <1>5
    <3>3. published[c][f] \in Nat /\ p[f] = IF f \in fs THEN published[c][f] - 1 ELSE published[c][f]
      BY <1>10
    <3> QED
      BY <3>1, <3>2, <3>3
  <2>2. requests' = [requests EXCEPT ![c] = n]
    BY <1>1, <1>3 DEF FieldsTypeOK
  <2>3. n <= Len(r) + HowMany(r, TakenBack) + once
    BY <1>1, <1>6, <1>7
  <2>4. n <= Len(r) + HowMany(r, TakenBack) + (IF loaded[c] = "no" THEN 0 ELSE 1)
    BY <2>3
  <2>5. /\ subs' \in [Client -> Seq(Call)] /\ published' \in [Client -> [Field -> Int]] /\ requests' \in [Client -> Nat]
        /\ subs'[c] = r /\ published'[c] = p /\ requests'[c] = n /\ UNCHANGED loaded
        /\ \A d \in Client \ {c} : subs'[d] = subs[d] /\ published'[d] = published[d] /\ requests'[d] = requests[d]
    BY <1>1, <1>2, <2>2 DEF FieldsTypeOK, CallsCounted
  <2>6. Len(r) <= MaxCalls
    BY <1>6
  <2> QED
    BY <2>1, <2>4, <2>5, <2>6, CallStep
<1>12. /\ \A d \in connections \ {c} : \A f \in Field : Announced(d, f)' = Announced(d, f)
       /\ \A f \in Field : IF f \in last THEN Announced(c, f)' = 0 /\ Announced(c, f) = 1
                                         ELSE Announced(c, f)' = Announced(c, f)
  <2>1. \A d \in connections \ {c} : published'[d] = published[d]
    BY <1>1, <1>2 DEF FieldsTypeOK
  <2>2. published'[c] = p
    BY <1>1, <1>2 DEF FieldsTypeOK
  <2>3. ASSUME NEW f \in Field
        PROVE  IF f \in last THEN Announced(c, f)' = 0 /\ Announced(c, f) = 1 ELSE Announced(c, f)' = Announced(c, f)
    <3>1. f \in last <=> f \in fs /\ published[c][f] = 1
      OBVIOUS
    <3> QED
      BY <1>10, <2>2, <3>1 DEF Announced
  <2> QED
    BY <2>1, <2>3 DEF Announced
<1>13. InTurn' /\ CountsAgree' /\ FewLost' /\ Upward'
  <2>1. CASE last = {}
    <3>1. \A d \in connections : \A f \in Field : Announced(d, f)' = Announced(d, f)
      BY <1>12, <2>1
    <3> QED
      BY <1>2, <1>3, <2>1, <3>1, CountsUntouched
  <2>2. CASE last # {}
    <3>1. Announces(m) /\ m.fields = last /\ m.req[1] = c /\ Adds(m) = 0
      BY DEF Announces, Adds, NextRequest
    <3>2. \A f \in Field : IF f \in m.fields THEN Announced(c, f)' = Adds(m) /\ Announced(c, f) = 1 - Adds(m)
                                             ELSE Announced(c, f)' = Announced(c, f)
      BY <1>12, <3>1
    <3> QED
      BY <1>2, <1>3, <1>9, <1>12, <2>2, <3>1, <3>2, Sends
  <2> QED
    BY <2>1, <2>2
<1>14. Downward'
  BY <1>2 DEF FieldsInv, Downward
<1>15. FieldsTypeOK'
  <2>1. unanswered' \subseteq Requests
    BY <1>1, <1>3, <1>8 DEF FieldsTypeOK
  <2> QED
    BY <1>1, <1>2, <1>11, <2>1 DEF FieldsTypeOK
<1> QED
  BY <1>11, <1>13, <1>14, <1>15 DEF FieldsInv

\* getEntityFields() makes the one request that belongs to no call.
LEMMA LoadInv ==
  ASSUME FieldsInv, NEW c \in Client, Load(c)
  PROVE  FieldsInv'
<1> PICK m : m = [type |-> "all", fields |-> {}, req |-> NextRequest(c)]
  OBVIOUS
<1>1. /\ c \in connections /\ loaded[c] = "no"
      /\ loaded' = [loaded EXCEPT ![c] = "waiting"]
      /\ toBroker' = [toBroker EXCEPT ![c] = Append(toBroker[c], m)]
      /\ requests' = [requests EXCEPT ![c] = requests[c] + 1]
      /\ unanswered' = unanswered \cup {NextRequest(c)}
      /\ UNCHANGED <<fields, exists, handlers, unacked, connections, published, subs, toClient, replies, known, lost, stale>>
  BY DEF Load, Send, stateVars
<1>2. /\ FieldsTypeOK /\ CallsCounted /\ MaxCalls \in Nat
      /\ subs[c] \in Seq(Call) /\ requests[c] \in Nat
  BY BoundsAssumption DEF FieldsInv, CallsCounted, FieldsTypeOK
<1>3. /\ Len(subs[c]) \in Nat /\ Len(subs[c]) <= MaxCalls
      /\ HowMany(subs[c], TakenBack) \in Nat /\ HowMany(subs[c], TakenBack) <= Len(subs[c])
  <2>1. Len(subs[c]) \in Nat /\ Len(subs[c]) <= MaxCalls
    BY <1>2 DEF FieldsTypeOK
  <2>2. HowMany(subs[c], TakenBack) \in Nat /\ HowMany(subs[c], TakenBack) <= Len(subs[c])
    BY <1>2, HowManyBounds
  <2> QED
    BY <2>1, <2>2
<1>4. requests[c] + 1 <= Len(subs[c]) + HowMany(subs[c], TakenBack) + 1
  <2>1. requests[c] <= Len(subs[c]) + HowMany(subs[c], TakenBack) + 0
    BY <1>1, <1>2 DEF CallsCounted
  <2> QED
    BY <1>2, <1>3, <2>1
<1>5. requests[c] + 1 \in 1 .. 2 * MaxCalls + 1
  BY <1>2, <1>3, <1>4
<1>6. NextRequest(c) \in Requests
  BY <1>5 DEF NextRequest, Requests
<1>7. m \in ToBrokerMsg /\ m.fields = {} /\ ~Announces(m)
  BY <1>6 DEF ToBrokerMsg, Announces
<1>8. CallsCounted'
  <2>1. ASSUME NEW d \in Client
        PROVE  requests'[d] <= Len(subs'[d]) + HowMany(subs'[d], TakenBack) + (IF loaded'[d] = "no" THEN 0 ELSE 1)
    <3>1. CASE d = c
      <4>1. requests'[d] = requests[c] + 1 /\ loaded'[d] # "no" /\ subs'[d] = subs[c]
        BY <1>1, <1>2, <3>1 DEF FieldsTypeOK
      <4> QED
        BY <1>4, <4>1
    <3>2. CASE d # c
      <4>1. requests'[d] = requests[d] /\ loaded'[d] = loaded[d] /\ subs'[d] = subs[d]
        BY <1>1, <1>2, <3>2 DEF FieldsTypeOK
      <4> QED
        BY <1>2, <4>1 DEF CallsCounted
    <3> QED
      BY <3>1, <3>2
  <2> QED
    BY <1>1, <1>2, <2>1 DEF CallsCounted
<1>9. \A d \in connections : \A f \in Field : Announced(d, f)' = Announced(d, f)
  BY <1>1 DEF Announced
<1>10. InTurn' /\ CountsAgree' /\ FewLost' /\ Upward'
  BY <1>1, <1>7, <1>9, Sends
<1>11. Downward'
  BY <1>1 DEF FieldsInv, Downward
<1>12. FieldsTypeOK'
  BY <1>1, <1>2, <1>5, <1>6 DEF FieldsTypeOK
<1> QED
  BY <1>8, <1>10, <1>11, <1>12 DEF FieldsInv

\* Whoever has a message on its way is connected.
LEMMA Connected ==
  ASSUME FieldsInv, NEW c \in Client, toBroker[c] # <<>> \/ toClient[c] # <<>>
  PROVE  c \in connections
BY DEF FieldsInv, Upward, Downward

\* The broker sends message m to the clients of D.
LEMMA BrokerSends ==
  ASSUME FieldsInv, UNCHANGED <<replies, connections>>,
         NEW D \in SUBSET connections, NEW m \in ToClientMsg, m.type = "change" => m.exists,
         toClient' = [d \in Client |-> IF d \in D THEN Append(toClient[d], m) ELSE toClient[d]]
  PROVE  Downward'
<1>1. Downward /\ connections \subseteq Client
  BY DEF FieldsInv, FieldsTypeOK
<1>2. ASSUME NEW d \in Client
      PROVE  /\ toClient'[d] \in Seq(ToClientMsg)
             /\ d \notin connections => toClient'[d] = <<>>
             /\ \A k \in DOMAIN toClient'[d] : toClient'[d][k].type = "change" => toClient'[d][k].exists
  <2> PICK q \in Seq(ToClientMsg) : q = toClient[d]
    BY <1>1 DEF Downward
  <2>1. /\ d \notin connections => q = <<>>
        /\ \A k \in DOMAIN q : q[k].type = "change" => q[k].exists
    BY <1>1 DEF Downward
  <2>2. CASE d \notin D
    <3>1. toClient'[d] = q
      BY <2>2
    <3> QED
      BY <2>1, <3>1
  <2>3. CASE d \in D
    <3> PICK r : r = Append(q, m)
      OBVIOUS
    <3>1. /\ r \in Seq(ToClientMsg)
          /\ DOMAIN q = 1 .. Len(q) /\ DOMAIN r = 1 .. Len(q) + 1 /\ Len(q) \in Nat
          /\ \A k \in 1 .. Len(q) : r[k] = q[k]
          /\ r[Len(q) + 1] = m
      BY AppendProperties
    <3>2. toClient'[d] = r /\ d \in connections
      BY <2>3
    <3>3. ASSUME NEW k \in DOMAIN r, r[k].type = "change"
          PROVE  r[k].exists
      <4>1. CASE k = Len(q) + 1
        BY <3>1, <3>3, <4>1
      <4>2. CASE k # Len(q) + 1
        <5>1. k \in DOMAIN q /\ r[k] = q[k]
          BY <3>1, <4>2
        <5> QED
          BY <2>1, <3>3, <5>1
      <4> QED
        BY <4>1, <4>2
    <3> QED
      BY <3>1, <3>2, <3>3
  <2> QED
    BY <2>2, <2>3
<1>3. toClient' \in [Client -> Seq(ToClientMsg)]
  BY <1>2
<1> QED
  BY <1>1, <1>2, <1>3 DEF Downward

\* Client c takes its first message.
LEMMA ClientTakes ==
  ASSUME FieldsInv, NEW c \in Client, toClient[c] # <<>>, UNCHANGED connections,
         toClient' = [toClient EXCEPT ![c] = Tail(@)], replies' \in [Client -> Seq(ToClientMsg)]
  PROVE  Downward' /\ toClient[c][1] \in ToClientMsg /\ Head(toClient[c]) = toClient[c][1] /\ c \in connections
<1>1. Downward /\ c \in connections
  BY Connected DEF FieldsInv
<1> PICK q \in Seq(ToClientMsg) : q = toClient[c]
  BY <1>1 DEF Downward
<1>2. /\ Tail(q) \in Seq(ToClientMsg) /\ DOMAIN q = 1 .. Len(q) /\ DOMAIN Tail(q) = 1 .. Len(q) - 1
      /\ Len(q) \in Nat \ {0} /\ Head(q) = q[1] /\ q[1] \in ToClientMsg
      /\ \A k \in 1 .. Len(q) - 1 : Tail(q)[k] = q[k + 1]
  BY TailAt
<1>3. /\ toClient' \in [Client -> Seq(ToClientMsg)]
      /\ toClient'[c] = Tail(q) /\ \A d \in Client \ {c} : toClient'[d] = toClient[d]
  BY <1>1, <1>2 DEF Downward
<1>4. ASSUME NEW d \in Client, NEW k \in DOMAIN toClient'[d], toClient'[d][k].type = "change"
      PROVE  toClient'[d][k].exists
  <2>1. CASE d # c
    BY <1>1, <1>3, <1>4, <2>1 DEF Downward
  <2>2. CASE d = c
    <3>1. k + 1 \in DOMAIN q /\ toClient'[d][k] = q[k + 1]
      BY <1>2, <1>3, <1>4, <2>2
    <3> QED
      BY <1>1, <1>4, <3>1 DEF Downward
  <2> QED
    BY <2>1, <2>2
<1>5. \A d \in Client \ connections' : toClient'[d] = <<>>
  BY <1>1, <1>3 DEF Downward
<1> QED
  BY <1>1, <1>2, <1>3, <1>4, <1>5 DEF Downward

\* The broker handles the first message of client c.
LEMMA BrokerHandles ==
  ASSUME FieldsInv, NEW c \in Client, toBroker[c] # <<>>, UNCHANGED <<connections, published>>,
         toBroker' = [toBroker EXCEPT ![c] = Tail(@)]
  PROVE  LET m == toBroker[c][1]
         IN  /\ Upward' /\ c \in connections /\ m \in ToBrokerMsg /\ Head(toBroker[c]) = m
             /\ m.fields # {} <=> Announces(m)
             /\ m.fields # {} => m.req[1] = c
             /\ \A d \in connections : \A f \in Field :
                   /\ InStep(toBroker'[d], f, Announced(d, f)')
                   /\ CountOf(d, f) \in {0, 1}
                   /\ CountOf(d, f)' = IF d = c /\ f \in m.fields THEN Adds(m) ELSE CountOf(d, f)
                   /\ d = c /\ f \in m.fields => CountOf(d, f) = 1 - Adds(m)
<1> DEFINE m == toBroker[c][1]
<1>1. Upward /\ c \in connections /\ connections \subseteq Client
  BY Connected DEF FieldsInv, FieldsTypeOK
<1> PICK q \in Seq(ToBrokerMsg) : q = toBroker[c]
  BY <1>1 DEF Upward
<1>2. /\ Tail(q) \in Seq(ToBrokerMsg) /\ DOMAIN q = 1 .. Len(q) /\ DOMAIN Tail(q) = 1 .. Len(q) - 1
      /\ Len(q) \in Nat \ {0} /\ Head(q) = q[1] /\ q[1] \in ToBrokerMsg
      /\ \A k \in 1 .. Len(q) - 1 : Tail(q)[k] = q[k + 1]
  BY TailAt
<1>3. /\ toBroker' \in [Client -> Seq(ToBrokerMsg)]
      /\ toBroker'[c] = Tail(q) /\ \A d \in Client \ {c} : toBroker'[d] = toBroker[d]
  BY <1>1, <1>2 DEF Upward
<1>4. \A k \in DOMAIN q : (q[k].fields # {} <=> Announces(q[k])) /\ (q[k].fields # {} => q[k].req[1] = c)
  BY <1>1 DEF Upward
<1>5. ASSUME NEW d \in Client, NEW k \in DOMAIN toBroker'[d]
      PROVE  /\ toBroker'[d][k].fields # {} <=> Announces(toBroker'[d][k])
             /\ toBroker'[d][k].fields # {} => toBroker'[d][k].req[1] = d
  <2>1. CASE d # c
    BY <1>1, <1>3, <2>1 DEF Upward
  <2>2. CASE d = c
    <3>1. k + 1 \in DOMAIN q /\ toBroker'[d][k] = q[k + 1]
      BY <1>2, <1>3, <2>2
    <3> QED
      BY <1>4, <2>2, <3>1
  <2> QED
    BY <2>1, <2>2
<1>6. Upward'
  <2>1. \A d \in Client \ connections' : toBroker'[d] = <<>>
    BY <1>1, <1>3 DEF Upward
  <2> QED
    BY <1>3, <1>5, <2>1 DEF Upward
<1>7. (q[1].fields # {} <=> Announces(q[1])) /\ (q[1].fields # {} => q[1].req[1] = c)
  BY <1>2, <1>4
<1>8. ASSUME NEW d \in connections, NEW f \in Field
      PROVE  /\ InStep(toBroker'[d], f, Announced(d, f)')
             /\ CountOf(d, f) \in {0, 1}
             /\ CountOf(d, f)' = IF d = c /\ f \in q[1].fields THEN Adds(q[1]) ELSE CountOf(d, f)
             /\ d = c /\ f \in q[1].fields => CountOf(d, f) = 1 - Adds(q[1])
  <2>1. CountOf(d, f)' = Balance(toBroker'[d], f, Announced(d, f)')
    BY DEF CountOf, Balance, Announced
  <2>2. Announced(d, f)' = Announced(d, f)
    BY DEF Announced
  <2>3. /\ Announced(d, f) \in {0, 1} /\ InStep(toBroker[d], f, Announced(d, f))
        /\ CountOf(d, f) = Balance(toBroker[d], f, Announced(d, f))
    BY Standing
  <2>4. CountOf(d, f) \in {0, 1}
    BY DEF FieldsInv, CountsAgree
  <2>5. CASE d # c
    <3>1. toBroker'[d] = toBroker[d]
      BY <1>1, <1>3, <2>5
    <3> QED
      BY <2>1, <2>2, <2>3, <2>4, <2>5, <3>1
  <2>6. CASE d = c
    <3> PICK last \in {0, 1} : last = Announced(d, f)
      BY <2>3
    <3>1. InStep(q, f, last) /\ q # <<>> /\ (f \in q[1].fields => Announces(q[1]))
      BY <1>7, <2>3, <2>6
    <3>2. /\ InStep(Tail(q), f, last)
          /\ IF f \in q[1].fields
             THEN Balance(q, f, last) = 1 - Adds(q[1]) /\ Balance(Tail(q), f, last) = Adds(q[1])
             ELSE Balance(Tail(q), f, last) = Balance(q, f, last)
      BY <3>1, HandledInStep
    <3>3. toBroker'[d] = Tail(q) /\ CountOf(d, f) = Balance(q, f, last) /\ CountOf(d, f)' = Balance(Tail(q), f, last)
      BY <1>3, <2>1, <2>2, <2>3, <2>6
    <3> QED
      BY <2>2, <2>4, <2>6, <3>2, <3>3
  <2> QED
    BY <2>5, <2>6
<1> QED
  BY <1>1, <1>2, <1>6, <1>7, <1>8

\* The invariant holds of a broker without fields.
LEMMA FieldsInitInv == FieldsInit => FieldsInv
<1> SUFFICES ASSUME FieldsInit
             PROVE  FieldsInv
  OBVIOUS
<1>1. Cardinality(Client) \in Nat /\ MaxCalls \in Nat
  BY BoundsAssumption, FS_CardinalityType
<1>2. /\ Len(<<>>) = 0 /\ DOMAIN <<>> = {} /\ \A S : <<>> \in Seq(S)
      /\ \A T : HowMany(<<>>, T) = 0
  BY HowManyEmpty
<1>3. FieldsTypeOK
  <2>1. 0 \in Counts /\ 0 \in 0 .. MaxCalls /\ 0 \in 0 .. 2 * MaxCalls + 1
    BY <1>1 DEF Counts
  <2> QED
    BY <1>2, <2>1 DEF FieldsInit, FieldsTypeOK
<1>4. Upward /\ Downward
  BY <1>2 DEF FieldsInit, Upward, Downward
<1>5. CallsCounted
  BY <1>2 DEF FieldsInit, CallsCounted
<1>6. ASSUME NEW c \in Client, NEW f \in Field
      PROVE  CountOf(c, f) = 0 /\ Turns(toBroker[c], f, CountOf(c, f), Announced(c, f))
  <2>1. published[c][f] = 0 /\ toBroker[c] = <<>>
    BY DEF FieldsInit
  <2>2. \A type : OnItsWay(<<>>, type, f) = 0
    <3> TAKE type
    <3>1. {k \in DOMAIN <<>> : <<>>[k].type = type /\ f \in <<>>[k].fields} = {}
      BY <1>2
    <3> QED
      BY <3>1, FS_EmptySet DEF OnItsWay
  <2>3. CountOf(c, f) = 0 /\ Announced(c, f) = 0
    BY <2>1, <2>2 DEF CountOf, Announced
  <2> QED
    BY <2>1, <2>3, TurnsEmpty
<1>7. InTurn
  BY <1>3, <1>6 DEF InTurn, FieldsTypeOK
<1>8. CountsAgree
  <2> SUFFICES ASSUME NEW f \in Field
               PROVE  /\ \A c \in connections : CountOf(c, f) \in {0, 1}
                      /\ fields[f] = lost[f] + Cardinality({c \in connections : CountOf(c, f) = 1})
    BY DEF CountsAgree
  <2>1. connections = Client /\ fields[f] = 0 /\ lost[f] = 0
    BY DEF FieldsInit
  <2>2. {c \in connections : CountOf(c, f) = 1} = {}
    BY <1>6, <2>1
  <2> QED
    BY <1>6, <2>1, <2>2, FS_EmptySet
<1>9. FewLost
  <2>1. Client \ connections = {} /\ \A f \in Field : lost[f] = 0
    BY DEF FieldsInit
  <2> QED
    BY <2>1, FS_EmptySet DEF FewLost
<1> QED
  BY <1>3, <1>4, <1>5, <1>7, <1>8, <1>9 DEF FieldsInv

\* A push of the broker: the acknowledgement carries no fields.
LEMMA ReceiveChangeInv ==
  ASSUME FieldsInv, NEW c \in Client, ReceiveChange(c)
  PROVE  FieldsInv'
<1>1. /\ toClient[c] # <<>> /\ toClient' = [toClient EXCEPT ![c] = Tail(@)]
      /\ known' = [known EXCEPT ![c] = Head(toClient[c]).fields]
      /\ toBroker' = [toBroker EXCEPT ![c] =
                         Append(@, [type |-> "ack", fields |-> {}, req |-> Head(toClient[c]).req])]
      /\ UNCHANGED <<fields, exists, handlers, unacked, connections, published, subs, requests, loaded,
                     unanswered, replies, lost>>
  BY DEF ReceiveChange, Receives, stateVars, callVars
<1>2. FieldsTypeOK /\ Downward
  BY DEF FieldsInv
<1>3. /\ Downward' /\ toClient[c][1] \in ToClientMsg /\ Head(toClient[c]) = toClient[c][1] /\ c \in connections
  <2>1. replies' \in [Client -> Seq(ToClientMsg)]
    BY <1>1, <1>2 DEF Downward
  <2> QED
    BY <1>1, <2>1, ClientTakes
<1> PICK m \in ToClientMsg : m = Head(toClient[c])
  BY <1>3
<1> PICK a : a = [type |-> "ack", fields |-> {}, req |-> m.req]
  OBVIOUS
<1>4. a \in ToBrokerMsg /\ a.fields = {} /\ ~Announces(a)
  BY DEF ToBrokerMsg, ToClientMsg, Announces
<1>5. toBroker' = [toBroker EXCEPT ![c] = Append(@, a)]
  BY <1>1
<1>6. \A d \in connections : \A f \in Field : Announced(d, f)' = Announced(d, f)
  BY <1>1 DEF Announced
<1>7. InTurn' /\ CountsAgree' /\ FewLost' /\ Upward'
  BY <1>1, <1>3, <1>4, <1>5, <1>6, Sends
<1>8. CallsCounted'
  BY <1>1 DEF FieldsInv, CallsCounted
<1>9. FieldsTypeOK'
  <2>1. m.fields \in SUBSET Field
    BY DEF ToClientMsg
  <2>2. stale' \subseteq Client
    BY <1>2 DEF FieldsTypeOK, ReceiveChange
  <2> QED
    BY <1>1, <1>2, <2>1, <2>2 DEF FieldsTypeOK
<1> QED
  BY <1>3, <1>7, <1>8, <1>9 DEF FieldsInv

\* An answer arrives ...
LEMMA ReceiveReplyInv ==
  ASSUME FieldsInv, NEW c \in Client, ReceiveReply(c)
  PROVE  FieldsInv'
<1>1. /\ toClient[c] # <<>> /\ toClient' = [toClient EXCEPT ![c] = Tail(@)]
      /\ replies' = [replies EXCEPT ![c] = Append(@, Head(toClient[c]))]
      /\ UNCHANGED <<fields, exists, handlers, unacked, connections, toBroker, published, subs, requests, loaded,
                     unanswered, known, lost>>
  BY DEF ReceiveReply, Receives, stateVars, callVars
<1>2. FieldsTypeOK /\ Downward
  BY DEF FieldsInv
<1>3. replies' \in [Client -> Seq(ToClientMsg)]
  <2>1. Head(toClient[c]) \in ToClientMsg
    BY <1>1, <1>2, TailAt DEF Downward
  <2> PICK m \in ToClientMsg : m = Head(toClient[c])
    BY <2>1
  <2>2. Append(replies[c], m) \in Seq(ToClientMsg)
    BY <1>2 DEF Downward
  <2> QED
    BY <1>1, <1>2, <2>2 DEF Downward
<1>4. Downward'
  BY <1>1, <1>3, ClientTakes
<1>5. \A d \in connections : \A f \in Field : Announced(d, f)' = Announced(d, f)
  BY <1>1 DEF Announced
<1>6. InTurn' /\ CountsAgree' /\ FewLost' /\ Upward'
  BY <1>1, <1>5, CountsUntouched
<1>7. CallsCounted'
  BY <1>1 DEF FieldsInv, CallsCounted
<1>8. FieldsTypeOK'
  <2>1. stale' \subseteq Client
    BY <1>2 DEF FieldsTypeOK, ReceiveReply
  <2> QED
    BY <1>1, <1>2, <2>1 DEF FieldsTypeOK
<1> QED
  BY <1>4, <1>6, <1>7, <1>8 DEF FieldsInv

\* ... and is stored.
LEMMA StoreInv ==
  ASSUME FieldsInv, NEW c \in Client, Store(c)
  PROVE  FieldsInv'
<1> PICK m : m = Head(replies[c])
  OBVIOUS
<1>1. /\ replies[c] # <<>> /\ replies' = [replies EXCEPT ![c] = Tail(@)]
      /\ unanswered' = unanswered \ {m.req}
      /\ known' = [known EXCEPT ![c] = IF m.exists THEN m.fields ELSE @]
      /\ loaded' = [loaded EXCEPT ![c] = IF m.all THEN "yes" ELSE @]
      /\ UNCHANGED <<fields, exists, handlers, unacked, connections, toBroker, toClient, published, subs,
                     requests, lost, stale>>
  BY DEF Store, stateVars
<1>2. FieldsTypeOK /\ Downward /\ CallsCounted
  BY DEF FieldsInv
<1>3. m \in ToClientMsg /\ Tail(replies[c]) \in Seq(ToClientMsg)
  BY <1>1, <1>2, TailAt DEF Downward
<1>4. Downward'
  BY <1>1, <1>2, <1>3 DEF Downward
<1>5. \A d \in connections : \A f \in Field : Announced(d, f)' = Announced(d, f)
  BY <1>1 DEF Announced
<1>6. InTurn' /\ CountsAgree' /\ FewLost' /\ Upward'
  BY <1>1, <1>5, CountsUntouched
<1>7. CallsCounted'
  <2>1. ASSUME NEW d \in Client
        PROVE  requests'[d] <= Len(subs'[d]) + HowMany(subs'[d], TakenBack) + (IF loaded'[d] = "no" THEN 0 ELSE 1)
    <3> PICK r \in Seq(Call) : r = subs[d]
      BY <1>2 DEF CallsCounted
    <3>1. Len(r) \in Nat /\ HowMany(r, TakenBack) \in Nat
      BY HowManyBounds
    <3>2. loaded[d] # "no" => loaded'[d] # "no"
      BY <1>1, <1>2 DEF FieldsTypeOK
    <3>3. requests[d] <= Len(r) + HowMany(r, TakenBack) + (IF loaded[d] = "no" THEN 0 ELSE 1) /\ requests[d] \in Nat
      BY <1>2 DEF CallsCounted, FieldsTypeOK
    <3>4. requests[d] <= Len(r) + HowMany(r, TakenBack) + (IF loaded'[d] = "no" THEN 0 ELSE 1)
      BY <3>1, <3>2, <3>3
    <3> QED
      BY <1>1, <3>4
  <2> QED
    BY <1>1, <1>2, <2>1 DEF CallsCounted
<1>8. FieldsTypeOK'
  <2>1. m.fields \in SUBSET Field
    BY <1>3 DEF ToClientMsg
  <2>2. known' \in [Client -> SUBSET Field]
    BY <1>1, <1>2, <2>1 DEF FieldsTypeOK
  <2>3. loaded' \in [Client -> {"no", "waiting", "yes"}]
    BY <1>1, <1>2 DEF FieldsTypeOK
  <2>4. unanswered' \subseteq Requests
    BY <1>1, <1>2 DEF FieldsTypeOK
  <2> QED
    BY <1>1, <1>2, <2>2, <2>3, <2>4 DEF FieldsTypeOK
<1> QED
  BY <1>4, <1>6, <1>7, <1>8 DEF FieldsInv

\* What an answer holds.
LEMMA ReplyIs ==
  ASSUME FieldsTypeOK, NEW r \in Requests, NEW fs \in SUBSET Field, NEW all \in BOOLEAN
  PROVE  /\ Reply(r, fs, all) \in ToClientMsg /\ Reply(r, fs, all).type # "change"
         /\ Reply(r, fs, all).fields = fs /\ Reply(r, fs, all).all = all
         /\ Reply(r, fs, all).exists = (exists \/ ~all)
<1>1. (exists \/ ~all) \in BOOLEAN
  BY Zenon DEF FieldsTypeOK
<1> PICK e \in BOOLEAN : e = (exists \/ ~all)
  BY <1>1, Zenon
<1> PICK a : a = [type |-> "reply", fields |-> fs, req |-> r, all |-> all, exists |-> e]
  OBVIOUS
<1>2. Reply(r, fs, all) = a
  BY Zenon DEF Reply
<1>3. a \in ToClientMsg
  BY DEF ToClientMsg
<1>4. a.type # "change" /\ a.fields = fs /\ a.all = all /\ a.exists = e
  OBVIOUS
<1>5. Reply(r, fs, all).exists = e
  BY <1>2, <1>4
<1>6. Reply(r, fs, all).exists = (exists \/ ~all)
  BY <1>5, Zenon
<1>7. /\ Reply(r, fs, all) \in ToClientMsg /\ Reply(r, fs, all).type # "change"
      /\ Reply(r, fs, all).fields = fs /\ Reply(r, fs, all).all = all
  BY <1>2, <1>3, <1>4
<1> QED
  BY <1>6, <1>7, Zenon

\* What a push holds.
LEMMA ChangeIs ==
  ASSUME NEW r \in Requests, NEW fs \in SUBSET Field
  PROVE  /\ Change(r, fs) \in ToClientMsg /\ Change(r, fs).type = "change"
         /\ Change(r, fs).fields = fs /\ Change(r, fs).exists
<1> PICK e \in BOOLEAN, n \in BOOLEAN : e = TRUE /\ n = FALSE
  OBVIOUS
<1> PICK a : a = [type |-> "change", fields |-> fs, req |-> r, all |-> n, exists |-> e]
  OBVIOUS
<1>1. Change(r, fs) = a
  BY Zenon DEF Change
<1>2. a \in ToClientMsg
  BY DEF ToClientMsg
<1>3. a.type = "change" /\ a.fields = fs /\ a.exists = e
  OBVIOUS
<1>4. Change(r, fs).exists = e
  BY <1>1, <1>3
<1>5. Change(r, fs).exists
  BY <1>4, Zenon
<1>6. Change(r, fs) \in ToClientMsg /\ Change(r, fs).type = "change" /\ Change(r, fs).fields = fs
  BY <1>1, <1>2, <1>3
<1> QED
  BY <1>5, <1>6, Zenon

\* Everything the broker does that concerns no counts.
LEMMA HandleAckInv ==
  ASSUME FieldsInv, NEW c \in Client, HandleAck(c)
  PROVE  FieldsInv'
<1>1. /\ toBroker[c] # <<>> /\ Head(toBroker[c]).type = "ack"
      /\ unacked' = [unacked EXCEPT ![Head(toBroker[c]).req] = @ \ {c}]
      /\ toBroker' = [toBroker EXCEPT ![c] = Tail(@)]
      /\ UNCHANGED <<fields, exists, handlers, connections, toClient, published, subs, requests, loaded,
                     unanswered, replies, known, lost, stale>>
  BY DEF HandleAck, Handles, callVars
<1>2. FieldsTypeOK
  BY DEF FieldsInv
<1>3. LET m == toBroker[c][1]
      IN  /\ Upward' /\ c \in connections /\ m \in ToBrokerMsg /\ Head(toBroker[c]) = m
          /\ m.fields # {} <=> Announces(m)
          /\ m.fields # {} => m.req[1] = c
          /\ \A d \in connections : \A f \in Field :
                /\ InStep(toBroker'[d], f, Announced(d, f)')
                /\ CountOf(d, f) \in {0, 1}
                /\ CountOf(d, f)' = IF d = c /\ f \in m.fields THEN Adds(m) ELSE CountOf(d, f)
                /\ d = c /\ f \in m.fields => CountOf(d, f) = 1 - Adds(m)
  <2>1. UNCHANGED <<connections, published>>
    BY <1>1
  <2> QED
    BY <1>1, <2>1, BrokerHandles, Zenon
<1> PICK m \in ToBrokerMsg : m = toBroker[c][1]
  BY <1>3
<1>4. m.fields = {}
  BY <1>1, <1>3 DEF Announces
<1>5. InTurn' /\ CountsAgree' /\ FewLost'
  BY <1>1, <1>3, <1>4, CountsStay
<1>6. Downward' /\ CallsCounted'
  BY <1>1 DEF FieldsInv, Downward, CallsCounted
<1>7. FieldsTypeOK'
  BY <1>1, <1>2 DEF FieldsTypeOK
<1> QED
  BY <1>3, <1>5, <1>6, <1>7 DEF FieldsInv

\* The broker answers getEntityFields() ...
LEMMA HandleAllInv ==
  ASSUME FieldsInv, NEW c \in Client, HandleAll(c)
  PROVE  FieldsInv'
<1>1. /\ toBroker[c] # <<>> /\ Head(toBroker[c]).type = "all"
      /\ toBroker' = [toBroker EXCEPT ![c] = Tail(@)]
      /\ toClient' = [toClient EXCEPT ![c] = Append(@, Reply(Head(toBroker[c]).req, Present(fields), TRUE))]
      /\ UNCHANGED <<fields, exists, handlers, unacked, connections, published, subs, requests, loaded,
                     unanswered, replies, known, lost, stale>>
  BY DEF HandleAll, Handles, stateVars, callVars
<1>2. FieldsTypeOK
  BY DEF FieldsInv
<1>3. LET m == toBroker[c][1]
      IN  /\ Upward' /\ c \in connections /\ m \in ToBrokerMsg /\ Head(toBroker[c]) = m
          /\ m.fields # {} <=> Announces(m)
          /\ m.fields # {} => m.req[1] = c
          /\ \A d \in connections : \A f \in Field :
                /\ InStep(toBroker'[d], f, Announced(d, f)')
                /\ CountOf(d, f) \in {0, 1}
                /\ CountOf(d, f)' = IF d = c /\ f \in m.fields THEN Adds(m) ELSE CountOf(d, f)
                /\ d = c /\ f \in m.fields => CountOf(d, f) = 1 - Adds(m)
  <2>1. UNCHANGED <<connections, published>>
    BY <1>1
  <2> QED
    BY <1>1, <2>1, BrokerHandles, Zenon
<1> PICK m \in ToBrokerMsg : m = toBroker[c][1]
  BY <1>3
<1>4. m.fields = {}
  BY <1>1, <1>3 DEF Announces
<1>5. InTurn' /\ CountsAgree' /\ FewLost'
  BY <1>1, <1>3, <1>4, CountsStay
<1> PICK a \in ToClientMsg : a = Reply(m.req, Present(fields), TRUE) /\ a.type # "change"
  <2>1. m.req \in Requests /\ Present(fields) \in SUBSET Field
    BY DEF ToBrokerMsg, Present
  <2> QED
    BY <1>2, <2>1, ReplyIs
<1>6. Downward'
  <2>1. toClient' = [d \in Client |-> IF d \in {c} THEN Append(toClient[d], a) ELSE toClient[d]]
    BY <1>1, <1>3 DEF FieldsInv, Downward
  <2>2. {c} \in SUBSET connections
    BY <1>3
  <2> QED
    BY <1>1, <2>1, <2>2, BrokerSends
<1>7. CallsCounted'
  BY <1>1 DEF FieldsInv, CallsCounted
<1>8. FieldsTypeOK'
  BY <1>1, <1>2 DEF FieldsTypeOK
<1> QED
  BY <1>3, <1>5, <1>6, <1>7, <1>8 DEF FieldsInv

\* ... and an announcement whose acknowledgements are there.
LEMMA FinishHandlerInv ==
  ASSUME FieldsInv, NEW r \in Requests, FinishHandler(r)
  PROVE  FieldsInv'
<1>1. /\ handlers' = handlers \ {r}
      /\ toClient' = IF r[1] \in connections
                     THEN [toClient EXCEPT ![r[1]] = Append(@, Reply(r, Present(fields), FALSE))]
                     ELSE toClient
      /\ UNCHANGED <<fields, exists, unacked, connections, toBroker, published, subs, requests, loaded,
                     unanswered, replies, known, lost, stale>>
  BY DEF FinishHandler, callVars
<1>2. FieldsTypeOK /\ toClient \in [Client -> Seq(ToClientMsg)]
  BY DEF FieldsInv, Downward
<1> PICK a \in ToClientMsg : a = Reply(r, Present(fields), FALSE) /\ a.type # "change"
  <2>1. Present(fields) \in SUBSET Field
    BY DEF Present
  <2> QED
    BY <1>2, <2>1, ReplyIs
<1>3. Downward'
  <2>1. CASE r[1] \in connections
    <3>1. toClient' = [d \in Client |-> IF d \in {r[1]} THEN Append(toClient[d], a) ELSE toClient[d]]
      <4> PICK c \in connections : c = r[1]
        BY <2>1
      <4>1. toClient' = [toClient EXCEPT ![c] = Append(@, a)]
        BY <1>1
      <4> QED
        BY <1>2, <4>1
    <3>2. {r[1]} \in SUBSET connections
      BY <2>1
    <3> QED
      BY <1>1, <3>1, <3>2, BrokerSends
  <2>2. CASE r[1] \notin connections
    BY <1>1, <2>2 DEF FieldsInv, Downward
  <2> QED
    BY <2>1, <2>2
<1>4. \A d \in connections : \A f \in Field : Announced(d, f)' = Announced(d, f)
  BY <1>1 DEF Announced
<1>5. InTurn' /\ CountsAgree' /\ FewLost' /\ Upward'
  BY <1>1, <1>4, CountsUntouched
<1>6. CallsCounted'
  BY <1>1 DEF FieldsInv, CallsCounted
<1>7. FieldsTypeOK'
  BY <1>1, <1>2 DEF FieldsTypeOK
<1> QED
  BY <1>3, <1>5, <1>6, <1>7 DEF FieldsInv

\* What the broker counts fits its type: at most one count for each client,
\* connected or not.
LEMMA CountsFit ==
  ASSUME NEW D \in SUBSET Client, NEW K \in SUBSET D, NEW n \in Nat, n <= Cardinality(Client \ D)
  PROVE  n \in Counts /\ n + Cardinality(K) \in Counts
<1>1. IsFiniteSet(Client) /\ IsFiniteSet(D) /\ Cardinality(Client) \in Nat
  BY BoundsAssumption, FS_Subset, FS_CardinalityType
<1>2. Cardinality(Client \ D) = Cardinality(Client) - Cardinality(Client \cap D)
  BY <1>1, FS_Difference
<1>3. Client \cap D = D
  OBVIOUS
<1>4. IsFiniteSet(K) /\ Cardinality(K) <= Cardinality(D)
  BY <1>1, FS_Subset
<1>5. Cardinality(D) \in Nat /\ Cardinality(K) \in Nat
  BY <1>1, <1>4, FS_CardinalityType
<1> PICK a \in Nat, b \in Nat, k \in Nat : a = Cardinality(Client) /\ b = Cardinality(D) /\ k = Cardinality(K)
  BY <1>1, <1>5
<1>6. n <= a - b /\ k <= b
  BY <1>2, <1>3, <1>4
<1>7. n \in 0 .. a /\ n + k \in 0 .. a
  BY <1>6
<1> QED
  BY <1>7 DEF Counts

\* The counts of the broker follow those of the clients.
LEMMA Announcing ==
  ASSUME FieldsInv, NEW c \in connections, NEW m \in ToBrokerMsg, Announces(m), UNCHANGED <<connections, lost>>,
         fields' = IF m.type = "publish" THEN Add(fields, m.fields, 1)
                   ELSE Add(fields, m.fields \cap Present(fields), -1),
         \A d \in connections : \A f \in Field :
            /\ CountOf(d, f) \in {0, 1}
            /\ CountOf(d, f)' = IF d = c /\ f \in m.fields THEN Adds(m) ELSE CountOf(d, f)
            /\ d = c /\ f \in m.fields => CountOf(d, f) = 1 - Adds(m)
  PROVE  /\ CountsAgree'
         /\ \A f \in m.fields : m.type = "unsubscribe" => fields[f] > 0
<1>1. /\ fields \in [Field -> Nat] /\ lost \in [Field -> Nat] /\ m.fields \subseteq Field
      /\ connections \subseteq Client /\ IsFiniteSet(connections)
  <2>1. connections \subseteq Client /\ fields \in [Field -> Nat] /\ lost \in [Field -> Nat]
    <3>1. Cardinality(Client) \in Nat
      BY BoundsAssumption, FS_CardinalityType
    <3> QED
      BY <3>1 DEF FieldsInv, FieldsTypeOK, Counts
  <2>2. IsFiniteSet(connections)
    BY <2>1, BoundsAssumption, FS_Subset
  <2> QED
    BY <2>1, <2>2 DEF ToBrokerMsg
<1>2. ASSUME NEW f \in Field
      PROVE  /\ \A d \in connections' : CountOf(d, f)' \in {0, 1}
             /\ fields'[f] = lost'[f] + Cardinality({d \in connections' : CountOf(d, f)' = 1})
             /\ f \in m.fields /\ m.type = "unsubscribe" => fields[f] > 0
  <2>1. PICK K \in SUBSET connections : K = {d \in connections : CountOf(d, f) = 1}
    OBVIOUS
  <2>2. PICK L \in SUBSET connections : L = {d \in connections : CountOf(d, f)' = 1}
    OBVIOUS
  <2>3. fields[f] = lost[f] + Cardinality(K)
    BY <2>1 DEF FieldsInv, CountsAgree
  <2>4. IsFiniteSet(K) /\ Cardinality(K) \in Nat /\ (Cardinality(K) = 0 => K = {})
    <3>1. IsFiniteSet(K)
      BY <1>1, FS_Subset
    <3> QED
      BY <3>1, FS_CardinalityType, FS_EmptySet
  <2>5. \A d \in connections' : CountOf(d, f)' \in {0, 1}
    BY DEF Adds
  <2>6. CASE f \notin m.fields
    <3>1. L = K
      BY <2>1, <2>2, <2>6
    <3>2. fields'[f] = fields[f]
      BY <1>1, <2>6, AddAt
    <3> QED
      BY <2>2, <2>3, <2>5, <2>6, <3>1, <3>2
  <2>7. CASE f \in m.fields /\ m.type = "publish"
    <3>1. CountOf(c, f) = 0 /\ CountOf(c, f)' = 1 /\ \A d \in connections \ {c} : CountOf(d, f)' = CountOf(d, f)
      BY <2>7 DEF Adds
    <3>2. L = K \cup {c} /\ c \notin K
      BY <2>1, <2>2, <3>1
    <3>3. Cardinality(L) = Cardinality(K) + 1
      BY <2>4, <3>2, FS_AddElement
    <3>4. fields'[f] = fields[f] + 1
      BY <1>1, <2>7, AddAt
    <3>5. fields'[f] = lost[f] + Cardinality(L)
      BY <1>1, <2>3, <2>4, <3>3, <3>4
    <3> QED
      BY <2>2, <2>5, <2>7, <3>5
  <2>8. CASE f \in m.fields /\ m.type = "unsubscribe"
    <3>1. CountOf(c, f) = 1 /\ CountOf(c, f)' = 0 /\ \A d \in connections \ {c} : CountOf(d, f)' = CountOf(d, f)
      BY <2>8 DEF Adds
    <3>2. L = K \ {c} /\ c \in K
      BY <2>1, <2>2, <3>1
    <3>3. Cardinality(L) = Cardinality(K) - 1
      BY <2>4, <3>2, FS_RemoveElement
    <3>4. fields[f] > 0
      BY <1>1, <2>3, <2>4, <3>2
    <3>5. fields'[f] = fields[f] + -1
      <4>1. f \in m.fields \cap Present(fields)
        BY <2>8, <3>4 DEF Present
      <4> QED
        BY <1>1, <2>8, <4>1, AddAt
    <3>6. fields'[f] = lost[f] + Cardinality(L)
      BY <1>1, <2>3, <2>4, <3>3, <3>5
    <3> QED
      BY <2>2, <2>5, <3>4, <3>6
  <2> QED
    BY <2>6, <2>7, <2>8 DEF Announces
<1> QED
  BY <1>1, <1>2 DEF CountsAgree

\* An announcement moves the count of the broker and that of its client alike.
LEMMA HandleAnnouncementInv ==
  ASSUME FieldsInv, NEW c \in Client, HandleAnnouncement(c)
  PROVE  FieldsInv'
<1>1. /\ toBroker[c] # <<>> /\ Head(toBroker[c]).type \in {"publish", "unsubscribe"}
      /\ toBroker' = [toBroker EXCEPT ![c] = Tail(@)]
      /\ UNCHANGED <<connections, published, subs, requests, loaded, unanswered, replies, known, lost, stale>>
  BY DEF HandleAnnouncement, Handles, callVars
<1>2. FieldsTypeOK /\ Downward
  BY DEF FieldsInv
<1>3. LET m == toBroker[c][1]
      IN  /\ Upward' /\ c \in connections /\ m \in ToBrokerMsg /\ Head(toBroker[c]) = m
          /\ m.fields # {} <=> Announces(m)
          /\ m.fields # {} => m.req[1] = c
          /\ \A d \in connections : \A f \in Field :
                /\ InStep(toBroker'[d], f, Announced(d, f)')
                /\ CountOf(d, f) \in {0, 1}
                /\ CountOf(d, f)' = IF d = c /\ f \in m.fields THEN Adds(m) ELSE CountOf(d, f)
                /\ d = c /\ f \in m.fields => CountOf(d, f) = 1 - Adds(m)
  <2>1. UNCHANGED <<connections, published>>
    BY <1>1
  <2> QED
    BY <1>1, <2>1, BrokerHandles, Zenon
<1> PICK m \in ToBrokerMsg : m = toBroker[c][1]
  BY <1>3
<1>4. m = Head(toBroker[c]) /\ Announces(m) /\ c \in connections
  BY <1>1, <1>3 DEF Announces
<1>5. /\ fields' = (IF m.type = "publish" THEN Add(fields, m.fields, 1)
                    ELSE Add(fields, m.fields \cap Present(fields), -1))
      /\ exists' = (exists \/ m.type = "publish")
      /\ IF Changed(m)
         THEN /\ handlers' = handlers \cup {m.req}
              /\ unacked' = [unacked EXCEPT ![m.req] = connections \ {c}]
              /\ toClient' = [d \in Client |-> IF d \in connections \ {c}
                                               THEN Append(toClient[d], Change(m.req, Present(fields')))
                                               ELSE toClient[d]]
         ELSE /\ toClient' = [toClient EXCEPT ![c] = Append(@, Reply(m.req, Present(fields'), FALSE))]
              /\ UNCHANGED <<handlers, unacked>>
  BY <1>4 DEF HandleAnnouncement
<1>6. /\ CountsAgree' /\ \A d \in connections : \A f \in Field : InStep(toBroker'[d], f, Announced(d, f)')
  <2>1. \A d \in connections : \A f \in Field :
           /\ InStep(toBroker'[d], f, Announced(d, f)')
           /\ CountOf(d, f) \in {0, 1}
           /\ CountOf(d, f)' = IF d = c /\ f \in m.fields THEN Adds(m) ELSE CountOf(d, f)
           /\ d = c /\ f \in m.fields => CountOf(d, f) = 1 - Adds(m)
    BY <1>3
  <2>2. UNCHANGED <<connections, lost>>
    BY <1>1
  <2>3. \A d \in connections : \A f \in Field :
           /\ CountOf(d, f) \in {0, 1}
           /\ CountOf(d, f)' = IF d = c /\ f \in m.fields THEN Adds(m) ELSE CountOf(d, f)
           /\ d = c /\ f \in m.fields => CountOf(d, f) = 1 - Adds(m)
    BY <2>1
  <2>4. CountsAgree'
    BY <1>4, <1>5, <2>2, <2>3, Announcing
  <2> QED
    BY <2>1, <2>4
<1>7. InTurn'
  <2> SUFFICES ASSUME NEW d \in connections, NEW f \in Field
               PROVE  Turns(toBroker'[d], f, CountOf(d, f)', Announced(d, f)')
    BY <1>1 DEF InTurn
  <2>1. CountOf(d, f)' = Balance(toBroker'[d], f, Announced(d, f)')
    BY DEF CountOf, Balance, Announced
  <2> QED
    BY <1>6, <2>1 DEF InStep
<1>8. FewLost'
  BY <1>1 DEF FieldsInv, FewLost
<1> PICK fs \in SUBSET Field : fs = Present(fields')
  BY DEF Present
<1>9. Downward'
  <2>1. CASE Changed(m)
    <3> PICK a \in ToClientMsg : a = Change(m.req, fs) /\ a.exists
      <4>1. m.req \in Requests
        BY DEF ToBrokerMsg
      <4> QED
        BY <4>1, ChangeIs
    <3>1. toClient' = [d \in Client |-> IF d \in connections \ {c} THEN Append(toClient[d], a) ELSE toClient[d]]
      BY <1>5, <2>1
    <3> QED
      BY <1>1, <3>1, BrokerSends
  <2>2. CASE ~Changed(m)
    <3> PICK a \in ToClientMsg : a = Reply(m.req, fs, FALSE) /\ a.type # "change"
      <4>1. m.req \in Requests
        BY DEF ToBrokerMsg
      <4> QED
        BY <1>2, <4>1, ReplyIs
    <3>1. toClient' = [toClient EXCEPT ![c] = Append(@, a)]
      BY <1>5, <2>2
    <3>2. toClient' = [d \in Client |-> IF d \in {c} THEN Append(toClient[d], a) ELSE toClient[d]]
      BY <1>2, <3>1 DEF Downward
    <3>3. {c} \in SUBSET connections
      BY <1>4
    <3> QED
      BY <1>1, <3>2, <3>3, BrokerSends
  <2> QED
    BY <2>1, <2>2
<1>10. CallsCounted'
  BY <1>1 DEF FieldsInv, CallsCounted
<1>11. FieldsTypeOK'
  <2>1. fields' \in [Field -> Counts]
    <3>1. DOMAIN fields' = Field /\ fields' = [f \in Field |-> fields'[f]]
      BY <1>5 DEF Add
    <3>2. ASSUME NEW f \in Field
          PROVE  fields'[f] \in Counts
      <4>1. PICK K \in SUBSET connections : fields'[f] = lost[f] + Cardinality(K)
        BY <1>1, <1>6 DEF CountsAgree
      <4>2. lost[f] \in Nat /\ lost[f] <= Cardinality(Client \ connections) /\ connections \in SUBSET Client
        <5>1. Cardinality(Client) \in Nat
          BY BoundsAssumption, FS_CardinalityType
        <5>2. lost[f] \in 0 .. Cardinality(Client) /\ connections \in SUBSET Client
          BY <1>2 DEF FieldsTypeOK, Counts
        <5>3. lost[f] <= Cardinality(Client \ connections)
          BY DEF FieldsInv, FewLost
        <5> QED
          BY <5>1, <5>2, <5>3
      <4> QED
        BY <4>1, <4>2, CountsFit
    <3> QED
      BY <3>1, <3>2
  <2>2. exists' \in BOOLEAN
    BY <1>5, Zenon
  <2>3. handlers' \subseteq Requests /\ unacked' \in [Requests -> SUBSET Client]
    <3>1. m.req \in Requests /\ connections \ {c} \in SUBSET Client
      BY <1>2 DEF FieldsTypeOK, ToBrokerMsg
    <3>2. CASE Changed(m)
      BY <1>2, <1>5, <3>1, <3>2 DEF FieldsTypeOK
    <3>3. CASE ~Changed(m)
      BY <1>2, <1>5, <3>3 DEF FieldsTypeOK
    <3> QED
      BY <3>2, <3>3
  <2> QED
    BY <1>1, <1>2, <2>1, <2>2, <2>3 DEF FieldsTypeOK
<1> QED
  BY <1>3, <1>6, <1>7, <1>8, <1>9, <1>10, <1>11 DEF FieldsInv

\* A connection that breaks leaves its counts to lost.
LEMMA CloseConnectionInv ==
  ASSUME FieldsInv, NEW c \in Client, CloseConnection(c)
  PROVE  FieldsInv'
<1>1. /\ c \in connections /\ connections' = connections \ {c}
      /\ toBroker' = [toBroker EXCEPT ![c] = <<>>]
      /\ toClient' = [toClient EXCEPT ![c] = <<>>]
      /\ lost' = [f \in Field |-> lost[f] + CountOf(c, f)]
      /\ UNCHANGED <<fields, exists, handlers, unacked, published, subs, requests, loaded,
                     unanswered, replies, known, stale>>
  BY DEF CloseConnection, stateVars, callVars
<1>2. FieldsTypeOK /\ Upward /\ Downward
  BY DEF FieldsInv
<1>3. /\ connections \in SUBSET Client /\ IsFiniteSet(connections) /\ IsFiniteSet(Client)
      /\ lost \in [Field -> Nat] /\ Cardinality(Client) \in Nat
  <2>1. IsFiniteSet(Client) /\ Cardinality(Client) \in Nat
    BY BoundsAssumption, FS_CardinalityType
  <2>2. connections \in SUBSET Client
    BY <1>2 DEF FieldsTypeOK
  <2>3. IsFiniteSet(connections)
    BY <2>1, <2>2, FS_Subset
  <2>4. lost \in [Field -> Nat]
    BY <1>2, <2>1 DEF FieldsTypeOK, Counts
  <2> QED
    BY <2>1, <2>2, <2>3, <2>4
<1>4. /\ toBroker'[c] = <<>> /\ toClient'[c] = <<>>
      /\ \A d \in Client \ {c} : toBroker'[d] = toBroker[d] /\ toClient'[d] = toClient[d]
  BY <1>1, <1>2 DEF Upward, Downward
<1>5. ASSUME NEW d \in connections', NEW f \in Field
      PROVE  /\ CountOf(d, f)' = CountOf(d, f) /\ CountOf(d, f) \in {0, 1}
             /\ Turns(toBroker'[d], f, CountOf(d, f)', Announced(d, f)')
  <2>1. d \in connections /\ toBroker'[d] = toBroker[d] /\ published'[d] = published[d]
    BY <1>1, <1>3, <1>4
  <2>2. CountOf(d, f)' = CountOf(d, f) /\ Announced(d, f)' = Announced(d, f)
    BY <2>1 DEF CountOf, Announced
  <2>3. CountOf(d, f) \in {0, 1}
    BY <2>1 DEF FieldsInv, CountsAgree
  <2>4. Turns(toBroker[d], f, CountOf(d, f), Announced(d, f))
    BY <2>1 DEF FieldsInv, InTurn
  <2> QED
    BY <2>1, <2>2, <2>3, <2>4
<1>6. InTurn'
  BY <1>5 DEF InTurn
<1>7. \A f \in Field : CountOf(c, f) \in {0, 1} /\ lost'[f] = lost[f] + CountOf(c, f)
  BY <1>1 DEF FieldsInv, CountsAgree
<1>8. CountsAgree'
  <2> SUFFICES ASSUME NEW f \in Field
               PROVE  fields'[f] = lost'[f] + Cardinality({d \in connections' : CountOf(d, f)' = 1})
    BY <1>5 DEF CountsAgree
  <2>1. PICK K \in SUBSET connections : K = {d \in connections : CountOf(d, f) = 1}
    OBVIOUS
  <2>2. {d \in connections' : CountOf(d, f)' = 1} = K \ {c}
    BY <1>1, <1>5, <2>1
  <2>3. IsFiniteSet(K) /\ Cardinality(K) \in Nat
    <3>1. IsFiniteSet(K)
      BY <1>3, FS_Subset
    <3> QED
      BY <3>1, FS_CardinalityType
  <2>4. fields[f] = lost[f] + Cardinality(K) /\ lost[f] \in Nat
    BY <1>3, <2>1 DEF FieldsInv, CountsAgree
  <2>5. CASE CountOf(c, f) = 1
    <3>1. c \in K
      BY <1>1, <2>1, <2>5
    <3>2. Cardinality(K \ {c}) = Cardinality(K) - 1
      BY <2>3, <3>1, FS_RemoveElement
    <3>3. lost'[f] = lost[f] + 1 /\ fields'[f] = fields[f]
      BY <1>1, <1>7, <2>5
    <3>4. fields'[f] = lost'[f] + Cardinality(K \ {c})
      BY <2>3, <2>4, <3>2, <3>3
    <3> QED
      BY <2>2, <3>4
  <2>6. CASE CountOf(c, f) = 0
    <3>1. K \ {c} = K
      BY <2>1, <2>6
    <3>2. lost'[f] = lost[f] + 0 /\ fields'[f] = fields[f]
      BY <1>1, <1>7, <2>6
    <3>3. fields'[f] = lost'[f] + Cardinality(K)
      BY <2>3, <2>4, <3>2
    <3> QED
      BY <2>2, <3>1, <3>3
  <2> QED
    BY <1>7, <2>5, <2>6
<1>9. FewLost' /\ \A f \in Field : lost'[f] \in Counts
  <2>1. Client \ connections' = (Client \ connections) \cup {c}
    BY <1>1, <1>3
  <2>2. IsFiniteSet(Client \ connections) /\ c \notin Client \ connections
    BY <1>1, <1>3, FS_Difference
  <2>3. Cardinality(Client \ connections') = Cardinality(Client \ connections) + 1
    BY <2>1, <2>2, FS_AddElement
  <2>4. Cardinality(Client \ connections) \in Nat
    BY <2>2, FS_CardinalityType
  <2>5. ASSUME NEW f \in Field
        PROVE  lost'[f] \in Nat /\ lost'[f] <= Cardinality(Client \ connections')
    <3>1. lost[f] <= Cardinality(Client \ connections) /\ lost[f] \in Nat
      BY <1>3 DEF FieldsInv, FewLost
    <3>2. lost'[f] = lost[f] + CountOf(c, f) /\ CountOf(c, f) \in {0, 1}
      BY <1>7
    <3> QED
      BY <2>3, <2>4, <3>1, <3>2
  <2>6. connections' \in SUBSET Client /\ {} \in SUBSET connections'
    BY <1>1, <1>3
  <2>7. \A f \in Field : lost'[f] \in Counts
    BY <2>5, <2>6, CountsFit
  <2> QED
    BY <2>5, <2>7 DEF FewLost
<1>10. Upward' /\ Downward'
  <2>1. <<>> \in Seq(ToBrokerMsg) /\ <<>> \in Seq(ToClientMsg) /\ DOMAIN <<>> = {}
    OBVIOUS
  <2>2. toBroker' \in [Client -> Seq(ToBrokerMsg)] /\ toClient' \in [Client -> Seq(ToClientMsg)]
    BY <1>1, <1>2, <2>1 DEF Upward, Downward
  <2>3. \A d \in Client \ connections' : toBroker'[d] = <<>> /\ toClient'[d] = <<>>
    BY <1>1, <1>2, <1>4 DEF Upward, Downward
  <2>4. ASSUME NEW d \in Client
        PROVE  /\ \A k \in DOMAIN toBroker'[d] :
                     /\ toBroker'[d][k].fields # {} <=> Announces(toBroker'[d][k])
                     /\ toBroker'[d][k].fields # {} => toBroker'[d][k].req[1] = d
               /\ \A k \in DOMAIN toClient'[d] : toClient'[d][k].type = "change" => toClient'[d][k].exists
    <3>1. CASE d = c
      BY <1>4, <2>1, <3>1
    <3>2. CASE d # c
      BY <1>2, <1>4, <3>2 DEF Upward, Downward
    <3> QED
      BY <3>1, <3>2
  <2>5. Upward'
    BY <2>2, <2>3, <2>4 DEF Upward
  <2>6. replies' \in [Client -> Seq(ToClientMsg)]
    BY <1>1, <1>2 DEF Downward
  <2> QED
    BY <2>2, <2>3, <2>4, <2>5, <2>6 DEF Downward
<1>11. CallsCounted'
  BY <1>1 DEF FieldsInv, CallsCounted
<1>12. FieldsTypeOK'
  <2>1. connections' \subseteq Client /\ lost' \in [Field -> Counts]
    BY <1>1, <1>3, <1>9
  <2> QED
    BY <1>1, <1>2, <2>1 DEF FieldsTypeOK
<1> QED
  BY <1>6, <1>8, <1>9, <1>10, <1>11, <1>12 DEF FieldsInv

\* Every step keeps the invariant.
LEMMA FieldsStepInv == FieldsInv /\ [FieldsNext]_fieldsVars => FieldsInv'
<1> SUFFICES ASSUME FieldsInv, [FieldsNext]_fieldsVars
             PROVE  FieldsInv'
  OBVIOUS
<1>1. CASE UNCHANGED fieldsVars
  <2>1. UNCHANGED <<fields, exists, handlers, unacked, connections, toBroker, toClient, published, subs, requests,
                    loaded, unanswered, replies, known, lost, stale>>
    BY <1>1 DEF fieldsVars, stateVars, callVars
  <2>2. FieldsTypeOK' /\ Upward' /\ Downward' /\ CallsCounted' /\ FewLost'
    BY <2>1 DEF FieldsInv, FieldsTypeOK, Upward, Downward, CallsCounted, FewLost
  <2>3. \A d \in connections : \A f \in Field : Announced(d, f)' = Announced(d, f)
    BY <2>1 DEF Announced
  <2>4. InTurn' /\ CountsAgree'
    BY <2>1, <2>3, CountsUntouched
  <2> QED
    BY <2>2, <2>4 DEF FieldsInv
<1>2. ASSUME NEW c \in Client, NEW fs \in (SUBSET Field) \ {{}}, Publish(c, fs)
      PROVE  FieldsInv'
  BY <1>2, PublishInv
<1>3. ASSUME NEW c \in Client, NEW k \in DOMAIN subs[c], Unsubscribe(c, k)
      PROVE  FieldsInv'
  BY <1>3, UnsubscribeInv
<1>4. ASSUME NEW c \in Client, Load(c)
      PROVE  FieldsInv'
  BY <1>4, LoadInv
<1>5. ASSUME NEW c \in Client, ClientStep(c)
      PROVE  FieldsInv'
  BY <1>5, ReceiveChangeInv, ReceiveReplyInv, StoreInv DEF ClientStep
<1>6. ASSUME NEW c \in Client, BrokerStep(c)
      PROVE  FieldsInv'
  BY <1>6, HandleAnnouncementInv, HandleAckInv, HandleAllInv DEF BrokerStep
<1>7. ASSUME NEW c \in Client, CloseConnection(c)
      PROVE  FieldsInv'
  BY <1>7, CloseConnectionInv
<1>8. ASSUME NEW r \in Requests, FinishHandler(r)
      PROVE  FieldsInv'
  BY <1>8, FinishHandlerInv
<1> QED
  BY <1>1, <1>2, <1>3, <1>4, <1>5, <1>6, <1>7, <1>8 DEF FieldsNext

\* The invariant of the announced fields.
THEOREM FieldsInvariant == FieldsSpec => []FieldsInv
BY FieldsInitInv, FieldsStepInv, PTL DEF FieldsSpec

\* Consistent: the broker counts a field once for every connected client that
\* has announced it (publishedEntityFields) and for those that left without
\* taking it back, for any clients, fields, calls and broken connections, and
\* whether or not several messages share a macrotask.
THEOREM FieldsConsistent == FieldsSpec => []Consistent
<1>1. FieldsInv => Consistent
  BY DEF FieldsInv, Consistent
<1> QED
  BY <1>1, FieldsInvariant, PTL

-----------------------------------------------------------------------------
(* KnownFresh                                                              *)

\* A step that reaches no client.
LEMMA FreshKept ==
  ASSUME FreshInv, UNCHANGED <<fields, exists, handlers, connections, toClient, replies, known, stale>>,
         \A c \in connections : loaded'[c] = "yes" => loaded[c] = "yes"
  PROVE  Unborn' /\ BlankFirst' /\ Newest'
<1>1. Unborn' /\ BlankFirst'
  BY DEF FreshInv, Unborn, BlankFirst, Blank
<1>2. Newest'
  BY DEF FreshInv, Newest, Latest, Heard, Present
<1> QED
  BY <1>1, <1>2

\* The broker sends message m to the clients of D.
LEMMA FreshSends ==
  ASSUME FreshInv, UNCHANGED <<replies, known, stale, connections>>,
         NEW D \in SUBSET connections, NEW m \in ToClientMsg, ~m.exists => ~exists /\ m.fields = {},
         toClient' = [d \in Client |-> IF d \in D THEN Append(toClient[d], m) ELSE toClient[d]]
  PROVE  /\ BlankFirst'
         /\ \A d \in D : toClient'[d] # <<>> /\ toClient'[d][Len(toClient'[d])] = m
         /\ \A d \in connections \ D : toClient'[d] = toClient[d]
         /\ m.fields = {} /\ ~m.exists /\ Unborn =>
               \A d \in Client : \A k \in DOMAIN toClient'[d] : ~exists => Blank(toClient'[d][k])
<1>1. /\ connections \subseteq Client /\ BlankFirst /\ Unborn
      /\ toClient \in [Client -> Seq(ToClientMsg)]
  BY DEF FreshInv, FieldsInv, FieldsTypeOK, Downward
<1>2. ASSUME NEW d \in Client
      PROVE  \E q \in Seq(ToClientMsg) :
                /\ q = toClient[d] /\ Len(q) \in Nat /\ DOMAIN q = 1 .. Len(q)
                /\ IF d \in D THEN /\ Len(toClient'[d]) = Len(q) + 1 /\ DOMAIN toClient'[d] = 1 .. Len(q) + 1
                                   /\ toClient'[d][Len(q) + 1] = m /\ toClient'[d] # <<>>
                                   /\ \A k \in 1 .. Len(q) : toClient'[d][k] = q[k]
                              ELSE toClient'[d] = q
  <2> PICK q \in Seq(ToClientMsg) : q = toClient[d]
    BY <1>1
  <2> PICK r : r = Append(q, m)
    OBVIOUS
  <2>1. /\ DOMAIN q = 1 .. Len(q) /\ DOMAIN r = 1 .. Len(q) + 1 /\ Len(q) \in Nat /\ Len(r) = Len(q) + 1
        /\ \A k \in 1 .. Len(q) : r[k] = q[k]
        /\ r[Len(q) + 1] = m
    BY AppendProperties
  <2>2. r # <<>>
    BY <2>1
  <2>3. toClient'[d] = IF d \in D THEN r ELSE q
    OBVIOUS
  <2> QED
    BY <2>1, <2>2, <2>3
<1>3. ASSUME NEW d \in connections, NEW k \in DOMAIN toClient'[d], ~toClient'[d][k].exists
      PROVE  /\ Blank(toClient'[d][k]) /\ known[d] = {}
             /\ \A j \in 1 .. k : ~toClient'[d][j].exists
             /\ \A j \in DOMAIN replies[d] : ~replies[d][j].exists
  <2> PICK q \in Seq(ToClientMsg) :
                /\ q = toClient[d] /\ Len(q) \in Nat /\ DOMAIN q = 1 .. Len(q)
                /\ IF d \in D THEN /\ Len(toClient'[d]) = Len(q) + 1 /\ DOMAIN toClient'[d] = 1 .. Len(q) + 1
                                   /\ toClient'[d][Len(q) + 1] = m /\ toClient'[d] # <<>>
                                   /\ \A i \in 1 .. Len(q) : toClient'[d][i] = q[i]
                              ELSE toClient'[d] = q
    BY <1>1, <1>2
  <2>1. CASE k \in DOMAIN q
    <3>1. k \in 1 .. Len(q) /\ \A j \in 1 .. k : j \in 1 .. Len(q) /\ toClient'[d][j] = q[j]
      <4>1. \A i \in 1 .. Len(q) : toClient'[d][i] = q[i]
        OBVIOUS
      <4>2. k \in 1 .. Len(q) /\ Len(q) \in Nat
        BY <2>1
      <4> HIDE <2>1
      <4>3. \A j \in 1 .. k : j \in 1 .. Len(q)
        BY <4>2
      <4> QED
        BY <4>1, <4>2, <4>3
    <3>2. toClient'[d][k] = q[k] /\ ~q[k].exists
      BY <1>3, <3>1
    <3>3. /\ Blank(q[k]) /\ known[d] = {}
          /\ \A j \in 1 .. k : ~q[j].exists
          /\ \A j \in DOMAIN replies[d] : ~replies[d][j].exists
      BY <1>1, <2>1, <3>2 DEF BlankFirst
    <3> QED
      BY <3>1, <3>2, <3>3
  <2>2. CASE k \notin DOMAIN q
    <3>1. d \in D /\ k = Len(q) + 1 /\ toClient'[d][k] = m /\ \A i \in 1 .. Len(q) : toClient'[d][i] = q[i]
      BY <1>3, <2>2
    <3>2. ~m.exists /\ ~exists /\ m.fields = {}
      BY <1>3, <3>1
    <3>3. /\ known[d] = {} /\ \A i \in DOMAIN q : Blank(q[i])
          /\ \A i \in DOMAIN replies[d] : Blank(replies[d][i])
      BY <1>1, <3>2 DEF Unborn
    <3>4. \A j \in 1 .. k : ~toClient'[d][j].exists
      <4> TAKE j \in 1 .. k
      <4>1. CASE j = k
        BY <3>1, <3>2, <4>1
      <4>2. CASE j # k
        <5>1. j \in 1 .. Len(q) /\ j \in DOMAIN q
          BY <3>1, <4>2
        <5> QED
          BY <3>1, <3>3, <5>1 DEF Blank
      <4> QED
        BY <4>1, <4>2
    <3> QED
      BY <3>1, <3>2, <3>3, <3>4 DEF Blank
  <2> QED
    BY <2>1, <2>2
<1>4. BlankFirst'
  <2>1. ASSUME NEW d \in connections
        PROVE  /\ \A k \in DOMAIN replies[d] : ~replies[d][k].exists =>
                     /\ Blank(replies[d][k])
                     /\ \A j \in 1 .. k : ~replies[d][j].exists
               /\ d \notin stale /\ replies[d] # <<>> /\ ~replies[d][Len(replies[d])].exists => known[d] = {}
    BY <1>1, <2>1 DEF BlankFirst
  <2>2. \A d \in connections : \A k \in DOMAIN toClient'[d] : ~toClient'[d][k].exists =>
             /\ Blank(toClient'[d][k]) /\ known[d] = {}
             /\ \A j \in 1 .. k : ~toClient'[d][j].exists
             /\ \A j \in DOMAIN replies[d] : ~replies[d][j].exists
    BY <1>3
  <2>3. replies' = replies /\ known' = known /\ stale' = stale /\ connections' = connections
    OBVIOUS
  <2>4. ASSUME NEW d \in connections
        PROVE  /\ \A k \in DOMAIN toClient'[d] : ~toClient'[d][k].exists =>
                     /\ Blank(toClient'[d][k]) /\ known[d] = {}
                     /\ \A j \in 1 .. k : ~toClient'[d][j].exists
                     /\ \A j \in DOMAIN replies[d] : ~replies[d][j].exists
               /\ \A k \in DOMAIN replies[d] : ~replies[d][k].exists =>
                     /\ Blank(replies[d][k])
                     /\ \A j \in 1 .. k : ~replies[d][j].exists
               /\ d \notin stale /\ replies[d] # <<>> /\ ~replies[d][Len(replies[d])].exists => known[d] = {}
    BY <2>1, <2>2
  <2> QED
    BY <2>3, <2>4 DEF BlankFirst, Blank
<1>5. \A d \in D : toClient'[d] # <<>> /\ toClient'[d][Len(toClient'[d])] = m
  <2> TAKE d \in D
  <2> PICK q \in Seq(ToClientMsg) :
                /\ IF d \in D THEN /\ Len(toClient'[d]) = Len(q) + 1 /\ DOMAIN toClient'[d] = 1 .. Len(q) + 1
                                   /\ toClient'[d][Len(q) + 1] = m /\ toClient'[d] # <<>>
                                   /\ \A i \in 1 .. Len(q) : toClient'[d][i] = q[i]
                              ELSE toClient'[d] = q
    BY <1>1, <1>2
  <2> QED
    OBVIOUS
<1>6. \A d \in connections \ D : toClient'[d] = toClient[d]
  BY <1>1
<1>7. ASSUME m.fields = {}, ~m.exists, NEW d \in Client, NEW k \in DOMAIN toClient'[d], ~exists
      PROVE  Blank(toClient'[d][k])
  <2> PICK q \in Seq(ToClientMsg) :
                /\ q = toClient[d] /\ Len(q) \in Nat /\ DOMAIN q = 1 .. Len(q)
                /\ IF d \in D THEN /\ Len(toClient'[d]) = Len(q) + 1 /\ DOMAIN toClient'[d] = 1 .. Len(q) + 1
                                   /\ toClient'[d][Len(q) + 1] = m /\ toClient'[d] # <<>>
                                   /\ \A i \in 1 .. Len(q) : toClient'[d][i] = q[i]
                              ELSE toClient'[d] = q
    BY <1>2
  <2>1. \A i \in DOMAIN q : Blank(q[i])
    BY <1>1, <1>7 DEF Unborn
  <2>2. (k \in DOMAIN q /\ toClient'[d][k] = q[k]) \/ toClient'[d][k] = m
    BY <1>7
  <2> QED
    BY <1>7, <2>1, <2>2 DEF Blank
<1> QED
  BY <1>4, <1>5, <1>6, <1>7

\* The messages to client c when it takes the first one.
LEMMA Taken ==
  ASSUME FieldsInv, NEW c \in Client, toClient[c] # <<>>, toClient' = [toClient EXCEPT ![c] = Tail(@)]
  PROVE  \E n \in Nat :
            /\ DOMAIN toClient[c] = 1 .. n + 1 /\ Len(toClient[c]) = n + 1 /\ c \in connections
            /\ DOMAIN toClient'[c] = 1 .. n /\ Len(toClient'[c]) = n /\ (toClient'[c] = <<>> <=> n = 0)
            /\ \A k \in 1 .. n : toClient'[c][k] = toClient[c][k + 1]
            /\ Head(toClient[c]) = toClient[c][1] /\ toClient[c][1] \in ToClientMsg
            /\ toClient[c][1].type = "change" => toClient[c][1].exists
            /\ \A d \in Client \ {c} : toClient'[d] = toClient[d]
<1>1. Downward /\ c \in connections
  BY Connected DEF FieldsInv
<1> PICK q \in Seq(ToClientMsg) : q = toClient[c]
  BY <1>1 DEF Downward
<1>2. /\ Tail(q) \in Seq(ToClientMsg) /\ DOMAIN q = 1 .. Len(q) /\ DOMAIN Tail(q) = 1 .. Len(q) - 1
      /\ Len(q) \in Nat \ {0} /\ Head(q) = q[1] /\ q[1] \in ToClientMsg /\ Len(Tail(q)) = Len(q) - 1
      /\ \A k \in 1 .. Len(q) - 1 : Tail(q)[k] = q[k + 1]
  BY TailAt
<1> PICK r \in Seq(ToClientMsg) : r = Tail(q)
  BY <1>2
<1>3. r = <<>> <=> Len(r) = 0
  BY EmptySeq
<1>4. toClient'[c] = r /\ \A d \in Client \ {c} : toClient'[d] = toClient[d]
  BY <1>1 DEF Downward
<1>5. q[1].type = "change" => q[1].exists
  <2>1. 1 \in DOMAIN q
    BY <1>2
  <2> QED
    BY <1>1, <2>1 DEF Downward
<1>6. Len(q) - 1 \in Nat /\ Len(q) = (Len(q) - 1) + 1
  BY <1>2
<1> WITNESS Len(q) - 1 \in Nat
<1> QED
  BY <1>1, <1>2, <1>3, <1>4, <1>5, <1>6

\* A push is stored at once; where answers wait to be stored it overtakes them.
LEMMA ReceiveChangeFresh ==
  ASSUME FreshInv, NEW c \in Client, ReceiveChange(c)
  PROVE  Unborn' /\ BlankFirst' /\ Newest'
<1>1. /\ toClient[c] # <<>> /\ Head(toClient[c]).type = "change"
      /\ toClient' = [toClient EXCEPT ![c] = Tail(@)]
      /\ known' = [known EXCEPT ![c] = Head(toClient[c]).fields]
      /\ stale' = IF replies[c] = <<>> THEN stale \ {c} ELSE stale \cup {c}
      /\ UNCHANGED <<fields, exists, handlers, connections, loaded, replies>>
  BY DEF ReceiveChange, Receives, stateVars, callVars
<1>2. /\ FieldsInv /\ Unborn /\ BlankFirst /\ Newest /\ connections \subseteq Client
      /\ known \in [Client -> SUBSET Field]
  BY DEF FreshInv, FieldsInv, FieldsTypeOK
<1>3. PICK n \in Nat :
         /\ DOMAIN toClient[c] = 1 .. n + 1 /\ Len(toClient[c]) = n + 1 /\ c \in connections
         /\ DOMAIN toClient'[c] = 1 .. n /\ Len(toClient'[c]) = n /\ (toClient'[c] = <<>> <=> n = 0)
         /\ \A k \in 1 .. n : toClient'[c][k] = toClient[c][k + 1]
         /\ Head(toClient[c]) = toClient[c][1] /\ toClient[c][1] \in ToClientMsg
         /\ toClient[c][1].type = "change" => toClient[c][1].exists
         /\ \A d \in Client \ {c} : toClient'[d] = toClient[d]
  BY <1>1, <1>2, Taken
<1> PICK m : m = toClient[c][1]
  OBVIOUS
<1>4. m.exists /\ known'[c] = m.fields /\ \A d \in Client \ {c} : known'[d] = known[d]
  BY <1>1, <1>2, <1>3
<1>5. 1 \in DOMAIN toClient[c]
  BY <1>3
<1>6. exists
  BY <1>2, <1>4, <1>5 DEF Unborn, Blank
<1>7. Unborn'
  BY <1>1, <1>2, <1>6 DEF Unborn
<1>8. \A k \in 1 .. n : toClient'[c][k].exists
  <2> TAKE k \in 1 .. n
  <2>1. k + 1 \in DOMAIN toClient[c] /\ 1 \in 1 .. k + 1 /\ toClient'[c][k] = toClient[c][k + 1]
    BY <1>3
  <2>2. ~toClient[c][k + 1].exists => ~m.exists
    BY <1>2, <1>3, <2>1 DEF BlankFirst
  <2> QED
    BY <1>4, <2>1, <2>2
<1>9. /\ c \notin stale' => replies[c] = <<>>
      /\ \A d \in Client \ {c} : d \in stale' <=> d \in stale
  BY <1>1
<1>10. BlankFirst'
  <2>1. ASSUME NEW d \in connections
        PROVE  /\ \A k \in DOMAIN toClient'[d] : ~toClient'[d][k].exists =>
                     /\ Blank(toClient'[d][k]) /\ known'[d] = {}
                     /\ \A j \in 1 .. k : ~toClient'[d][j].exists
                     /\ \A j \in DOMAIN replies[d] : ~replies[d][j].exists
               /\ \A k \in DOMAIN replies[d] : ~replies[d][k].exists =>
                     /\ Blank(replies[d][k])
                     /\ \A j \in 1 .. k : ~replies[d][j].exists
               /\ d \notin stale' /\ replies[d] # <<>> /\ ~replies[d][Len(replies[d])].exists => known'[d] = {}
    <3>1. CASE d = c
      <4>1. \A k \in DOMAIN replies[d] : ~replies[d][k].exists =>
                     /\ Blank(replies[d][k])
                     /\ \A j \in 1 .. k : ~replies[d][j].exists
        BY <1>2 DEF BlankFirst
      <4> QED
        BY <1>3, <1>8, <1>9, <3>1, <4>1
    <3>2. CASE d # c
      <4>1. toClient'[d] = toClient[d] /\ known'[d] = known[d] /\ (d \in stale' <=> d \in stale)
        BY <1>2, <1>3, <1>4, <1>9, <3>2
      <4> QED
        BY <1>2, <4>1 DEF BlankFirst
    <3> QED
      BY <3>1, <3>2
  <2> QED
    BY <1>1, <2>1 DEF BlankFirst, Blank
<1>11. Newest'
  <2>1. ASSUME NEW d \in connections, \A r \in handlers : r[1] # d
        PROVE  IF toClient'[d] # <<>> THEN toClient'[d][Len(toClient'[d])].fields = Present(fields)
               ELSE d \notin stale' =>
                    IF replies[d] # <<>> THEN replies[d][Len(replies[d])].fields = Present(fields)
                    ELSE loaded[d] = "yes" => known'[d] = Present(fields)
    <3>0. Latest(d)
      BY <1>2, <2>1 DEF Newest
    <3>1. CASE d = c
      <4>1. toClient[c][n + 1].fields = Present(fields)
        BY <1>1, <1>3, <3>0, <3>1 DEF Latest
      <4>2. CASE n = 0
        <5>1. m.fields = Present(fields)
          BY <4>1, <4>2
        <5> QED
          BY <1>3, <1>4, <1>9, <3>1, <4>2, <5>1
      <4>3. CASE n # 0
        <5>1. n \in 1 .. n
          BY <4>3
        <5>2. toClient'[c][n] = toClient[c][n + 1]
          BY <1>3, <5>1
        <5> QED
          BY <1>3, <3>1, <4>1, <4>3, <5>2
      <4> QED
        BY <4>2, <4>3
    <3>2. CASE d # c
      <4>1. toClient'[d] = toClient[d] /\ known'[d] = known[d] /\ (d \in stale' <=> d \in stale)
        BY <1>2, <1>3, <1>4, <1>9, <3>2
      <4> QED
        BY <3>0, <4>1 DEF Latest, Heard
    <3> QED
      BY <3>1, <3>2
  <2>2. Present(fields)' = Present(fields)
    BY <1>1 DEF Present
  <2> QED
    BY <1>1, <2>1, <2>2 DEF Newest, Latest, Heard
<1> QED
  BY <1>7, <1>10, <1>11

\* An answer joins those that wait to be stored.
LEMMA ReceiveReplyFresh ==
  ASSUME FreshInv, NEW c \in Client, ReceiveReply(c)
  PROVE  Unborn' /\ BlankFirst' /\ Newest'
<1>1. /\ toClient[c] # <<>>
      /\ toClient' = [toClient EXCEPT ![c] = Tail(@)]
      /\ replies' = [replies EXCEPT ![c] = Append(@, Head(toClient[c]))]
      /\ stale' = stale \ {c}
      /\ UNCHANGED <<fields, exists, handlers, connections, loaded, known>>
  BY DEF ReceiveReply, Receives, stateVars, callVars
<1>2. /\ FieldsInv /\ Unborn /\ BlankFirst /\ Newest /\ connections \subseteq Client
      /\ replies \in [Client -> Seq(ToClientMsg)]
  BY DEF FreshInv, FieldsInv, FieldsTypeOK, Downward
<1>3. PICK n \in Nat :
         /\ DOMAIN toClient[c] = 1 .. n + 1 /\ Len(toClient[c]) = n + 1 /\ c \in connections
         /\ DOMAIN toClient'[c] = 1 .. n /\ Len(toClient'[c]) = n /\ (toClient'[c] = <<>> <=> n = 0)
         /\ \A k \in 1 .. n : toClient'[c][k] = toClient[c][k + 1]
         /\ Head(toClient[c]) = toClient[c][1] /\ toClient[c][1] \in ToClientMsg
         /\ toClient[c][1].type = "change" => toClient[c][1].exists
         /\ \A d \in Client \ {c} : toClient'[d] = toClient[d]
  BY <1>1, <1>2, Taken
<1> PICK m \in ToClientMsg : m = toClient[c][1]
  BY <1>3
<1>4. PICK p \in Nat :
         /\ DOMAIN replies[c] = 1 .. p
         /\ DOMAIN replies'[c] = 1 .. p + 1 /\ Len(replies'[c]) = p + 1
         /\ replies'[c][p + 1] = m /\ replies'[c] # <<>>
         /\ \A k \in 1 .. p : replies'[c][k] = replies[c][k]
         /\ \A d \in Client \ {c} : replies'[d] = replies[d]
  <2> PICK q \in Seq(ToClientMsg) : q = replies[c]
    BY <1>2
  <2> PICK r : r = Append(q, m)
    OBVIOUS
  <2>1. /\ DOMAIN q = 1 .. Len(q) /\ DOMAIN r = 1 .. Len(q) + 1 /\ Len(q) \in Nat /\ Len(r) = Len(q) + 1
        /\ \A k \in 1 .. Len(q) : r[k] = q[k]
        /\ r[Len(q) + 1] = m
    BY AppendProperties
  <2>2. r # <<>>
    BY <2>1
  <2>3. replies'[c] = r /\ \A d \in Client \ {c} : replies'[d] = replies[d]
    BY <1>1, <1>2, <1>3
  <2> WITNESS Len(q) \in Nat
  <2> QED
    BY <2>1, <2>2, <2>3
<1>5. 1 \in DOMAIN toClient[c]
  BY <1>3
<1>6. Unborn'
  <2> SUFFICES ASSUME ~exists, NEW d \in Client
               PROVE  /\ \A k \in DOMAIN toClient'[d] : Blank(toClient'[d][k])
                      /\ \A k \in DOMAIN replies'[d] : Blank(replies'[d][k])
    BY <1>1, <1>2 DEF Unborn, Blank
  <2>1. /\ \A k \in DOMAIN toClient[d] : Blank(toClient[d][k])
        /\ \A k \in DOMAIN replies[d] : Blank(replies[d][k])
    BY <1>2 DEF Unborn
  <2>2. CASE d = c
    <3>1. \A k \in 1 .. n : k + 1 \in DOMAIN toClient[c]
      BY <1>3
    <3>2. \A k \in 1 .. p + 1 : k = p + 1 \/ k \in 1 .. p
      OBVIOUS
    <3>3. Blank(m)
      BY <1>5, <2>1, <2>2
    <3>4. ASSUME NEW k \in 1 .. p + 1
          PROVE  Blank(replies'[c][k])
      <4>1. CASE k = p + 1
        BY <1>4, <3>3, <4>1
      <4>2. CASE k \in 1 .. p
        BY <1>4, <2>1, <2>2, <4>2
      <4> QED
        BY <3>2, <4>1, <4>2
    <3> QED
      BY <1>3, <1>4, <2>1, <2>2, <3>1, <3>4
  <2>3. CASE d # c
    BY <1>3, <1>4, <2>1, <2>3
  <2> QED
    BY <2>2, <2>3
<1>7. /\ ~m.exists => Blank(m) /\ known[c] = {} /\ \A j \in 1 .. p + 1 : ~replies'[c][j].exists
      /\ \A k \in 1 .. p : ~replies[c][k].exists =>
            Blank(replies[c][k]) /\ \A j \in 1 .. k : ~replies[c][j].exists
  <2>1. ~m.exists => Blank(m) /\ known[c] = {} /\ \A j \in 1 .. p : ~replies[c][j].exists
    BY <1>2, <1>3, <1>4, <1>5 DEF BlankFirst
  <2>2. ~m.exists => \A j \in 1 .. p + 1 : ~replies'[c][j].exists
    <3> SUFFICES ASSUME ~m.exists, NEW j \in 1 .. p + 1
                 PROVE  ~replies'[c][j].exists
      OBVIOUS
    <3>1. CASE j = p + 1
      BY <1>4, <3>1
    <3>2. CASE j # p + 1
      <4>1. j \in 1 .. p
        BY <3>2
      <4> QED
        BY <1>4, <2>1, <4>1
    <3> QED
      BY <3>1, <3>2
  <2>3. \A k \in 1 .. p : ~replies[c][k].exists =>
            Blank(replies[c][k]) /\ \A j \in 1 .. k : ~replies[c][j].exists
    BY <1>2, <1>3, <1>4 DEF BlankFirst
  <2> QED
    BY <2>1, <2>2, <2>3
<1>8. BlankFirst'
  <2>1. ASSUME NEW d \in connections
        PROVE  /\ \A k \in DOMAIN toClient'[d] : ~toClient'[d][k].exists =>
                     /\ Blank(toClient'[d][k]) /\ known[d] = {}
                     /\ \A j \in 1 .. k : ~toClient'[d][j].exists
                     /\ \A j \in DOMAIN replies'[d] : ~replies'[d][j].exists
               /\ \A k \in DOMAIN replies'[d] : ~replies'[d][k].exists =>
                     /\ Blank(replies'[d][k])
                     /\ \A j \in 1 .. k : ~replies'[d][j].exists
               /\ d \notin stale' /\ replies'[d] # <<>> /\ ~replies'[d][Len(replies'[d])].exists => known[d] = {}
    <3>1. CASE d = c
      <4>1. ASSUME NEW k \in 1 .. n, ~toClient'[c][k].exists
            PROVE  /\ Blank(toClient'[c][k]) /\ known[c] = {} /\ ~m.exists
                   /\ \A j \in 1 .. k : ~toClient'[c][j].exists
        <5>1. k + 1 \in DOMAIN toClient[c] /\ 1 \in 1 .. k + 1 /\ toClient'[c][k] = toClient[c][k + 1]
          BY <1>3
        <5>2. /\ Blank(toClient[c][k + 1]) /\ known[c] = {}
              /\ \A j \in 1 .. k + 1 : ~toClient[c][j].exists
          BY <1>2, <1>3, <4>1, <5>1 DEF BlankFirst
        <5>3. \A j \in 1 .. k : j + 1 \in 1 .. k + 1 /\ j \in 1 .. n
          OBVIOUS
        <5> QED
          BY <1>3, <5>1, <5>2, <5>3
      <4>2. ASSUME NEW k \in 1 .. p + 1, ~replies'[c][k].exists
            PROVE  Blank(replies'[c][k]) /\ \A j \in 1 .. k : ~replies'[c][j].exists
        <5>1. CASE k = p + 1
          BY <1>4, <1>7, <4>2, <5>1
        <5>2. CASE k # p + 1
          <6>1. k \in 1 .. p /\ \A j \in 1 .. k : j \in 1 .. p
            BY <5>2
          <6>2. replies'[c][k] = replies[c][k] /\ \A j \in 1 .. k : replies'[c][j] = replies[c][j]
            BY <1>4, <6>1
          <6> QED
            BY <1>7, <4>2, <6>1, <6>2
        <5> QED
          BY <5>1, <5>2
      <4>3. ~replies'[c][Len(replies'[c])].exists => known[c] = {}
        BY <1>4, <1>7
      <4> QED
        BY <1>3, <1>4, <1>7, <3>1, <4>1, <4>2, <4>3
    <3>2. CASE d # c
      <4>1. toClient'[d] = toClient[d] /\ replies'[d] = replies[d] /\ (d \in stale' <=> d \in stale)
        BY <1>1, <1>2, <1>3, <1>4, <3>2
      <4> QED
        BY <1>2, <4>1 DEF BlankFirst
    <3> QED
      BY <3>1, <3>2
  <2> QED
    BY <1>1, <2>1 DEF BlankFirst, Blank
<1>9. Newest'
  <2>1. ASSUME NEW d \in connections, \A r \in handlers : r[1] # d
        PROVE  IF toClient'[d] # <<>> THEN toClient'[d][Len(toClient'[d])].fields = Present(fields)
               ELSE d \notin stale' =>
                    IF replies'[d] # <<>> THEN replies'[d][Len(replies'[d])].fields = Present(fields)
                    ELSE loaded[d] = "yes" => known[d] = Present(fields)
    <3>0. Latest(d)
      BY <1>2, <2>1 DEF Newest
    <3>1. CASE d = c
      <4>1. toClient[c][n + 1].fields = Present(fields)
        BY <1>1, <1>3, <3>0, <3>1 DEF Latest
      <4>2. CASE n = 0
        <5>1. m.fields = Present(fields)
          BY <4>1, <4>2
        <5>2. replies'[c][Len(replies'[c])] = m
          BY <1>4
        <5> QED
          BY <1>3, <1>4, <3>1, <4>2, <5>1, <5>2
      <4>3. CASE n # 0
        <5>1. n \in 1 .. n
          BY <4>3
        <5>2. toClient'[c][n] = toClient[c][n + 1]
          BY <1>3, <5>1
        <5> QED
          BY <1>3, <3>1, <4>1, <4>3, <5>2
      <4> QED
        BY <4>2, <4>3
    <3>2. CASE d # c
      <4>1. toClient'[d] = toClient[d] /\ replies'[d] = replies[d] /\ (d \in stale' <=> d \in stale)
        BY <1>1, <1>2, <1>3, <1>4, <3>2
      <4> QED
        BY <3>0, <4>1 DEF Latest, Heard
    <3> QED
      BY <3>1, <3>2
  <2>2. Present(fields)' = Present(fields)
    BY <1>1 DEF Present
  <2> QED
    BY <1>1, <2>1, <2>2 DEF Newest, Latest, Heard
<1> QED
  BY <1>6, <1>8, <1>9

\* An answer from before the entity existed leaves a client that knows of nothing.
LEMMA StoreFresh ==
  ASSUME FreshInv, NEW c \in Client, Store(c)
  PROVE  Unborn' /\ BlankFirst' /\ Newest'
<1> PICK m : m = Head(replies[c])
  OBVIOUS
<1>1. /\ replies[c] # <<>> /\ replies' = [replies EXCEPT ![c] = Tail(@)]
      /\ known' = [known EXCEPT ![c] = IF m.exists THEN m.fields ELSE @]
      /\ UNCHANGED <<fields, exists, handlers, connections, toClient, stale>>
  BY DEF Store, stateVars
<1>2. /\ Unborn /\ BlankFirst /\ Newest /\ connections \subseteq Client
      /\ replies \in [Client -> Seq(ToClientMsg)] /\ known \in [Client -> SUBSET Field]
  BY DEF FreshInv, FieldsInv, FieldsTypeOK, Downward
<1>3. PICK n \in Nat :
         /\ DOMAIN replies[c] = 1 .. n + 1 /\ Len(replies[c]) = n + 1 /\ m = replies[c][1]
         /\ DOMAIN replies'[c] = 1 .. n /\ Len(replies'[c]) = n /\ (replies'[c] = <<>> <=> n = 0)
         /\ \A k \in 1 .. n : replies'[c][k] = replies[c][k + 1]
         /\ \A d \in Client \ {c} : replies'[d] = replies[d]
  <2> PICK q \in Seq(ToClientMsg) : q = replies[c]
    BY <1>2
  <2>1. /\ Tail(q) \in Seq(ToClientMsg) /\ DOMAIN q = 1 .. Len(q) /\ DOMAIN Tail(q) = 1 .. Len(q) - 1
        /\ Len(q) \in Nat \ {0} /\ Head(q) = q[1] /\ Len(Tail(q)) = Len(q) - 1
        /\ \A k \in 1 .. Len(q) - 1 : Tail(q)[k] = q[k + 1]
    BY <1>1, TailAt
  <2> PICK r \in Seq(ToClientMsg) : r = Tail(q)
    BY <2>1
  <2>2. r = <<>> <=> Len(r) = 0
    BY EmptySeq
  <2>3. replies'[c] = r /\ \A d \in Client \ {c} : replies'[d] = replies[d]
    BY <1>1, <1>2
  <2>4. Len(q) - 1 \in Nat /\ Len(q) = (Len(q) - 1) + 1
    BY <2>1
  <2> WITNESS Len(q) - 1 \in Nat
  <2> QED
    BY <2>1, <2>2, <2>3, <2>4
<1>4. /\ m.exists => known'[c] = m.fields
      /\ ~m.exists => known'[c] = known[c]
      /\ \A d \in Client \ {c} : known'[d] = known[d]
  BY <1>1, <1>2
<1>5. /\ 1 \in DOMAIN replies[c]
      /\ \A k \in 1 .. n : k + 1 \in DOMAIN replies[c] /\ 1 \in 1 .. k + 1
  BY <1>3
<1>6. Unborn'
  <2> SUFFICES ASSUME ~exists, NEW d \in Client
               PROVE  known'[d] = {} /\ \A k \in DOMAIN replies'[d] : Blank(replies'[d][k])
    BY <1>1, <1>2 DEF Unborn, Blank
  <2>1. known[d] = {} /\ \A k \in DOMAIN replies[d] : Blank(replies[d][k])
    BY <1>2 DEF Unborn
  <2>2. CASE d = c
    <3>1. Blank(m)
      BY <1>3, <1>5, <2>1, <2>2
    <3>2. known'[d] = {}
      BY <1>4, <2>1, <2>2, <3>1 DEF Blank
    <3>3. \A k \in 1 .. n : Blank(replies'[c][k])
      BY <1>3, <1>5, <2>1, <2>2
    <3> QED
      BY <1>3, <2>2, <3>2, <3>3
  <2>3. CASE d # c
    BY <1>3, <1>4, <2>1, <2>3
  <2> QED
    BY <2>2, <2>3
<1>7. ASSUME c \in connections
      PROVE  /\ \A k \in DOMAIN replies[c] : ~replies[c][k].exists =>
                    /\ Blank(replies[c][k]) /\ ~m.exists
                    /\ \A j \in 1 .. k : ~replies[c][j].exists
             /\ c \notin stale /\ ~replies[c][n + 1].exists => known[c] = {}
  <2>1. ASSUME NEW k \in DOMAIN replies[c], ~replies[c][k].exists
        PROVE  /\ Blank(replies[c][k]) /\ ~m.exists
               /\ \A j \in 1 .. k : ~replies[c][j].exists
    <3>1. 1 \in 1 .. k
      BY <1>3
    <3>2. Blank(replies[c][k]) /\ \A j \in 1 .. k : ~replies[c][j].exists
      BY <1>2, <1>7, <2>1 DEF BlankFirst
    <3> QED
      BY <1>3, <3>1, <3>2
  <2>2. c \notin stale /\ ~replies[c][n + 1].exists => known[c] = {}
    BY <1>1, <1>2, <1>3, <1>7 DEF BlankFirst
  <2> QED
    BY <2>1, <2>2
<1>8. BlankFirst'
  <2>1. ASSUME NEW d \in connections
        PROVE  /\ \A k \in DOMAIN toClient[d] : ~toClient[d][k].exists =>
                     /\ Blank(toClient[d][k]) /\ known'[d] = {}
                     /\ \A j \in 1 .. k : ~toClient[d][j].exists
                     /\ \A j \in DOMAIN replies'[d] : ~replies'[d][j].exists
               /\ \A k \in DOMAIN replies'[d] : ~replies'[d][k].exists =>
                     /\ Blank(replies'[d][k])
                     /\ \A j \in 1 .. k : ~replies'[d][j].exists
               /\ d \notin stale /\ replies'[d] # <<>> /\ ~replies'[d][Len(replies'[d])].exists => known'[d] = {}
    <3>1. CASE d = c
      <4>1. ASSUME NEW k \in DOMAIN toClient[c], ~toClient[c][k].exists
            PROVE  /\ Blank(toClient[c][k]) /\ known'[c] = {}
                   /\ \A j \in 1 .. k : ~toClient[c][j].exists
                   /\ \A j \in 1 .. n : ~replies'[c][j].exists
        <5>1. /\ Blank(toClient[c][k]) /\ known[c] = {}
              /\ \A j \in 1 .. k : ~toClient[c][j].exists
              /\ \A j \in DOMAIN replies[c] : ~replies[c][j].exists
          BY <1>2, <3>1, <4>1 DEF BlankFirst
        <5>2. ~m.exists
          BY <1>3, <1>5, <5>1
        <5> QED
          BY <1>3, <1>4, <1>5, <5>1, <5>2
      <4>2. ASSUME NEW k \in 1 .. n, ~replies'[c][k].exists
            PROVE  Blank(replies'[c][k]) /\ ~m.exists /\ \A j \in 1 .. k : ~replies'[c][j].exists
        <5>1. k + 1 \in DOMAIN replies[c] /\ replies'[c][k] = replies[c][k + 1]
          BY <1>3, <1>5
        <5>2. Blank(replies[c][k + 1]) /\ ~m.exists /\ \A j \in 1 .. k + 1 : ~replies[c][j].exists
          BY <1>7, <3>1, <4>2, <5>1
        <5>3. \A j \in 1 .. k : j + 1 \in 1 .. k + 1 /\ j \in 1 .. n
          OBVIOUS
        <5> QED
          BY <1>3, <5>1, <5>2, <5>3
      <4>3. c \notin stale /\ replies'[c] # <<>> /\ ~replies'[c][Len(replies'[c])].exists => known'[c] = {}
        <5> SUFFICES ASSUME c \notin stale, n # 0, ~replies'[c][n].exists
                     PROVE  known'[c] = {}
          BY <1>3
        <5>1. n \in 1 .. n
          OBVIOUS
        <5>2. ~m.exists /\ replies'[c][n] = replies[c][n + 1]
          BY <1>3, <4>2, <5>1
        <5>3. known[c] = {}
          BY <1>7, <3>1, <5>2
        <5> QED
          BY <1>4, <5>2, <5>3
      <4> QED
        BY <1>3, <3>1, <4>1, <4>2, <4>3
    <3>2. CASE d # c
      <4>1. known'[d] = known[d] /\ replies'[d] = replies[d]
        BY <1>2, <1>3, <1>4, <3>2
      <4> QED
        BY <1>2, <4>1 DEF BlankFirst
    <3> QED
      BY <3>1, <3>2
  <2> QED
    BY <1>1, <2>1 DEF BlankFirst, Blank
<1>9. Newest'
  <2>1. ASSUME NEW d \in connections, \A r \in handlers : r[1] # d, toClient[d] = <<>>, d \notin stale
        PROVE  IF replies'[d] # <<>> THEN replies'[d][Len(replies'[d])].fields = Present(fields)
               ELSE loaded'[d] = "yes" => known'[d] = Present(fields)
    <3>0. Latest(d)
      BY <1>2, <2>1 DEF Newest
    <3>1. CASE d = c
      <4>1. replies[c][n + 1].fields = Present(fields)
        BY <1>1, <1>3, <2>1, <3>0, <3>1 DEF Latest, Heard
      <4>2. CASE n = 0
        <5>1. m.fields = Present(fields)
          BY <1>3, <4>1, <4>2
        <5>2. ~m.exists => m.fields = {} /\ known[c] = {}
          <6>1. ~m.exists => Blank(m)
            BY <1>3, <1>5, <1>7, <3>1
          <6>2. ~m.exists => known[c] = {}
            BY <1>3, <1>7, <2>1, <3>1, <4>2
          <6> QED
            BY <6>1, <6>2 DEF Blank
        <5> QED
          BY <1>3, <1>4, <3>1, <4>2, <5>1, <5>2
      <4>3. CASE n # 0
        <5>1. n \in 1 .. n
          BY <4>3
        <5>2. replies'[c][n] = replies[c][n + 1]
          BY <1>3, <5>1
        <5> QED
          BY <1>3, <3>1, <4>1, <4>3, <5>2
      <4> QED
        BY <4>2, <4>3
    <3>2. CASE d # c
      <4>1. known'[d] = known[d] /\ replies'[d] = replies[d] /\ loaded'[d] = loaded[d]
        <5>1. loaded'[d] = loaded[d]
          BY <1>2, <3>2 DEF Store, FreshInv, FieldsInv, FieldsTypeOK
        <5> QED
          BY <1>2, <1>3, <1>4, <3>2, <5>1
      <4> QED
        BY <2>1, <3>0, <4>1 DEF Latest, Heard
    <3> QED
      BY <3>1, <3>2
  <2>2. ASSUME NEW d \in connections, \A r \in handlers : r[1] # d, toClient[d] # <<>>
        PROVE  toClient[d][Len(toClient[d])].fields = Present(fields)
    BY <1>2, <2>2 DEF Newest, Latest
  <2>3. Present(fields)' = Present(fields)
    BY <1>1 DEF Present
  <2> QED
    BY <1>1, <2>1, <2>2, <2>3 DEF Newest, Latest, Heard
<1> QED
  BY <1>6, <1>8, <1>9

\* Where nothing is sent on, there are as many fields as before.
LEMMA PresentStays ==
  ASSUME NEW m \in ToBrokerMsg, Announces(m), ~Changed(m), fields \in [Field -> Nat],
         fields' = IF m.type = "publish" THEN Add(fields, m.fields, 1)
                   ELSE Add(fields, m.fields \cap Present(fields), -1)
  PROVE  Present(fields') = Present(fields)
<1>1. ASSUME NEW f \in Field
      PROVE  fields'[f] > 0 <=> fields[f] > 0
  <2>1. CASE m.type = "publish"
    <3>1. fields'[f] = IF f \in m.fields THEN fields[f] + 1 ELSE fields[f]
      BY <2>1, AddAt
    <3>2. f \in m.fields => fields[f] # 0
      BY <2>1 DEF Changed
    <3> QED
      BY <3>1, <3>2
  <2>2. CASE m.type = "unsubscribe"
    <3>1. fields'[f] = IF f \in m.fields \cap Present(fields) THEN fields[f] + -1 ELSE fields[f]
      BY <2>2, AddAt
    <3>2. f \in m.fields => fields[f] # 1
      BY <2>2 DEF Changed
    <3>3. f \in m.fields \cap Present(fields) => fields[f] # 1 /\ fields[f] > 0
      BY <3>2 DEF Present
    <3> QED
      BY <3>1, <3>3
  <2> QED
    BY <2>1, <2>2 DEF Announces
<1> QED
  BY <1>1 DEF Present

\* Either all others hear of the new fields and the client has a handler that
\* will answer, or there are as many fields as before.
LEMMA HandleAnnouncementFresh ==
  ASSUME FreshInv, NEW c \in Client, HandleAnnouncement(c)
  PROVE  Unborn' /\ BlankFirst' /\ Newest'
<1>1. /\ toBroker[c] # <<>> /\ Head(toBroker[c]).type \in {"publish", "unsubscribe"}
      /\ toBroker' = [toBroker EXCEPT ![c] = Tail(@)]
      /\ UNCHANGED <<connections, published, lost, loaded, replies, known, stale>>
  BY DEF HandleAnnouncement, Handles, callVars
<1>2. /\ FieldsInv /\ Unborn /\ BlankFirst /\ Newest /\ connections \subseteq Client
      /\ fields \in [Field -> Nat] /\ FieldsTypeOK /\ toClient \in [Client -> Seq(ToClientMsg)]
  <2>1. Cardinality(Client) \in Nat
    BY BoundsAssumption, FS_CardinalityType
  <2> QED
    BY <2>1 DEF FreshInv, FieldsInv, FieldsTypeOK, Counts, Downward
<1>3. LET m == toBroker[c][1]
      IN  /\ Upward' /\ c \in connections /\ m \in ToBrokerMsg /\ Head(toBroker[c]) = m
          /\ m.fields # {} <=> Announces(m)
          /\ m.fields # {} => m.req[1] = c
          /\ \A d \in connections : \A f \in Field :
                /\ InStep(toBroker'[d], f, Announced(d, f)')
                /\ CountOf(d, f) \in {0, 1}
                /\ CountOf(d, f)' = IF d = c /\ f \in m.fields THEN Adds(m) ELSE CountOf(d, f)
                /\ d = c /\ f \in m.fields => CountOf(d, f) = 1 - Adds(m)
  <2>1. UNCHANGED <<connections, published>>
    BY <1>1
  <2> QED
    BY <1>1, <1>2, <2>1, BrokerHandles, Zenon
<1> PICK m \in ToBrokerMsg : m = toBroker[c][1]
  BY <1>3
<1>4. m = Head(toBroker[c]) /\ Announces(m) /\ c \in connections /\ m.req[1] = c /\ m.fields # {} /\ m.req \in Requests
  <2>1. m = Head(toBroker[c]) /\ Announces(m) /\ c \in connections
    BY <1>1, <1>3 DEF Announces
  <2>2. m.req \in Requests
    BY DEF ToBrokerMsg
  <2> QED
    BY <1>3, <2>1, <2>2
<1>5. /\ fields' = (IF m.type = "publish" THEN Add(fields, m.fields, 1)
                    ELSE Add(fields, m.fields \cap Present(fields), -1))
      /\ exists' = (exists \/ m.type = "publish")
      /\ IF Changed(m)
         THEN /\ handlers' = handlers \cup {m.req}
              /\ toClient' = [d \in Client |-> IF d \in connections \ {c}
                                               THEN Append(toClient[d], Change(m.req, Present(fields')))
                                               ELSE toClient[d]]
         ELSE /\ toClient' = [toClient EXCEPT ![c] = Append(@, Reply(m.req, Present(fields'), FALSE))]
              /\ UNCHANGED handlers
  BY <1>4 DEF HandleAnnouncement
<1>6. \A f \in m.fields : m.type = "unsubscribe" => fields[f] > 0
  <2>1. \A d \in connections : \A f \in Field :
           /\ InStep(toBroker'[d], f, Announced(d, f)')
           /\ CountOf(d, f) \in {0, 1}
           /\ CountOf(d, f)' = IF d = c /\ f \in m.fields THEN Adds(m) ELSE CountOf(d, f)
           /\ d = c /\ f \in m.fields => CountOf(d, f) = 1 - Adds(m)
    BY <1>3
  <2>2. UNCHANGED <<connections, lost>>
    BY <1>1
  <2>3. \A d \in connections : \A f \in Field :
           /\ CountOf(d, f) \in {0, 1}
           /\ CountOf(d, f)' = IF d = c /\ f \in m.fields THEN Adds(m) ELSE CountOf(d, f)
           /\ d = c /\ f \in m.fields => CountOf(d, f) = 1 - Adds(m)
    BY <2>1
  <2> QED
    BY <1>2, <1>4, <1>5, <2>2, <2>3, Announcing
<1>7. exists'
  <2>1. CASE m.type = "publish"
    BY <1>5, <2>1
  <2>2. CASE m.type = "unsubscribe"
    <3>1. PICK f \in m.fields : f \in Field
      BY <1>4 DEF ToBrokerMsg
    <3>2. fields[f] > 0
      BY <1>6, <2>2
    <3>3. exists
      BY <1>2, <3>1, <3>2 DEF Unborn
    <3> QED
      BY <1>5, <3>3
  <2> QED
    BY <1>4, <2>1, <2>2 DEF Announces
<1> PICK fs \in SUBSET Field : fs = Present(fields')
  BY DEF Present
<1>8. PICK D \in SUBSET connections, a \in ToClientMsg :
         /\ a.exists /\ a.fields = fs
         /\ toClient' = [d \in Client |-> IF d \in D THEN Append(toClient[d], a) ELSE toClient[d]]
         /\ D = IF Changed(m) THEN connections \ {c} ELSE {c}
  <2>1. CASE Changed(m)
    <3>1. Change(m.req, fs) \in ToClientMsg /\ Change(m.req, fs).exists /\ Change(m.req, fs).fields = fs
      BY <1>4, ChangeIs
    <3> QED
      BY <1>5, <2>1, <3>1
  <2>2. CASE ~Changed(m)
    <3> PICK a \in ToClientMsg : a = Reply(m.req, fs, FALSE) /\ a.exists /\ a.fields = fs
      <4>1. /\ Reply(m.req, fs, FALSE) \in ToClientMsg /\ Reply(m.req, fs, FALSE).fields = fs
            /\ Reply(m.req, fs, FALSE).exists = (exists \/ ~FALSE)
        BY <1>2, <1>4, ReplyIs
      <4>2. Reply(m.req, fs, FALSE).exists
        BY <4>1, Zenon
      <4> QED
        BY <4>1, <4>2, Zenon
    <3>1. toClient' = [toClient EXCEPT ![c] = Append(@, a)]
      BY <1>5, <2>2
    <3>2. toClient' = [d \in Client |-> IF d \in {c} THEN Append(toClient[d], a) ELSE toClient[d]]
      BY <1>2, <3>1
    <3>3. {c} \in SUBSET connections
      BY <1>4
    <3> QED
      BY <2>2, <3>2, <3>3
  <2> QED
    BY <2>1, <2>2
<1>9. /\ BlankFirst'
      /\ \A d \in D : toClient'[d] # <<>> /\ toClient'[d][Len(toClient'[d])] = a
      /\ \A d \in connections \ D : toClient'[d] = toClient[d]
  <2>1. UNCHANGED <<replies, known, stale, connections>>
    BY <1>1
  <2>2. ~a.exists => ~exists /\ a.fields = {}
    BY <1>8
  <2>3. toClient' = [d \in Client |-> IF d \in D THEN Append(toClient[d], a) ELSE toClient[d]]
    BY <1>8
  <2> QED
    BY <2>1, <2>2, <2>3, FreshSends, Zenon
<1>10. Unborn'
  BY <1>1, <1>2, <1>7 DEF Unborn
<1>11. Newest'
  <2> SUFFICES ASSUME NEW d \in connections, \A r \in handlers' : r[1] # d
               PROVE  Latest(d)'
    BY <1>1 DEF Newest
  <2>1. CASE d \in D
    BY <1>8, <1>9, <2>1 DEF Latest, Heard
  <2>2. CASE d \notin D
    <3>1. ~Changed(m)
      <4>1. Changed(m) => m.req \in handlers' /\ d = c
        BY <1>5, <1>8, <2>2
      <4> QED
        BY <1>4, <4>1
    <3>2. Present(fields') = Present(fields)
      BY <1>2, <1>4, <1>5, <3>1, PresentStays
    <3>3. toClient'[d] = toClient[d]
      BY <1>9, <2>2
    <3>4. Latest(d)
      BY <1>2, <1>5, <3>1 DEF Newest
    <3> QED
      BY <1>1, <3>2, <3>3, <3>4 DEF Latest, Heard
  <2> QED
    BY <2>1, <2>2
<1> QED
  BY <1>9, <1>10, <1>11

\* The answer to getEntityFields() has the fields of the broker.
LEMMA HandleAllFresh ==
  ASSUME FreshInv, NEW c \in Client, HandleAll(c)
  PROVE  Unborn' /\ BlankFirst' /\ Newest'
<1>1. /\ toBroker[c] # <<>>
      /\ toClient' = [toClient EXCEPT ![c] = Append(@, Reply(Head(toBroker[c]).req, Present(fields), TRUE))]
      /\ UNCHANGED <<fields, exists, handlers, connections, loaded, replies, known, stale>>
  BY DEF HandleAll, Handles, stateVars, callVars
<1>2. /\ FieldsInv /\ Unborn /\ BlankFirst /\ Newest /\ connections \subseteq Client
      /\ FieldsTypeOK /\ toClient \in [Client -> Seq(ToClientMsg)]
  BY DEF FreshInv, FieldsInv, FieldsTypeOK, Downward
<1>3. c \in connections
  BY <1>1, <1>2, Connected
<1>4. Head(toBroker[c]).req \in Requests
  <2>1. Head(toBroker[c]) \in ToBrokerMsg
    BY <1>1, <1>2, TailAt DEF FieldsInv, Upward
  <2> QED
    BY <2>1 DEF ToBrokerMsg
<1> PICK fs \in SUBSET Field : fs = Present(fields)
  BY DEF Present
<1>5. PICK a \in ToClientMsg : /\ a = Reply(Head(toBroker[c]).req, fs, TRUE)
                               /\ a.fields = fs /\ (a.exists <=> exists)
  <2>1. /\ Reply(Head(toBroker[c]).req, fs, TRUE) \in ToClientMsg
        /\ Reply(Head(toBroker[c]).req, fs, TRUE).fields = fs
        /\ Reply(Head(toBroker[c]).req, fs, TRUE).exists = (exists \/ ~TRUE)
    BY <1>2, <1>4, ReplyIs
  <2>2. Reply(Head(toBroker[c]).req, fs, TRUE).exists <=> exists
    BY <2>1, Zenon
  <2> QED
    BY <2>1, <2>2, Zenon
<1>6. ~exists => fs = {}
  <2>1. ~exists => \A f \in Field : fields[f] = 0
    BY <1>2 DEF Unborn
  <2> QED
    BY <2>1 DEF Present
<1>7. toClient' = [d \in Client |-> IF d \in {c} THEN Append(toClient[d], a) ELSE toClient[d]]
  <2>1. toClient' = [toClient EXCEPT ![c] = Append(@, a)]
    BY <1>1, <1>5
  <2> QED
    BY <1>2, <2>1
<1>8. /\ BlankFirst'
      /\ \A d \in {c} : toClient'[d] # <<>> /\ toClient'[d][Len(toClient'[d])] = a
      /\ \A d \in connections \ {c} : toClient'[d] = toClient[d]
      /\ ~exists => \A d \in Client : \A k \in DOMAIN toClient'[d] : Blank(toClient'[d][k])
  <2>1. {c} \in SUBSET connections
    BY <1>3
  <2>2. /\ BlankFirst'
        /\ \A d \in {c} : toClient'[d] # <<>> /\ toClient'[d][Len(toClient'[d])] = a
        /\ \A d \in connections \ {c} : toClient'[d] = toClient[d]
        /\ a.fields = {} /\ ~a.exists /\ Unborn =>
               \A d \in Client : \A k \in DOMAIN toClient'[d] : ~exists => Blank(toClient'[d][k])
    <3>1. UNCHANGED <<replies, known, stale, connections>>
      BY <1>1
    <3>2. ~a.exists => ~exists /\ a.fields = {}
      BY <1>5, <1>6
    <3> QED
      BY <1>7, <2>1, <3>1, <3>2, FreshSends, Zenon
  <2>3. ~exists => a.fields = {} /\ ~a.exists /\ Unborn
    BY <1>2, <1>5, <1>6
  <2> QED
    BY <2>2, <2>3
<1>9. Unborn'
  BY <1>1, <1>2, <1>8 DEF Unborn, Blank
<1>10. Newest'
  <2> SUFFICES ASSUME NEW d \in connections, \A r \in handlers : r[1] # d
               PROVE  Latest(d)'
    BY <1>1 DEF Newest
  <2>0. Present(fields)' = Present(fields)
    BY <1>1 DEF Present
  <2>1. CASE d = c
    BY <1>5, <1>8, <2>0, <2>1 DEF Latest, Heard
  <2>2. CASE d # c
    <3>1. Latest(d) /\ toClient'[d] = toClient[d]
      BY <1>2, <1>8, <2>2 DEF Newest
    <3> QED
      BY <1>1, <2>0, <3>1 DEF Latest, Heard
  <2> QED
    BY <2>1, <2>2
<1> QED
  BY <1>8, <1>9, <1>10

\* So has the answer after the acknowledgements, as it is made behind the await.
LEMMA FinishHandlerFresh ==
  ASSUME FreshInv, NEW r \in Requests, FinishHandler(r)
  PROVE  Unborn' /\ BlankFirst' /\ Newest'
<1>1. /\ r \in handlers /\ handlers' = handlers \ {r}
      /\ toClient' = IF r[1] \in connections
                     THEN [toClient EXCEPT ![r[1]] = Append(@, Reply(r, Present(fields), FALSE))]
                     ELSE toClient
      /\ UNCHANGED <<fields, exists, connections, loaded, replies, known, stale>>
  BY DEF FinishHandler, callVars
<1>2. /\ FieldsInv /\ Unborn /\ BlankFirst /\ Newest /\ connections \subseteq Client
      /\ FieldsTypeOK /\ toClient \in [Client -> Seq(ToClientMsg)]
  BY DEF FreshInv, FieldsInv, FieldsTypeOK, Downward
<1>3. exists
  BY <1>1, <1>2 DEF Unborn
<1> PICK fs \in SUBSET Field : fs = Present(fields)
  BY DEF Present
<1>4. PICK a \in ToClientMsg : a = Reply(r, fs, FALSE) /\ a.fields = fs /\ a.exists
  <2>1. /\ Reply(r, fs, FALSE) \in ToClientMsg /\ Reply(r, fs, FALSE).fields = fs
        /\ Reply(r, fs, FALSE).exists = (exists \/ ~FALSE)
    BY <1>2, ReplyIs
  <2>2. Reply(r, fs, FALSE).exists
    BY <2>1, Zenon
  <2> QED
    BY <2>1, <2>2, Zenon
<1>5. PICK D \in SUBSET connections :
         /\ toClient' = [d \in Client |-> IF d \in D THEN Append(toClient[d], a) ELSE toClient[d]]
         /\ D = {r[1]} \cap connections
  <2>1. CASE r[1] \in connections
    <3> PICK c \in connections : c = r[1]
      BY <2>1
    <3>1. toClient' = [toClient EXCEPT ![c] = Append(@, a)]
      BY <1>1, <1>4
    <3>2. toClient' = [d \in Client |-> IF d \in {c} THEN Append(toClient[d], a) ELSE toClient[d]]
      BY <1>2, <3>1
    <3>3. {c} \in SUBSET connections /\ {c} = {r[1]} \cap connections
      OBVIOUS
    <3> QED
      BY <3>2, <3>3
  <2>2. CASE r[1] \notin connections
    <3>1. toClient' = [d \in Client |-> IF d \in {} THEN Append(toClient[d], a) ELSE toClient[d]]
      BY <1>1, <1>2, <2>2
    <3>2. {} \in SUBSET connections /\ {} = {r[1]} \cap connections
      BY <2>2
    <3> QED
      BY <3>1, <3>2
  <2> QED
    BY <2>1, <2>2
<1>6. /\ BlankFirst'
      /\ \A d \in D : toClient'[d] # <<>> /\ toClient'[d][Len(toClient'[d])] = a
      /\ \A d \in connections \ D : toClient'[d] = toClient[d]
  <2>1. UNCHANGED <<replies, known, stale, connections>>
    BY <1>1
  <2>2. ~a.exists => ~exists /\ a.fields = {}
    BY <1>4
  <2>3. toClient' = [d \in Client |-> IF d \in D THEN Append(toClient[d], a) ELSE toClient[d]]
    BY <1>5
  <2> QED
    BY <2>1, <2>2, <2>3, FreshSends, Zenon
<1>7. Unborn'
  BY <1>1, <1>2, <1>3 DEF Unborn
<1>8. Newest'
  <2> SUFFICES ASSUME NEW d \in connections, \A q \in handlers' : q[1] # d
               PROVE  Latest(d)'
    BY <1>1 DEF Newest
  <2>0. Present(fields)' = Present(fields)
    BY <1>1 DEF Present
  <2>1. CASE d \in D
    BY <1>4, <1>6, <2>0, <2>1 DEF Latest, Heard
  <2>2. CASE d \notin D
    <3>1. \A q \in handlers : q[1] # d
      BY <1>1, <1>5, <2>2
    <3>2. Latest(d) /\ toClient'[d] = toClient[d]
      BY <1>2, <1>6, <2>2, <3>1 DEF Newest
    <3> QED
      BY <1>1, <2>0, <3>2 DEF Latest, Heard
  <2> QED
    BY <2>1, <2>2
<1> QED
  BY <1>6, <1>7, <1>8

\* Whose connection broke hears nothing more.
LEMMA CloseConnectionFresh ==
  ASSUME FreshInv, NEW c \in Client, CloseConnection(c)
  PROVE  Unborn' /\ BlankFirst' /\ Newest'
<1>1. /\ connections' = connections \ {c} /\ toClient' = [toClient EXCEPT ![c] = <<>>]
      /\ UNCHANGED <<fields, exists, handlers, loaded, replies, known, stale>>
  BY DEF CloseConnection, stateVars, callVars
<1>2. /\ Unborn /\ BlankFirst /\ Newest /\ connections \subseteq Client
      /\ toClient \in [Client -> Seq(ToClientMsg)]
  BY DEF FreshInv, FieldsInv, FieldsTypeOK, Downward
<1>3. /\ \A d \in Client \ {c} : toClient'[d] = toClient[d]
      /\ DOMAIN toClient'[c] = {}
  BY <1>1, <1>2
<1>4. Unborn'
  BY <1>1, <1>2, <1>3 DEF Unborn, Blank
<1>5. BlankFirst'
  BY <1>1, <1>2, <1>3 DEF BlankFirst, Blank
<1>6. Newest'
  <2> SUFFICES ASSUME NEW d \in connections', \A r \in handlers : r[1] # d
               PROVE  Latest(d)'
    BY <1>1 DEF Newest
  <2>1. Latest(d) /\ toClient'[d] = toClient[d]
    BY <1>1, <1>2, <1>3 DEF Newest
  <2>2. Present(fields)' = Present(fields)
    BY <1>1 DEF Present
  <2> QED
    BY <1>1, <2>1, <2>2 DEF Latest, Heard
<1> QED
  BY <1>4, <1>5, <1>6

\* The invariant of KnownFresh holds initially.
LEMMA FreshInitInv == FieldsInit => FreshInv
<1> SUFFICES ASSUME FieldsInit
             PROVE  FreshInv
  OBVIOUS
<1>1. DOMAIN <<>> = {} /\ Len(<<>>) = 0
  OBVIOUS
<1>2. Unborn /\ BlankFirst /\ Newest
  BY <1>1 DEF FieldsInit, Unborn, BlankFirst, Newest, Latest, Heard
<1> QED
  BY <1>2, FieldsInitInv DEF FreshInv

\* Every step keeps it.
LEMMA FreshStepInv == FreshInv /\ [FieldsNext]_fieldsVars => FreshInv'
<1> SUFFICES ASSUME FreshInv, [FieldsNext]_fieldsVars
             PROVE  Unborn' /\ BlankFirst' /\ Newest'
  BY FieldsStepInv DEF FreshInv
<1>1. CASE UNCHANGED fieldsVars
  BY <1>1, FreshKept DEF fieldsVars, stateVars, callVars
<1>2. ASSUME NEW c \in Client, NEW fs \in (SUBSET Field) \ {{}}, Publish(c, fs)
      PROVE  Unborn' /\ BlankFirst' /\ Newest'
  BY <1>2, FreshKept DEF Publish, stateVars
<1>3. ASSUME NEW c \in Client, NEW k \in DOMAIN subs[c], Unsubscribe(c, k)
      PROVE  Unborn' /\ BlankFirst' /\ Newest'
  BY <1>3, FreshKept DEF Unsubscribe, stateVars
<1>4. ASSUME NEW c \in Client, Load(c)
      PROVE  Unborn' /\ BlankFirst' /\ Newest'
  <2>1. /\ loaded' = [loaded EXCEPT ![c] = "waiting"]
        /\ UNCHANGED <<fields, exists, handlers, connections, toClient, replies, known, stale>>
    BY <1>4 DEF Load, stateVars
  <2>2. \A d \in connections : loaded'[d] = "yes" => loaded[d] = "yes"
    BY <2>1 DEF FreshInv, FieldsInv, FieldsTypeOK
  <2> QED
    BY <2>1, <2>2, FreshKept
<1>5. ASSUME NEW c \in Client, ClientStep(c)
      PROVE  Unborn' /\ BlankFirst' /\ Newest'
  BY <1>5, ReceiveChangeFresh, ReceiveReplyFresh, StoreFresh DEF ClientStep
<1>6. ASSUME NEW c \in Client, HandleAck(c)
      PROVE  Unborn' /\ BlankFirst' /\ Newest'
  BY <1>6, FreshKept DEF HandleAck, callVars
<1>7. ASSUME NEW c \in Client, BrokerStep(c)
      PROVE  Unborn' /\ BlankFirst' /\ Newest'
  BY <1>6, <1>7, HandleAnnouncementFresh, HandleAllFresh DEF BrokerStep
<1>8. ASSUME NEW c \in Client, CloseConnection(c)
      PROVE  Unborn' /\ BlankFirst' /\ Newest'
  BY <1>8, CloseConnectionFresh
<1>9. ASSUME NEW r \in Requests, FinishHandler(r)
      PROVE  Unborn' /\ BlankFirst' /\ Newest'
  BY <1>9, FinishHandlerFresh
<1> QED
  BY <1>1, <1>2, <1>3, <1>4, <1>5, <1>7, <1>8, <1>9 DEF FieldsNext

\* KnownFresh: a client that has loaded the fields and waits for nothing knows
\* those the broker has, unless the last message it got was a push that overtook
\* an answer.
THEOREM FieldsFresh == FieldsSpec => []KnownFresh
<1>1. FreshInv => KnownFresh
  BY DEF FreshInv, Newest, Latest, Heard, KnownFresh
<1>2. FreshInv /\ [FieldsNext]_fieldsVars => FreshInv'
  BY FreshStepInv
<1> QED
  BY <1>1, <1>2, FreshInitInv, PTL DEF FieldsSpec
=============================================================================
