--------------------------- MODULE MongoPoolProofs ---------------------------
(***************************************************************************)
(* Proofs about MongoPool, for any number of connections, calls and        *)
(* transactions and any pool sizes.                                        *)
(*                                                                         *)
(* What a connection's field transaction says is the key: whoever holds    *)
(* the connection belongs to that transaction, and with None in it there   *)
(* is one holder at most.  The rest says when a reserved connection can be *)
(* given back, and whose command a server answers next.                    *)
(***************************************************************************)
EXTENDS MongoPool, QueueLemmas, FiniteSetTheorems

-----------------------------------------------------------------------------
(* Who has a connection                                                    *)

HoldersReserve == \A t \in Task : conn[t] # None => reserved[conn[t]]

\* The timer runs, and nothing is bound, only while nobody has reserved it.
FreeIsBare == \A c \in Conn : /\ cleanup[c] => ~reserved[c]
                              /\ ~reserved[c] => transaction[c] = None

\* A holder belongs to what transaction says.
HolderBelongs == \A t \in Task : conn[t] # None => transaction[conn[t]] = TxnOf[t]

\* Without a transaction it is alone.
Alone == \A t, u \in Task : conn[t] # None /\ conn[t] = conn[u] /\ TxnOf[t] = None => t = u

\* The connection of an open transaction is bound to it.
OpenBound == \A x \in Txn : txState[x] = "open" /\ txConn[x] # None
                               => transaction[txConn[x]] = x /\ reserved[txConn[x]]

\* The calls of a transaction have returned when it ends.
Busy == Working \cup {"ensuring", "queued"}
BusyIsOpen == \A t \in Task : phase[t] \in Busy /\ TxnOf[t] # None => txState[TxnOf[t]] = "open"

WaitsEnsuring == \A t \in Task : waits[t] # {} => phase[t] = "ensuring"

QueueIsQueued == Distinct(queue) /\ \A k \in DOMAIN queue : phase[queue[k]] = "queued"

-----------------------------------------------------------------------------
(* What is on the wire                                                     *)

LastIsSent == \A c \in Conn : lastCommand[c] # None =>
                 phase[lastCommand[c]] = "sent" /\ conn[lastCommand[c]] = c

\* A command of a transaction whose lastCommand was replaced.
Stuck(c) == \E t \in Task : conn[t] = c /\ phase[t] = "sent" /\ t # lastCommand[c]

\* One command is in flight, and somebody will get its answer; or there are
\* several, and somebody will not.
FlightOwned == \A c \in Conn : inflight[c] # <<>> =>
                  (Len(inflight[c]) = 1 /\ lastCommand[c] # None) \/ Stuck(c)

\* The command of a call without transaction is the only one.
PlainFlight == \A c \in Conn : \A k \in DOMAIN inflight[c] :
                  TxnOf[inflight[c][k]] = None =>
                     Len(inflight[c]) = 1 /\ lastCommand[c] = inflight[c][k]

Bounded == IsFiniteSet(InPool) /\ PoolBound

Holding == /\ HoldersReserve /\ FreeIsBare /\ HolderBelongs /\ Alone
           /\ OpenBound /\ BusyIsOpen /\ WaitsEnsuring /\ QueueIsQueued

Wire == LastIsSent /\ FlightOwned /\ PlainFlight

\* A timer runs for a connection that is in the lists.
TimerInPool == \A c \in Conn : cleanup[c] => c \in InPool

IInv == TypeOK /\ Holding /\ Wire /\ NoPlainLeak /\ TimerInPool /\ Bounded

-----------------------------------------------------------------------------
(* What the sequences do                                                   *)

\* Everyone of ts sends, in some order, and the last one is lastCommand.
SentInOrder(c, ts, pending, ph, order) ==
    /\ inflight' = [inflight EXCEPT ![c] = pending \o order]
    /\ lastCommand' = [lastCommand EXCEPT ![c] = IF ts = {} THEN None ELSE order[Len(order)]]
    /\ phase' = [t \in Task |-> IF t \in ts THEN "sent" ELSE ph[t]]
    /\ Len(order) = Cardinality(ts) /\ Len(order) \in Nat
    /\ \A k \in 1 .. Len(order) : order[k] \in ts
    /\ Distinct(order)

\* Send() puts the commands into some order.
LEMMA SendIs ==
  ASSUME NEW c \in Conn, NEW ts \in SUBSET Task, NEW pending, NEW ph, Send(c, ts, pending, ph)
  PROVE  \E order \in Seq(Task) : SentInOrder(c, ts, pending, ph, order)
<1>1. PICK order \in SetToSeqs(ts) :
           /\ inflight' = [inflight EXCEPT ![c] = pending \o order]
           /\ lastCommand' = [lastCommand EXCEPT ![c] = IF ts = {} THEN None ELSE Last(order)]
           /\ phase' = [t \in Task |-> IF t \in ts THEN "sent" ELSE ph[t]]
  BY DEF Send, Sent
<1>2. IsFiniteSet(ts)
  BY TaskAssumption, FS_Subset
<1>3. Cardinality(ts) \in Nat
  BY <1>2, FS_CardinalityType
<1>4. /\ order \in [1 .. Cardinality(ts) -> ts]
      /\ \A i, j \in 1 .. Cardinality(ts) : i # j => order[i] # order[j]
  BY DEF SetToSeqs
<1>5. order \in Seq(Task) /\ Len(order) = Cardinality(ts)
  BY <1>3, <1>4
<1>6. Distinct(order)
  BY <1>3, <1>4, <1>5 DEF Distinct
<1> QED
  BY <1>1, <1>3, <1>4, <1>5, <1>6 DEF Last, SentInOrder

-----------------------------------------------------------------------------
(* The size of the pool                                                    *)

\* Fewer connections, or as many, keep the bound.
LEMMA PoolShrinks == ASSUME Bounded, InPool' \subseteq InPool PROVE Bounded'
<1>1. IsFiniteSet(InPool') /\ Cardinality(InPool') <= Cardinality(InPool)
  BY FS_Subset DEF Bounded
<1>2. Cardinality(InPool') \in Nat /\ Cardinality(InPool) \in Nat
  BY <1>1, FS_CardinalityType DEF Bounded
<1> QED
  BY <1>1, <1>2, SizeAssumption DEF Bounded, PoolBound

\* So does one more, when getConnection() found room or the pool empty.
LEMMA PoolGrows == ASSUME Bounded, NEW c, InPool' = InPool \cup {c}, MayGrow \/ InPool = {}
                   PROVE  Bounded'
<1>1. /\ IsFiniteSet(InPool') /\ Cardinality(InPool') <= Cardinality(InPool) + 1
      /\ Cardinality(InPool) \in Nat
  BY FS_AddElement, FS_CardinalityType DEF Bounded
<1>2. Cardinality(InPool') \in Nat
  BY <1>1, FS_CardinalityType
<1>3. Cardinality(InPool) <= MaxPoolSize
  BY FS_EmptySet, SizeAssumption DEF MayGrow
<1> QED
  BY <1>1, <1>2, <1>3, SizeAssumption DEF Bounded, PoolBound

-----------------------------------------------------------------------------
(* Who has a connection: what the actions have in common                   *)

\* Commands come and go: calls that hold a connection keep it, those that
\* wait for a handshake may fail.
LEMMA PhasesMove ==
  ASSUME TypeOK, Holding,
         UNCHANGED <<reserved, cleanup, transaction, conn, txVars, queue>>,
         \A t \in Task : \/ phase'[t] = phase[t]
                         \/ phase[t] \in Working /\ phase'[t] \in Working
                         \/ phase[t] = "ensuring" /\ phase'[t] = "failed" /\ waits'[t] = {},
         \A t \in Task : waits'[t] \subseteq waits[t]
  PROVE  Holding'
<1>1. UNCHANGED <<reserved, cleanup, transaction, conn, txConn, txState, queue>>
  BY DEF txVars
<1>2. \A t \in Task : phase'[t] \in Busy => phase[t] \in Busy
  BY DEF Busy, Working
<1>3. HoldersReserve' /\ FreeIsBare' /\ HolderBelongs' /\ Alone' /\ OpenBound'
  BY <1>1 DEF Holding, HoldersReserve, FreeIsBare, HolderBelongs, Alone, OpenBound
<1>4. BusyIsOpen'
  BY <1>1, <1>2 DEF Holding, BusyIsOpen
<1>5. WaitsEnsuring'
  BY DEF Holding, WaitsEnsuring, Working
<1>6. QueueIsQueued'
  <2>1. \A k \in DOMAIN queue : queue[k] \in Task
    BY DEF TypeOK
  <2>2. \A k \in DOMAIN queue : phase[queue[k]] = "queued"
    BY DEF Holding, QueueIsQueued
  <2>3. \A k \in DOMAIN queue : phase'[queue[k]] = "queued"
    BY <2>1, <2>2 DEF Working
  <2> QED
    BY <1>1, <2>3 DEF Holding, QueueIsQueued
<1> QED
  BY <1>3, <1>4, <1>5, <1>6 DEF Holding

\* Connection c, in nobody's hands or given up in this step, goes to t.
LEMMA HandedOver ==
  ASSUME TypeOK, Holding, NEW c \in Conn, NEW t \in Task,
         phase[t] \in {"ensuring", "queued"}, waits[t] = {}, waits' = waits,
         phase'[t] = "got", conn'[t] = c,
         \A u \in Task : u # t => \/ phase'[u] = phase[u] /\ conn'[u] = conn[u] /\ conn[u] # c
                                  \/ phase[u] \in Working /\ phase'[u] = "idle" /\ conn'[u] = None,
         reserved'[c], \A d \in Conn : d # c => reserved'[d] = reserved[d],
         ~cleanup'[c], \A d \in Conn : d # c => cleanup'[d] = cleanup[d],
         \A d \in Conn : transaction'[d] = IF d = c THEN TxnOf[t] ELSE transaction[d],
         \A x \in Txn : txConn'[x] = IF x = TxnOf[t] THEN c ELSE txConn[x],
         \A x \in Txn : txState'[x] = "open" => txState[x] = "open" /\ txConn[x] # c,
         \A u \in Task : phase'[u] \in Busy /\ TxnOf[u] # None => txState'[TxnOf[u]] = "open",
         Distinct(queue'),
         \A k \in DOMAIN queue' : queue'[k] # t /\ \E j \in DOMAIN queue : queue'[k] = queue[j]
  PROVE  Holding'
<1>1. c # None /\ \A u \in Task : conn[u] \in Conn \cup {None}
  BY NoneAssumption DEF TypeOK
<1>2. \A x \in Txn : txConn[x] \in Conn \cup {None}
  BY DEF TypeOK
<1>3. HoldersReserve'
  <2> SUFFICES ASSUME NEW u \in Task, conn'[u] # None PROVE reserved'[conn'[u]]
    BY DEF HoldersReserve
  <2> QED
    BY <1>1 DEF Holding, HoldersReserve
<1>4. FreeIsBare'
  BY DEF Holding, FreeIsBare
<1>5. HolderBelongs'
  <2> SUFFICES ASSUME NEW u \in Task, conn'[u] # None PROVE transaction'[conn'[u]] = TxnOf[u]
    BY DEF HolderBelongs
  <2> QED
    BY <1>1 DEF Holding, HolderBelongs
<1>6. Alone'
  BY <1>1 DEF Holding, Alone
<1>7. OpenBound'
  <2> SUFFICES ASSUME NEW x \in Txn, txState'[x] = "open", txConn'[x] # None
               PROVE  transaction'[txConn'[x]] = x /\ reserved'[txConn'[x]]
    BY DEF OpenBound
  <2>1. CASE x = TxnOf[t]
    BY <2>1
  <2>2. CASE x # TxnOf[t]
    <3>1. txState[x] = "open" /\ txConn'[x] = txConn[x] /\ txConn[x] # c /\ txConn[x] \in Conn
      BY <1>2, <2>2
    <3>2. transaction[txConn[x]] = x /\ reserved[txConn[x]]
      BY <3>1 DEF Holding, OpenBound
    <3> QED
      BY <3>1, <3>2
  <2> QED
    BY <2>1, <2>2
<1>8. BusyIsOpen'
  BY DEF BusyIsOpen
<1>9. WaitsEnsuring'
  BY DEF Holding, WaitsEnsuring, Working
<1>10. QueueIsQueued'
  <2> SUFFICES ASSUME NEW k \in DOMAIN queue' PROVE phase'[queue'[k]] = "queued"
    BY DEF QueueIsQueued
  <2>1. PICK j \in DOMAIN queue : queue'[k] = queue[j]
    OBVIOUS
  <2>2. queue[j] \in Task /\ phase[queue[j]] = "queued" /\ queue[j] # t
    BY <2>1 DEF TypeOK, Holding, QueueIsQueued
  <2> QED
    BY <2>1, <2>2 DEF Working
<1> QED
  BY <1>3, <1>4, <1>5, <1>6, <1>7, <1>8, <1>9, <1>10 DEF Holding

\* Connection c is put back: nobody holds it any more.
LEMMA PutBack ==
  ASSUME TypeOK, Holding, NEW c \in Conn, waits' = waits, queue' = queue, queue = <<>>,
         \A u \in Task : \/ phase'[u] = phase[u] /\ conn'[u] = conn[u] /\ conn[u] # c
                         \/ phase[u] \in Working /\ phase'[u] = "idle" /\ conn'[u] = None,
         ~reserved'[c], \A d \in Conn : d # c => reserved'[d] = reserved[d],
         \A d \in Conn : d # c => cleanup'[d] = cleanup[d],
         \A d \in Conn : transaction'[d] = IF d = c THEN None ELSE transaction[d],
         txConn' = txConn,
         \A x \in Txn : txState'[x] = "open" => txState[x] = "open" /\ txConn[x] # c,
         \A u \in Task : phase'[u] \in Busy /\ TxnOf[u] # None => txState'[TxnOf[u]] = "open"
  PROVE  Holding'
<1>1. \A u \in Task : conn[u] \in Conn \cup {None}
  BY DEF TypeOK
<1>2. \A x \in Txn : txConn[x] \in Conn \cup {None}
  BY DEF TypeOK
<1>3. HoldersReserve'
  BY <1>1 DEF Holding, HoldersReserve
<1>4. FreeIsBare'
  BY DEF Holding, FreeIsBare
<1>5. HolderBelongs'
  BY <1>1 DEF Holding, HolderBelongs
<1>6. Alone'
  BY <1>1 DEF Holding, Alone
<1>7. OpenBound'
  BY <1>2 DEF Holding, OpenBound
<1>8. BusyIsOpen'
  BY DEF BusyIsOpen
<1>9. WaitsEnsuring'
  BY DEF Holding, WaitsEnsuring, Working
<1>10. QueueIsQueued'
  BY DEF Holding, QueueIsQueued
<1> QED
  BY <1>3, <1>4, <1>5, <1>6, <1>7, <1>8, <1>9, <1>10 DEF Holding

-----------------------------------------------------------------------------
(* What is on the wire: what the actions have in common                    *)

\* Nothing is sent or answered.
LEMMA WireKept ==
  ASSUME TypeOK, Wire, UNCHANGED <<lastCommand, inflight>>,
         \A t \in Task : phase[t] = "sent" => phase'[t] = "sent" /\ conn'[t] = conn[t]
  PROVE  Wire'
<1>1. \A c \in Conn : lastCommand[c] \in Task \cup {None}
  BY DEF TypeOK
<1>2. LastIsSent'
  BY <1>1 DEF Wire, LastIsSent
<1>3. \A c \in Conn : Stuck(c) => Stuck(c)'
  BY DEF Stuck
<1>4. FlightOwned'
  BY <1>3 DEF Wire, FlightOwned
<1>5. PlainFlight'
  BY DEF Wire, PlainFlight
<1> QED
  BY <1>2, <1>4, <1>5 DEF Wire

\* What is true of those who send, of the phases they leave behind and of
\* the commands before theirs.
MaySend(c, ts, pending, ph) ==
    /\ \A u \in ts : conn[u] = c /\ phase[u] \in {"got", "blocked"}
    /\ \A u \in Task : ph[u] = phase[u] \/ (phase[u] \in Working /\ ph[u] \in Working)
    /\ \A u \in Task : phase[u] = "sent" => ph[u] = "sent" \/ u = lastCommand[c]
    /\ pending # <<>> => \E u \in Task : conn[u] = c /\ phase[u] = "sent" /\ ph[u] = "sent"
    /\ \A k \in DOMAIN pending : TxnOf[pending[k]] # None

\* Those of ts, who all hold c, send behind what is pending, and the wire is
\* in order again; lastCommand may have got its answer.
LEMMA SendKeepsWire ==
  ASSUME TypeOK, Alone, Wire, conn' = conn, NEW c \in Conn, NEW ts \in SUBSET Task,
         NEW pending \in Seq(Task), NEW ph, Send(c, ts, pending, ph),
         MaySend(c, ts, pending, ph)
  PROVE  Wire'
<1>0. PICK order \in Seq(Task) : SentInOrder(c, ts, pending, ph, order)
  BY SendIs
<1>14. \A u \in ts : u \in Task /\ conn[u] = c /\ phase[u] # "sent"
  BY DEF MaySend
<1>15. \A u \in Task : phase[u] = "sent" => ph[u] = "sent" \/ u = lastCommand[c]
  BY DEF MaySend
<1>16. pending # <<>> => \E u \in Task : conn[u] = c /\ phase[u] = "sent" /\ ph[u] = "sent"
  BY DEF MaySend
<1>17. \A k \in DOMAIN pending : TxnOf[pending[k]] # None
  BY DEF MaySend
<1>1. /\ inflight' = [inflight EXCEPT ![c] = pending \o order]
      /\ lastCommand' = [lastCommand EXCEPT ![c] = IF ts = {} THEN None ELSE order[Len(order)]]
      /\ phase' = [t \in Task |-> IF t \in ts THEN "sent" ELSE ph[t]]
      /\ Len(order) = Cardinality(ts) /\ Len(order) \in Nat
      /\ \A k \in 1 .. Len(order) : order[k] \in ts
      /\ Distinct(order)
  BY <1>0 DEF SentInOrder
<1>2. /\ \A d \in Conn : lastCommand[d] \in Task \cup {None} /\ inflight[d] \in Seq(Task)
      /\ c # None /\ None \notin Task
  BY NoneAssumption DEF TypeOK
<1>3. /\ inflight'[c] = pending \o order
      /\ lastCommand'[c] = IF ts = {} THEN None ELSE order[Len(order)]
      /\ \A d \in Conn : d # c => inflight'[d] = inflight[d] /\ lastCommand'[d] = lastCommand[d]
  BY <1>1 DEF TypeOK
<1>4. \A t \in Task : phase'[t] = IF t \in ts THEN "sent" ELSE ph[t]
  BY <1>1
<1>5. ts = {} => Len(order) = 0
  BY <1>1, FS_EmptySet
<1>6. ts # {} => Len(order) # 0
  <2>1. IsFiniteSet(ts)
    BY TaskAssumption, FS_Subset
  <2> QED
    BY <1>1, <2>1, FS_EmptySet
<1>7. /\ pending \o order \in Seq(Task) /\ Len(pending \o order) = Len(pending) + Len(order)
      /\ \A k \in 1 .. Len(pending) + Len(order) :
            (pending \o order)[k] = IF k <= Len(pending) THEN pending[k] ELSE order[k - Len(pending)]
  BY ConcatProperties
<1>8. Len(pending) \in Nat /\ (pending = <<>> <=> Len(pending) = 0)
      /\ DOMAIN pending = 1 .. Len(pending) /\ DOMAIN order = 1 .. Len(order)
  BY EmptySeq, LenProperties
<1>9. ts # {} => Len(order) \in 1 .. Len(order) /\ order[Len(order)] \in ts
  BY <1>1, <1>6
<1>10. LastIsSent'
  <2> SUFFICES ASSUME NEW d \in Conn, lastCommand'[d] # None
               PROVE  phase'[lastCommand'[d]] = "sent" /\ conn'[lastCommand'[d]] = d
    BY DEF LastIsSent
  <2>1. CASE d = c
    BY <1>3, <1>4, <1>9, <1>14, <2>1
  <2>2. CASE d # c
    <3>1. lastCommand'[d] = lastCommand[d] /\ lastCommand[d] \in Task
      BY <1>2, <1>3, <2>2
    <3>2. phase[lastCommand[d]] = "sent" /\ conn[lastCommand[d]] = d
      BY <3>1 DEF Wire, LastIsSent
    <3>3. lastCommand[d] # lastCommand[c]
      BY <1>2, <2>2, <3>1, <3>2 DEF Wire, LastIsSent
    <3> QED
      BY <1>4, <1>14, <1>15, <3>1, <3>2, <3>3
  <2> QED
    BY <2>1, <2>2
<1>11. \A d \in Conn : d # c /\ Stuck(d) => Stuck(d)'
  <2> SUFFICES ASSUME NEW d \in Conn, d # c, NEW t \in Task, conn[t] = d, phase[t] = "sent", t # lastCommand[d]
               PROVE  Stuck(d)'
    BY DEF Stuck
  <2>1. t # lastCommand[c]
    BY <1>2 DEF Wire, LastIsSent
  <2>2. phase'[t] = "sent" /\ t # lastCommand'[d]
    BY <1>3, <1>4, <1>14, <1>15, <2>1
  <2> QED
    BY <2>2 DEF Stuck
<1>12. FlightOwned'
  <2> SUFFICES ASSUME NEW d \in Conn, inflight'[d] # <<>>
               PROVE  (Len(inflight'[d]) = 1 /\ lastCommand'[d] # None) \/ Stuck(d)'
    BY DEF FlightOwned
  <2>1. CASE d # c
    BY <1>3, <1>11, <2>1 DEF Wire, FlightOwned
  <2>2. CASE d = c /\ pending # <<>>
    <3>1. PICK u \in Task : conn[u] = c /\ phase[u] = "sent" /\ ph[u] = "sent"
      BY <1>16, <2>2
    <3>2. phase'[u] = "sent" /\ u # lastCommand'[c]
      BY <1>2, <1>3, <1>4, <1>9, <1>14, <3>1
    <3> QED
      BY <2>2, <3>1, <3>2 DEF Stuck
  <2>3. CASE d = c /\ pending = <<>>
    <3>1. Len(inflight'[c]) = Len(order)
      BY <1>1, <1>3, <1>7, <1>8, <2>3
    <3>2. Len(order) # 0
      BY <1>3, <1>7, <1>8, <2>3, <3>1, EmptySeq
    <3>3. CASE Len(order) = 1
      <4>1. ts # {}
        BY <1>5, <3>2
      <4> QED
        BY <1>2, <1>3, <1>9, <2>3, <3>1, <3>3, <4>1
    <3>4. CASE Len(order) # 1
      <4>1. 1 \in 1 .. Len(order) /\ 1 # Len(order) /\ Len(order) \in 1 .. Len(order) /\ ts # {}
        BY <1>1, <1>5, <3>2, <3>4
      <4>2. order[1] \in ts /\ order[1] # order[Len(order)]
        BY <1>1, <1>8, <4>1 DEF Distinct
      <4>3. order[1] \in Task /\ phase'[order[1]] = "sent" /\ conn'[order[1]] = c /\ order[1] # lastCommand'[c]
        BY <1>3, <1>4, <1>14, <4>1, <4>2
      <4> QED
        BY <2>3, <4>3 DEF Stuck
    <3> QED
      BY <3>3, <3>4
  <2> QED
    BY <2>1, <2>2, <2>3
<1>13. PlainFlight'
  <2> SUFFICES ASSUME NEW d \in Conn, NEW k \in DOMAIN inflight'[d], TxnOf[inflight'[d][k]] = None
               PROVE  Len(inflight'[d]) = 1 /\ lastCommand'[d] = inflight'[d][k]
    BY DEF PlainFlight
  <2>1. CASE d # c
    BY <1>2, <1>3, <2>1 DEF Wire, PlainFlight
  <2>2. CASE d = c
    <3>1. DOMAIN inflight'[c] = 1 .. Len(pending) + Len(order)
      BY <1>3, <1>7, LenProperties
    <3>2. k \in Int /\ k >= 1 /\ k <= Len(pending) + Len(order)
      BY <1>1, <1>8, <2>2, <3>1
    <3>3. ~(k <= Len(pending))
      <4> SUFFICES ASSUME k <= Len(pending) PROVE FALSE
        OBVIOUS
      <4>1. inflight'[c][k] = pending[k] /\ k \in DOMAIN pending
        BY <1>3, <1>7, <1>8, <2>2, <3>1, <3>2
      <4> QED
        BY <1>17, <2>2, <4>1
    <3> DEFINE j == k - Len(pending)
    <3>4. j \in 1 .. Len(order) /\ inflight'[c][k] = order[j]
      BY <1>1, <1>3, <1>7, <1>8, <2>2, <3>1, <3>2, <3>3
    <3> HIDE DEF j
    <3>5. order[j] \in ts /\ TxnOf[order[j]] = None
      BY <1>1, <2>2, <3>4
    <3>6. pending = <<>>
      <4> SUFFICES ASSUME pending # <<>> PROVE FALSE
        OBVIOUS
      <4>1. PICK u \in Task : conn[u] = c /\ phase[u] = "sent"
        BY <1>16
      <4> QED
        BY <1>2, <1>14, <3>5, <4>1 DEF Alone
    <3>7. Len(order) \in 1 .. Len(order) /\ ts # {}
      BY <1>9, <3>5
    <3>8. \A i \in 1 .. Len(order) : i = j
      <4> TAKE i \in 1 .. Len(order)
      <4>1. order[i] \in ts
        BY <1>1
      <4>2. conn[order[i]] = c /\ conn[order[j]] = c /\ order[i] \in Task /\ order[j] \in Task
        BY <1>14, <3>5, <4>1
      <4>3. order[j] = order[i]
        BY <1>2, <3>5, <4>2 DEF Alone
      <4> QED
        BY <1>1, <1>8, <3>4, <4>3 DEF Distinct
    <3>9. 1 = j /\ Len(order) = j
      BY <1>1, <3>7, <3>8
    <3>10. Len(order) = 1 /\ Len(pending) = 0
      BY <1>8, <3>4, <3>6, <3>9
    <3>11. Len(inflight'[c]) = 1
      BY <1>3, <1>7, <3>10
    <3>12. lastCommand'[c] = order[j]
      BY <1>3, <3>7, <3>9
    <3> QED
      BY <2>2, <3>4, <3>11, <3>12
  <2> QED
    BY <2>1, <2>2
<1> QED
  BY <1>10, <1>12, <1>13 DEF Wire

-----------------------------------------------------------------------------
(* The initial states and types                                            *)

\* A new pool is in order.
LEMMA InitIInv == Init => IInv
<1> SUFFICES ASSUME Init PROVE IInv
  OBVIOUS
<1>1. InPool = {}
  BY DEF Init, InPool, Listed
<1>2. TypeOK
  <2>1. inflight \in [Conn -> Seq(Task)] /\ queue \in Seq(Task)
    BY EmptySeq DEF Init
  <2>2. \A t \in Task : conn[t] # None <=> phase[t] \in Working
    BY DEF Init, Working
  <2> QED
    BY <2>1, <2>2 DEF Init, TypeOK
<1>3. Holding
  BY DEF Init, Holding, HoldersReserve, FreeIsBare, HolderBelongs, Alone, OpenBound, BusyIsOpen,
         Busy, Working, WaitsEnsuring, QueueIsQueued, Distinct
<1>4. Wire
  BY DEF Init, Wire, LastIsSent, FlightOwned, PlainFlight
<1>5. NoPlainLeak
  BY DEF Init, NoPlainLeak, InPool
<1>6. Bounded
  BY <1>1, FS_EmptySet, SizeAssumption DEF Bounded, PoolBound
<1>7. TimerInPool
  BY DEF Init, TimerInPool
<1> QED
  BY <1>2, <1>3, <1>4, <1>5, <1>6, <1>7 DEF IInv

\* The fields Send() writes.
SentTypes(ts, ph) ==
    /\ inflight' \in [Conn -> Seq(Task)]
    /\ lastCommand' \in [Conn -> Task \cup {None}]
    /\ phase' \in [Task -> Working \cup {"idle", "ensuring", "queued", "failed"}]
    /\ \A t \in Task : phase'[t] = IF t \in ts THEN "sent" ELSE ph[t]

\* Send() writes calls into the fields that hold calls.
LEMMA SendTypes ==
  ASSUME TypeOK, NEW c \in Conn, NEW ts \in SUBSET Task, NEW pending \in Seq(Task), NEW ph,
         Send(c, ts, pending, ph),
         \A t \in Task : ph[t] \in Working \cup {"idle", "ensuring", "queued", "failed"}
  PROVE  SentTypes(ts, ph)
<1>1. PICK order \in Seq(Task) : SentInOrder(c, ts, pending, ph, order)
  BY SendIs
<1>2. pending \o order \in Seq(Task)
  BY ConcatProperties
<1>3. inflight' \in [Conn -> Seq(Task)]
  BY <1>1, <1>2 DEF SentInOrder, TypeOK
<1>4. phase' \in [Task -> Working \cup {"idle", "ensuring", "queued", "failed"}]
  BY <1>1 DEF SentInOrder, Working
<1>5. ts # {} => order[Len(order)] \in Task
  <2>1. IsFiniteSet(ts)
    BY TaskAssumption, FS_Subset
  <2>2. ts # {} => Len(order) # 0 /\ Len(order) \in Nat
    BY <1>1, <2>1, FS_EmptySet DEF SentInOrder
  <2> QED
    BY <2>2
<1>6. lastCommand' \in [Conn -> Task \cup {None}]
  BY <1>1, <1>5 DEF SentInOrder, TypeOK
<1> QED
  BY <1>1, <1>3, <1>4, <1>6 DEF SentInOrder, SentTypes

\* The fields release() touches.
HeldTypes ==
    /\ reserved \in [Conn -> BOOLEAN] /\ cleanup \in [Conn -> BOOLEAN]
    /\ transaction \in [Conn -> Txn \cup {None}] /\ txConn \in [Txn -> Conn \cup {None}]
    /\ queue \in Seq(Task)
    /\ phase \in [Task -> Working \cup {"idle", "ensuring", "queued", "failed"}]
    /\ conn \in [Task -> Conn \cup {None}]
    /\ \A t \in Task : conn[t] # None <=> phase[t] \in Working

\* release() leaves every field with a value of its type.
LEMMA GivebackTypes ==
  ASSUME TypeOK, Holding, NEW c \in Conn, NEW ph, NEW cn,
         ph \in [Task -> Working \cup {"idle", "ensuring", "queued", "failed"}],
         cn \in [Task -> Conn \cup {None}],
         \A t \in Task : cn[t] # None <=> ph[t] \in Working,
         NEW tr, tr = [transaction EXCEPT ![c] = None], Giveback(c, ph, cn, tr)
  PROVE  HeldTypes'
<1>1. tr \in [Conn -> Txn \cup {None}]
  BY DEF TypeOK
<1>2. CASE queue = <<>>
  <2>1. /\ reserved' = [reserved EXCEPT ![c] = FALSE]
        /\ cleanup' = [cleanup EXCEPT ![c] = status[c] # "gone"]
        /\ phase' = ph /\ conn' = cn /\ transaction' = tr /\ queue' = queue /\ txConn' = txConn
    BY <1>2 DEF Giveback
  <2>2. reserved' \in [Conn -> BOOLEAN] /\ cleanup' \in [Conn -> BOOLEAN]
    BY <2>1 DEF TypeOK
  <2> QED
    BY <1>1, <2>1, <2>2 DEF TypeOK, HeldTypes
<1>3. CASE queue # <<>>
  <2> DEFINE w == Head(queue)
  <2>1. w \in Task /\ Tail(queue) \in Seq(Task)
    BY <1>3, TailIs DEF TypeOK, Holding, QueueIsQueued
  <2>2. /\ phase' = [ph EXCEPT ![w] = "got"] /\ conn' = [cn EXCEPT ![w] = c]
        /\ transaction' = [tr EXCEPT ![c] = TxnOf[w]]
        /\ txConn' = [x \in Txn |-> IF x = TxnOf[w] THEN c ELSE txConn[x]]
        /\ queue' = Tail(queue) /\ reserved' = reserved /\ cleanup' = cleanup
    BY <1>3 DEF Giveback
  <2> HIDE DEF w
  <2>3. TxnOf[w] \in Txn \cup {None} /\ c # None
    BY <2>1, TxnOfAssumption, NoneAssumption
  <2>4. transaction' \in [Conn -> Txn \cup {None}] /\ txConn' \in [Txn -> Conn \cup {None}]
    BY <1>1, <2>2, <2>3 DEF TypeOK
  <2>5. /\ phase' \in [Task -> Working \cup {"idle", "ensuring", "queued", "failed"}]
        /\ conn' \in [Task -> Conn \cup {None}]
        /\ \A t \in Task : conn'[t] # None <=> phase'[t] \in Working
    BY <2>1, <2>2, <2>3 DEF Working
  <2> QED
    BY <2>1, <2>2, <2>4, <2>5 DEF TypeOK, HeldTypes
<1> QED
  BY <1>2, <1>3

-----------------------------------------------------------------------------
(* Getting a connection                                                    *)

\* ensureHostsConnected() may make a connection, which nobody owns.
LEMMA EnsureInv == ASSUME IInv, NEW t \in Task, Ensure(t) PROVE IInv'
<1>1. /\ phase[t] = "idle" /\ (phase' = [phase EXCEPT ![t] = "ensuring"] \/ phase' = [phase EXCEPT ![t] = "failed"])
      /\ TxnOf[t] # None => txState[TxnOf[t]] = "open"
      /\ UNCHANGED <<cleanup, transaction, lastCommand, inflight, conn, txConn, txState, queue, hostKnown>>
  BY DEF Ensure, txVars
<1>2. TypeOK /\ Holding
  BY DEF IInv
<1>3. \/ /\ InPool = {}
         /\ \E c \in Conn : /\ Fresh(c)
                            /\ status' = [status EXCEPT ![c] = "connecting"]
                            /\ reserved' = [reserved EXCEPT ![c] = FALSE]
                            /\ waits' = [waits EXCEPT ![t] = {c}]
                            /\ phase' = [phase EXCEPT ![t] = "ensuring"]
      \/ /\ UNCHANGED <<status, reserved>>
         /\ \/ waits' = waits /\ phase' = [phase EXCEPT ![t] = "failed"]
            \/ /\ waits' = [waits EXCEPT ![t] = {c \in Conn : status[c] = "connecting"}]
               /\ phase' = [phase EXCEPT ![t] = "ensuring"]
  BY DEF Ensure
<1>4. TypeOK'
  <2>1. phase' \in [Task -> Working \cup {"idle", "ensuring", "queued", "failed"}]
    BY <1>1, <1>2 DEF TypeOK
  <2>2. waits' \in [Task -> SUBSET Conn] /\ status' \in [Conn -> Listed \cup {"gone"}]
        /\ reserved' \in [Conn -> BOOLEAN]
    <3>1. CASE UNCHANGED <<status, reserved>>
      <4>1. {c \in Conn : status[c] = "connecting"} \in SUBSET Conn /\ \A c \in Conn : {c} \in SUBSET Conn
        OBVIOUS
      <4>2. waits' = waits \/ \E W \in SUBSET Conn : waits' = [waits EXCEPT ![t] = W]
        BY <1>3, <4>1
      <4> QED
        BY <1>2, <3>1, <4>2 DEF TypeOK
    <3>2. CASE \E c \in Conn : /\ status' = [status EXCEPT ![c] = "connecting"]
                              /\ reserved' = [reserved EXCEPT ![c] = FALSE]
                              /\ waits' = [waits EXCEPT ![t] = {c}]
      BY <1>2, <3>2 DEF TypeOK, Listed
    <3> QED
      BY <1>3, <3>1, <3>2
  <2>3. \A u \in Task : conn'[u] # None <=> phase'[u] \in Working
    BY <1>1, <1>2 DEF TypeOK, Working
  <2> QED
    BY <1>1, <1>2, <2>1, <2>2, <2>3 DEF TypeOK
\* An object nobody refers to is not reserved for anybody.
<1>5. \A c \in Conn : \/ reserved'[c] = reserved[c]
                      \/ Fresh(c) /\ ~reserved'[c]
  BY <1>2, <1>3 DEF TypeOK
<1>6. Holding'
  <2>1. HoldersReserve'
    BY <1>1, <1>2, <1>5 DEF TypeOK, Holding, HoldersReserve, Fresh, Holders
  <2>2. FreeIsBare'
    BY <1>1, <1>2, <1>5 DEF Holding, FreeIsBare, Fresh
  <2>3. HolderBelongs' /\ Alone'
    BY <1>1, <1>2 DEF Holding, HolderBelongs, Alone
  <2>4. OpenBound'
    BY <1>1, <1>2, <1>5 DEF TypeOK, Holding, OpenBound, Fresh
  <2>5. BusyIsOpen'
    BY <1>1, <1>2 DEF TypeOK, Holding, BusyIsOpen
  <2>6. WaitsEnsuring'
    <3>1. \A u \in Task : u # t => waits'[u] = waits[u] /\ phase'[u] = phase[u]
      BY <1>2, <1>3 DEF TypeOK
    <3>2. phase'[t] = "ensuring" \/ waits'[t] = {}
      <4>1. waits[t] = {}
        BY <1>1, <1>2 DEF Holding, WaitsEnsuring
      <4> QED
        BY <1>2, <1>3, <4>1 DEF TypeOK
    <3> QED
      BY <1>2, <3>1, <3>2 DEF Holding, WaitsEnsuring
  <2>7. QueueIsQueued'
    BY <1>1, <1>2 DEF TypeOK, Holding, QueueIsQueued
  <2> QED
    BY <2>1, <2>2, <2>3, <2>4, <2>5, <2>6, <2>7 DEF Holding
<1>7. Wire'
  <2>1. \A u \in Task : phase[u] = "sent" => phase'[u] = "sent" /\ conn'[u] = conn[u]
    BY <1>1, <1>2 DEF TypeOK
  <2> QED
    BY <1>1, <1>2, <2>1, WireKept DEF IInv
<1>8. NoPlainLeak'
  <2> SUFFICES ASSUME NEW c \in Conn, status'[c] \in Listed, reserved'[c]
               PROVE  Holders(c)' # {} \/ transaction'[c] # None
    BY DEF NoPlainLeak, InPool
  <2>1. reserved[c] /\ status[c] \in Listed
    BY <1>2, <1>3, <1>5 DEF TypeOK
  <2>2. Holders(c) # {} \/ transaction[c] # None
    BY <2>1 DEF IInv, NoPlainLeak, InPool
  <2> QED
    BY <1>1, <2>2 DEF Holders
<1>9. Bounded'
  <2>1. CASE InPool = {} /\ status' # status
    <3>1. PICK c \in Conn : status' = [status EXCEPT ![c] = "connecting"]
      BY <1>3, <2>1
    <3>2. InPool' = InPool \cup {c}
      BY <1>2, <3>1 DEF InPool, Listed, TypeOK
    <3> QED
      BY <2>1, <3>2, PoolGrows DEF IInv
  <2>2. CASE ~(InPool = {} /\ status' # status)
    <3>1. InPool' = InPool
      BY <1>3, <2>2 DEF InPool
    <3> QED
      BY <3>1, PoolShrinks DEF IInv
  <2> QED
    BY <2>1, <2>2
<1>10. TimerInPool'
  <2>1. \A c \in Conn : c \in InPool => c \in InPool'
    BY <1>2, <1>3 DEF InPool, Listed, TypeOK
  <2> QED
    BY <1>1, <2>1 DEF IInv, TimerInPool
<1> QED
  BY <1>10, <1>4, <1>6, <1>7, <1>8, <1>9 DEF IInv

\* A call of a transaction uses the connection the transaction has.
LEMMA ShareInv == ASSUME IInv, NEW t \in Task, Share(t) PROVE IInv'
<1> DEFINE c == txConn[TxnOf[t]]
<1>1. /\ phase[t] = "idle" /\ TxnOf[t] # None /\ txState[TxnOf[t]] = "open" /\ c # None
      /\ phase' = [phase EXCEPT ![t] = "got"] /\ conn' = [conn EXCEPT ![t] = c]
      /\ UNCHANGED <<status, reserved, cleanup, transaction, lastCommand, inflight, waits, txConn, txState, queue, hostKnown>>
  BY DEF Share, connVars, txVars
<1>2. TypeOK /\ Holding
  BY DEF IInv
<1>3. TxnOf[t] \in Txn /\ c \in Conn /\ transaction[c] = TxnOf[t] /\ reserved[c]
  <2>1. TxnOf[t] \in Txn
    BY <1>1, TxnOfAssumption
  <2> QED
    BY <1>1, <1>2, <2>1 DEF TypeOK, Holding, OpenBound
<1> HIDE DEF c
<1>4. TypeOK'
  <2>1. /\ phase' \in [Task -> Working \cup {"idle", "ensuring", "queued", "failed"}]
        /\ conn' \in [Task -> Conn \cup {None}]
    BY <1>1, <1>2, <1>3 DEF TypeOK, Working
  <2>2. \A u \in Task : conn'[u] # None <=> phase'[u] \in Working
    BY <1>1, <1>2 DEF TypeOK, Working
  <2> QED
    BY <1>1, <1>2, <2>1, <2>2 DEF TypeOK
<1>5. \A u \in Task : /\ phase'[u] = IF u = t THEN "got" ELSE phase[u]
                      /\ conn'[u] = IF u = t THEN c ELSE conn[u]
  BY <1>1, <1>2 DEF TypeOK
<1>6. Holding'
  <2>1. HoldersReserve'
    BY <1>1, <1>2, <1>3, <1>5 DEF Holding, HoldersReserve
  <2>2. FreeIsBare' /\ OpenBound'
    BY <1>1, <1>2 DEF Holding, FreeIsBare, OpenBound
  <2>3. HolderBelongs'
    BY <1>1, <1>2, <1>3, <1>5 DEF Holding, HolderBelongs
  <2>4. Alone'
    BY <1>1, <1>2, <1>3, <1>5 DEF Holding, Alone, HolderBelongs
  <2>5. BusyIsOpen'
    BY <1>1, <1>2, <1>5 DEF Holding, BusyIsOpen
  <2>6. WaitsEnsuring'
    BY <1>1, <1>2, <1>5 DEF Holding, WaitsEnsuring
  <2>7. QueueIsQueued'
    BY <1>1, <1>2, <1>5 DEF TypeOK, Holding, QueueIsQueued
  <2> QED
    BY <2>1, <2>2, <2>3, <2>4, <2>5, <2>6, <2>7 DEF Holding
<1>7. Wire'
  BY <1>1, <1>2, <1>5, WireKept DEF IInv
<1>8. NoPlainLeak'
  <2> SUFFICES ASSUME NEW d \in Conn, status'[d] \in Listed, reserved'[d]
               PROVE  Holders(d)' # {} \/ transaction'[d] # None
    BY DEF NoPlainLeak, InPool
  <2>1. Holders(d) # {} \/ transaction[d] # None
    BY <1>1 DEF IInv, NoPlainLeak, InPool
  <2>2. \A u \in Task : conn[u] = d => conn'[u] = d
    <3>1. conn[t] = None /\ d # None
      BY <1>1, <1>2, NoneAssumption DEF TypeOK, Working
    <3> QED
      BY <1>5, <3>1
  <2> QED
    BY <1>1, <2>1, <2>2 DEF Holders
<1>9. Bounded'
  <2>1. InPool' = InPool
    BY <1>1 DEF InPool
  <2> QED
    BY <2>1, PoolShrinks DEF IInv
<1>10. TimerInPool'
  BY <1>1 DEF IInv, TimerInPool, InPool
<1> QED
  BY <1>10, <1>4, <1>6, <1>7, <1>8, <1>9 DEF IInv

\* Of a connection nobody has reserved, or that is new, nothing is left of
\* an earlier owner.
LEMMA Unowned ==
  ASSUME TypeOK, Holding, NEW c \in Conn, Free(c) \/ Fresh(c)
  PROVE  /\ transaction[c] = None /\ \A u \in Task : conn[u] # c
         /\ \A x \in Txn : txState[x] = "open" => txConn[x] # c
<1>1. c # None
  BY NoneAssumption
<1>2. CASE Free(c)
  BY <1>1, <1>2 DEF Free, Holding, HoldersReserve, FreeIsBare, OpenBound
<1>3. CASE Fresh(c)
  BY <1>3 DEF Fresh, Holders
<1> QED
  BY <1>2, <1>3

\* getConnection() hands out a free connection or a new one.
LEMMA GetsInv ==
  ASSUME IInv, NEW t \in Task, NEW c \in Conn, phase[t] = "ensuring", waits[t] = {},
         Free(c) \/ Fresh(c), Bind(t, c), Reserve(c),
         UNCHANGED <<lastCommand, inflight, waits, txState, queue, hostKnown>>,
         \/ status' = status
         \/ Fresh(c) /\ MayGrow /\ status' = [status EXCEPT ![c] = "connecting"]
  PROVE  IInv'
<1>1. TypeOK /\ Holding
  BY DEF IInv
<1>2. TxnOf[t] \in Txn \cup {None} /\ c # None /\ None \notin Txn
  BY TxnOfAssumption, NoneAssumption
<1>3. transaction[c] = None /\ \A u \in Task : conn[u] # c
  BY <1>1, Unowned
<1>4. \A x \in Txn : txState[x] = "open" => txConn[x] # c
  BY <1>1, Unowned
<1>5. /\ reserved' = [reserved EXCEPT ![c] = TRUE]
      /\ cleanup' = [cleanup EXCEPT ![c] = FALSE]
      /\ phase' = [phase EXCEPT ![t] = "got"]
      /\ conn' = [conn EXCEPT ![t] = c]
  BY DEF Bind, Reserve
<1>7. \A u \in Task : /\ phase'[u] = IF u = t THEN "got" ELSE phase[u]
                      /\ conn'[u] = IF u = t THEN c ELSE conn[u]
  BY <1>1, <1>5 DEF TypeOK
<1>8. \A d \in Conn : transaction'[d] = IF d = c THEN TxnOf[t] ELSE transaction[d]
  BY <1>1, <1>3 DEF TypeOK, Bind
<1>9. \A x \in Txn : txConn'[x] = IF x = TxnOf[t] THEN c ELSE txConn[x]
  BY <1>1, <1>2 DEF TypeOK, Bind
<1>10. TypeOK'
  <2>1. reserved' \in [Conn -> BOOLEAN] /\ cleanup' \in [Conn -> BOOLEAN]
    BY <1>1, <1>5 DEF TypeOK
  <2>2. status' \in [Conn -> Listed \cup {"gone"}]
    BY <1>1 DEF TypeOK, Listed
  <2>3. /\ phase' \in [Task -> Working \cup {"idle", "ensuring", "queued", "failed"}]
        /\ conn' \in [Task -> Conn \cup {None}]
    BY <1>1, <1>5 DEF TypeOK, Working
  <2>4. transaction' \in [Conn -> Txn \cup {None}] /\ txConn' \in [Txn -> Conn \cup {None}]
    <3>1. transaction \in [Conn -> Txn \cup {None}] /\ txConn \in [Txn -> Conn \cup {None}]
      BY <1>1 DEF TypeOK
    <3>2. CASE TxnOf[t] = None
      BY <3>1, <3>2 DEF Bind
    <3>3. CASE TxnOf[t] # None
      <4>1. /\ transaction' = [transaction EXCEPT ![c] = TxnOf[t]]
            /\ txConn' = [txConn EXCEPT ![TxnOf[t]] = c]
        BY <3>3 DEF Bind
      <4> QED
        BY <1>2, <3>1, <4>1
    <3> QED
      BY <3>2, <3>3
  <2>5. \A u \in Task : conn'[u] # None <=> phase'[u] \in Working
    BY <1>1, <1>2, <1>7 DEF TypeOK, Working
  <2> QED
    BY <1>1, <2>1, <2>2, <2>3, <2>4, <2>5 DEF TypeOK
<1>11. Holding'
  <2>1. reserved'[c] /\ ~cleanup'[c] /\ \A d \in Conn : d # c => reserved'[d] = reserved[d] /\ cleanup'[d] = cleanup[d]
    BY <1>1, <1>5 DEF TypeOK
  <2>2. \A u \in Task : phase'[u] \in Busy /\ TxnOf[u] # None => txState'[TxnOf[u]] = "open"
    BY <1>1, <1>7 DEF Holding, BusyIsOpen, Busy
  <2>3. \A x \in Txn : txState'[x] = "open" => txState[x] = "open" /\ txConn[x] # c
    BY <1>4
  <2>4. \A u \in Task : u # t => phase'[u] = phase[u] /\ conn'[u] = conn[u] /\ conn[u] # c
    BY <1>3, <1>7
  <2>5. Distinct(queue') /\ \A k \in DOMAIN queue' : queue'[k] # t /\ \E j \in DOMAIN queue : queue'[k] = queue[j]
    BY <1>1 DEF Holding, QueueIsQueued
  <2> QED
    BY <1>1, <1>7, <1>8, <1>9, <2>1, <2>2, <2>3, <2>4, <2>5, HandedOver
<1>12. Wire'
  BY <1>1, <1>7, WireKept DEF IInv
<1>13. NoPlainLeak'
  <2> SUFFICES ASSUME NEW d \in Conn, status'[d] \in Listed, reserved'[d]
               PROVE  Holders(d)' # {} \/ transaction'[d] # None
    BY DEF NoPlainLeak, InPool
  <2>1. CASE d = c
    BY <1>7, <2>1 DEF Holders
  <2>2. CASE d # c
    <3>1. Holders(d) # {} \/ transaction[d] # None
      BY <1>1, <1>5, <2>2 DEF IInv, NoPlainLeak, InPool, TypeOK
    <3>2. \A u \in Task : conn[u] = d => conn'[u] = d
      <4>1. conn[t] = None /\ d # None
        BY <1>1, NoneAssumption DEF TypeOK, Working
      <4> QED
        BY <1>7, <4>1
    <3> QED
      BY <1>8, <2>2, <3>1, <3>2 DEF Holders
  <2> QED
    BY <2>1, <2>2
<1>14. Bounded'
  <2>1. CASE status' = status
    <3>1. InPool' = InPool
      BY <2>1 DEF InPool
    <3> QED
      BY <3>1, PoolShrinks DEF IInv
  <2>2. CASE MayGrow /\ status' = [status EXCEPT ![c] = "connecting"]
    <3>1. InPool' = InPool \cup {c}
      BY <1>1, <2>2 DEF InPool, Listed, TypeOK
    <3> QED
      BY <2>2, <3>1, PoolGrows DEF IInv
  <2> QED
    BY <2>1, <2>2
<1>15. TimerInPool'
  <2>1. \A d \in Conn : d \in InPool => d \in InPool'
    BY <1>1 DEF InPool, Listed, TypeOK
  <2>2. \A d \in Conn : cleanup'[d] => cleanup[d]
    BY <1>1, <1>5 DEF TypeOK
  <2> QED
    BY <2>1, <2>2 DEF IInv, TimerInPool
<1> QED
  BY <1>15, <1>10, <1>11, <1>12, <1>13, <1>14 DEF IInv

\* A call that was turned down does not stand in line.
LEMMA QueueStays ==
  ASSUME TypeOK, QueueIsQueued, NEW t \in Task, phase[t] = "ensuring", queue' = queue,
         \A u \in Task : u # t => phase'[u] = phase[u]
  PROVE  QueueIsQueued'
<1>1. \A k \in DOMAIN queue : queue[k] \in Task /\ phase[queue[k]] = "queued"
  BY DEF TypeOK, QueueIsQueued
<1>2. \A k \in DOMAIN queue : phase'[queue[k]] = "queued"
  BY <1>1
<1> QED
  BY <1>2 DEF QueueIsQueued

\* A call that waits stands in line once.
LEMMA QueueGrows ==
  ASSUME TypeOK, QueueIsQueued, NEW t \in Task, phase[t] = "ensuring", queue' = Append(queue, t),
         phase'[t] = "queued", \A u \in Task : u # t => phase'[u] = phase[u]
  PROVE  QueueIsQueued'
<1>1. \A k \in DOMAIN queue : queue[k] \in Task /\ phase[queue[k]] = "queued" /\ queue[k] # t
  BY DEF TypeOK, QueueIsQueued
<1>2. Len(queue) \in Nat /\ DOMAIN queue = 1 .. Len(queue) /\ queue \in Seq(Task)
  BY LenProperties DEF TypeOK
<1>3. /\ queue' \in Seq(Task) /\ Len(queue') = Len(queue) + 1
      /\ queue'[Len(queue) + 1] = t
      /\ \A k \in 1 .. Len(queue) : queue'[k] = queue[k]
  BY <1>2, AppendProperties
<1>4. DOMAIN queue' = 1 .. Len(queue) + 1
  BY <1>3, LenProperties
<1>5. \A k \in DOMAIN queue' : k \in DOMAIN queue \/ k = Len(queue) + 1
  BY <1>2, <1>4
<1>6. \A k \in DOMAIN queue' : phase'[queue'[k]] = "queued"
  BY <1>1, <1>2, <1>3, <1>5
<1>7. Distinct(queue)
  BY DEF QueueIsQueued
<1>8. Distinct(queue')
  BY <1>1, <1>2, <1>3, <1>5, <1>7 DEF Distinct
<1> QED
  BY <1>6, <1>8 DEF QueueIsQueued

\* A call that gets no connection is turned down, or stands in line.
LEMMA WaitsInv ==
  ASSUME IInv, NEW t \in Task, phase[t] = "ensuring", waits[t] = {},
         \/ phase' = [phase EXCEPT ![t] = "failed"] /\ queue' = queue
         \/ phase' = [phase EXCEPT ![t] = "queued"] /\ queue' = Append(queue, t),
         UNCHANGED <<connVars, conn, waits, txVars, hostKnown>>
  PROVE  IInv'
<1>1. TypeOK /\ Holding
  BY DEF IInv
<1>2. UNCHANGED <<status, reserved, cleanup, transaction, lastCommand, inflight, conn, waits, txConn, txState, hostKnown>>
  BY DEF connVars, txVars
<1>3. /\ \A u \in Task : u # t => phase'[u] = phase[u]
      /\ phase'[t] \in {"failed", "queued"}
      /\ phase' \in [Task -> Working \cup {"idle", "ensuring", "queued", "failed"}]
  BY <1>1 DEF TypeOK
<1>4. TypeOK'
  <2>1. queue' \in Seq(Task)
    <3>1. queue \in Seq(Task)
      BY <1>1 DEF TypeOK
    <3>2. Append(queue, t) \in Seq(Task)
      BY <3>1, AppendProperties
    <3> QED
      BY <3>1, <3>2
  <2>2. \A u \in Task : conn'[u] # None <=> phase'[u] \in Working
    BY <1>1, <1>2, <1>3 DEF TypeOK, Working
  <2> QED
    BY <1>1, <1>2, <1>3, <2>1, <2>2 DEF TypeOK
<1>5. Holding'
  <2>1. HoldersReserve' /\ FreeIsBare' /\ HolderBelongs' /\ Alone' /\ OpenBound'
    BY <1>1, <1>2 DEF Holding, HoldersReserve, FreeIsBare, HolderBelongs, Alone, OpenBound
  <2>2. BusyIsOpen'
    BY <1>1, <1>2, <1>3 DEF Holding, BusyIsOpen, Busy
  <2>3. WaitsEnsuring'
    BY <1>1, <1>2, <1>3 DEF Holding, WaitsEnsuring
  <2>7. QueueIsQueued'
    <3>1. QueueIsQueued
      BY <1>1 DEF Holding
    <3>2. CASE queue' = queue
      BY <1>1, <1>3, <3>1, <3>2, QueueStays
    <3>3. CASE queue' = Append(queue, t) /\ phase' = [phase EXCEPT ![t] = "queued"]
      <4>1. phase'[t] = "queued"
        BY <1>1, <3>3 DEF TypeOK
      <4> QED
        BY <1>1, <1>3, <3>1, <3>3, <4>1, QueueGrows
    <3> QED
      BY <3>2, <3>3
  <2> QED
    BY <2>1, <2>2, <2>3, <2>7 DEF Holding
<1>6. Wire'
  BY <1>1, <1>2, <1>3, WireKept DEF IInv
<1>7. NoPlainLeak'
  BY <1>2 DEF IInv, NoPlainLeak, InPool, Holders
<1>8. Bounded'
  <2>1. InPool' = InPool
    BY <1>2 DEF InPool
  <2> QED
    BY <2>1, PoolShrinks DEF IInv
<1>9. TimerInPool'
  BY <1>2 DEF IInv, TimerInPool, InPool
<1> QED
  BY <1>9, <1>4, <1>5, <1>6, <1>7, <1>8 DEF IInv

\* Every way out of getConnection().
LEMMA GetConnectionInv == ASSUME IInv, NEW t \in Task, GetConnection(t) PROVE IInv'
<1>1. /\ phase[t] = "ensuring" /\ waits[t] = {}
      /\ UNCHANGED <<lastCommand, inflight, waits, txState, hostKnown>>
      /\ (\E c \in Conn : Take(t, c) \/ Create(t, c)) \/ NoHost(t) \/ Enqueue(t)
  BY DEF GetConnection
<1>2. ASSUME NEW c \in Conn, Take(t, c) PROVE IInv'
  <2>1. Free(c) /\ Bind(t, c) /\ Reserve(c) /\ status' = status /\ queue' = queue
    BY <1>2 DEF Take
  <2> QED
    BY <1>1, <2>1, GetsInv
<1>3. ASSUME NEW c \in Conn, Create(t, c) PROVE IInv'
  <2>1. /\ MayGrow /\ Fresh(c) /\ Bind(t, c) /\ Reserve(c) /\ queue' = queue
        /\ status' = [status EXCEPT ![c] = "connecting"]
    BY <1>3 DEF Create
  <2> QED
    BY <1>1, <2>1, GetsInv
<1>4. CASE NoHost(t)
  BY <1>1, <1>4, WaitsInv DEF NoHost, connVars, txVars
<1>5. CASE Enqueue(t)
  BY <1>1, <1>5, WaitsInv DEF Enqueue, connVars, txVars
<1> QED
  BY <1>1, <1>2, <1>3, <1>4, <1>5

-----------------------------------------------------------------------------
(* Giving a connection back                                                *)

\* Whoever gives c back (a call that let go of it, or the transaction x that
\* ended), nobody else has anything to do with it.
LEMMA GivebackInv ==
  ASSUME IInv, NEW c \in Conn, NEW ph, NEW cn, reserved[c],
         ph \in [Task -> Working \cup {"idle", "ensuring", "queued", "failed"}],
         cn \in [Task -> Conn \cup {None}],
         \A u \in Task : \/ ph[u] = phase[u] /\ cn[u] = conn[u] /\ conn[u] # c
                         \/ phase[u] = "finally" /\ conn[u] = c /\ ph[u] = "idle" /\ cn[u] = None,
         \A x \in Txn : txState'[x] = "open" => txState[x] = "open" /\ txConn[x] # c,
         \A u \in Task : ph[u] \in Busy /\ TxnOf[u] # None => txState'[TxnOf[u]] = "open",
         txState' \in [Txn -> {"open", "ended", "abandoned"}],
         Giveback(c, ph, cn, [transaction EXCEPT ![c] = None]),
         UNCHANGED <<status, lastCommand, inflight, waits, hostKnown>>
  PROVE  IInv'
<1>1. TypeOK /\ Holding
  BY DEF IInv
<1>2. \A u \in Task : cn[u] # None <=> ph[u] \in Working
  BY <1>1 DEF TypeOK, Working
<1>3. TypeOK'
  <2>1. HeldTypes'
    BY <1>1, <1>2, GivebackTypes
  <2> QED
    BY <1>1, <2>1 DEF TypeOK, HeldTypes
\* What becomes of c, and of the first in line.
<1>4. ASSUME queue = <<>> PROVE Holding' /\ Wire' /\ NoPlainLeak' /\ TimerInPool'
  <2>1. /\ reserved' = [reserved EXCEPT ![c] = FALSE]
        /\ cleanup' = [cleanup EXCEPT ![c] = status[c] # "gone"]
        /\ transaction' = [transaction EXCEPT ![c] = None]
        /\ phase' = ph /\ conn' = cn /\ queue' = queue /\ txConn' = txConn
    BY <1>4 DEF Giveback
  <2>2. \A d \in Conn : transaction'[d] = IF d = c THEN None ELSE transaction[d]
    BY <1>1, <2>1 DEF TypeOK
  <2>3. ~reserved'[c] /\ \A d \in Conn : d # c => reserved'[d] = reserved[d] /\ cleanup'[d] = cleanup[d]
    BY <1>1, <2>1 DEF TypeOK
  <2>4. \A u \in Task : \/ phase'[u] = phase[u] /\ conn'[u] = conn[u] /\ conn[u] # c
                        \/ phase[u] = "finally" /\ conn[u] = c /\ phase'[u] = "idle" /\ conn'[u] = None
    BY <2>1
  <2>5. Holding'
    <3>1. \A u \in Task : \/ phase'[u] = phase[u] /\ conn'[u] = conn[u] /\ conn[u] # c
                          \/ phase[u] \in Working /\ phase'[u] = "idle" /\ conn'[u] = None
      BY <2>4 DEF Working
    <3>2. \A u \in Task : phase'[u] \in Busy /\ TxnOf[u] # None => txState'[TxnOf[u]] = "open"
      BY <2>1
    <3>3. waits' = waits /\ queue' = queue /\ txConn' = txConn
      BY <2>1
    <3> QED
      BY <1>1, <1>4, <2>2, <2>3, <3>1, <3>2, <3>3, PutBack
  <2>6. Wire'
    BY <1>1, <2>4, WireKept DEF IInv
  <2>7. NoPlainLeak'
    <3> SUFFICES ASSUME NEW d \in Conn, status'[d] \in Listed, reserved'[d]
                 PROVE  Holders(d)' # {} \/ transaction'[d] # None
      BY DEF NoPlainLeak, InPool
    <3>1. d # c /\ reserved[d] /\ status[d] \in Listed
      BY <2>3
    <3>2. Holders(d) # {} \/ transaction[d] # None
      BY <3>1 DEF IInv, NoPlainLeak, InPool
    <3> QED
      BY <2>2, <2>4, <3>1, <3>2 DEF Holders
  <2>8. TimerInPool'
    <3>1. \A d \in Conn : cleanup'[d] => cleanup[d] \/ (d = c /\ status[c] # "gone")
      BY <1>1, <2>1 DEF TypeOK
    <3>2. status[c] # "gone" => c \in InPool
      BY <1>1 DEF TypeOK, InPool
    <3>3. InPool' = InPool
      BY DEF InPool
    <3> QED
      BY <3>1, <3>2, <3>3 DEF IInv, TimerInPool
  <2> QED
    BY <2>5, <2>6, <2>7, <2>8
<1>5. ASSUME queue # <<>> PROVE Holding' /\ Wire' /\ NoPlainLeak' /\ TimerInPool'
  <2> DEFINE w == Head(queue)
  <2>1. /\ w \in Task /\ w = queue[1] /\ 1 \in DOMAIN queue /\ Distinct(Tail(queue))
        /\ \A k \in DOMAIN Tail(queue) : /\ k + 1 \in DOMAIN queue /\ Tail(queue)[k] = queue[k + 1]
                                         /\ Tail(queue)[k] # w
    BY <1>1, <1>5, TailIs DEF TypeOK, Holding, QueueIsQueued
  <2>2. /\ phase' = [ph EXCEPT ![w] = "got"] /\ conn' = [cn EXCEPT ![w] = c]
        /\ transaction' = [[transaction EXCEPT ![c] = None] EXCEPT ![c] = TxnOf[w]]
        /\ txConn' = [x \in Txn |-> IF x = TxnOf[w] THEN c ELSE txConn[x]]
        /\ queue' = Tail(queue) /\ reserved' = reserved /\ cleanup' = cleanup
    BY <1>5 DEF Giveback
  <2> HIDE DEF w
  <2>3. phase[w] = "queued" /\ waits[w] = {} /\ conn[w] = None
    <3>1. phase[w] = "queued"
      BY <1>1, <2>1 DEF Holding, QueueIsQueued
    <3> QED
      BY <1>1, <2>1, <3>1 DEF TypeOK, Holding, WaitsEnsuring, Working
  <2>4. \A d \in Conn : transaction'[d] = IF d = c THEN TxnOf[w] ELSE transaction[d]
    BY <1>1, <2>2 DEF TypeOK
  <2>5. \A x \in Txn : txConn'[x] = IF x = TxnOf[w] THEN c ELSE txConn[x]
    BY <2>2
  <2>6. phase'[w] = "got" /\ conn'[w] = c
    BY <2>1, <2>2
  <2>7. \A u \in Task : u # w => \/ phase'[u] = phase[u] /\ conn'[u] = conn[u] /\ conn[u] # c
                                 \/ phase[u] = "finally" /\ conn[u] = c /\ phase'[u] = "idle" /\ conn'[u] = None
    BY <2>2
  <2>8. ph[w] = "queued"
    BY <2>1, <2>3
  <2>9. Holding'
    <3>1. \A u \in Task : u # w => \/ phase'[u] = phase[u] /\ conn'[u] = conn[u] /\ conn[u] # c
                                   \/ phase[u] \in Working /\ phase'[u] = "idle" /\ conn'[u] = None
      BY <2>7 DEF Working
    <3>2. \A u \in Task : phase'[u] \in Busy /\ TxnOf[u] # None => txState'[TxnOf[u]] = "open"
      <4>1. \A u \in Task : phase'[u] \in Busy => ph[u] \in Busy
        BY <2>2, <2>8 DEF Busy
      <4> QED
        BY <4>1
    <3>3. Distinct(queue') /\ \A k \in DOMAIN queue' : queue'[k] # w /\ \E j \in DOMAIN queue : queue'[k] = queue[j]
      BY <2>1, <2>2
    <3>4. reserved'[c] /\ ~cleanup'[c] /\ \A d \in Conn : d # c => reserved'[d] = reserved[d] /\ cleanup'[d] = cleanup[d]
      BY <1>1, <2>2 DEF Holding, FreeIsBare
    <3>5. phase[w] \in {"ensuring", "queued"} /\ waits' = waits
      BY <2>3
    <3> QED
      BY <1>1, <2>1, <2>3, <2>4, <2>5, <2>6, <3>1, <3>2, <3>3, <3>4, <3>5, HandedOver
  <2>10. Wire'
    <3>1. \A u \in Task : phase[u] = "sent" => phase'[u] = "sent" /\ conn'[u] = conn[u]
      BY <2>3, <2>7
    <3> QED
      BY <1>1, <3>1, WireKept DEF IInv
  <2>11. NoPlainLeak'
    <3> SUFFICES ASSUME NEW d \in Conn, status'[d] \in Listed, reserved'[d]
                 PROVE  Holders(d)' # {} \/ transaction'[d] # None
      BY DEF NoPlainLeak, InPool
    <3>1. CASE d = c
      BY <2>1, <2>6, <3>1 DEF Holders
    <3>2. CASE d # c
      <4>1. Holders(d) # {} \/ transaction[d] # None
        BY <2>2 DEF IInv, NoPlainLeak, InPool
      <4>2. \A u \in Task : conn[u] = d => conn'[u] = d
        BY <2>3, <2>7, <3>2, NoneAssumption
      <4> QED
        BY <2>4, <3>2, <4>1, <4>2 DEF Holders
    <3> QED
      BY <3>1, <3>2
  <2>12. TimerInPool'
    BY <2>2 DEF IInv, TimerInPool, InPool
  <2> QED
    BY <2>9, <2>10, <2>11, <2>12
<1>6. Bounded'
  <2>1. InPool' = InPool
    BY DEF InPool
  <2> QED
    BY <2>1, PoolShrinks DEF IInv
<1> QED
  BY <1>3, <1>4, <1>5, <1>6 DEF IInv

\* release() by a call, or by the finally of MongoClient.execute().
LEMMA ReleaseInv == ASSUME IInv, NEW t \in Task, Release(t) PROVE IInv'
<1> DEFINE c  == conn[t]
           ph == [phase EXCEPT ![t] = "idle"]
           cn == [conn EXCEPT ![t] = None]
<1>1. /\ phase[t] = "finally"
      /\ UNCHANGED <<status, lastCommand, inflight, waits, txState, hostKnown>>
  BY DEF Release
<1>2. TypeOK /\ Holding
  BY DEF IInv
<1>3. c \in Conn /\ c # None
  BY <1>1, <1>2 DEF TypeOK, Working
<1>4. /\ ph \in [Task -> Working \cup {"idle", "ensuring", "queued", "failed"}]
      /\ cn \in [Task -> Conn \cup {None}]
      /\ \A u \in Task : /\ ph[u] = IF u = t THEN "idle" ELSE phase[u]
                         /\ cn[u] = IF u = t THEN None ELSE conn[u]
  BY <1>2 DEF TypeOK
<1>5. CASE transaction[c] # None /\ txState[transaction[c]] # "ended"
  <2>1. phase' = ph /\ conn' = cn /\ UNCHANGED <<queue, transaction, txConn, reserved, cleanup>>
    BY <1>5 DEF Release
  <2> HIDE DEF ph, cn
  <2>2. TypeOK'
    <3>1. \A u \in Task : conn'[u] # None <=> phase'[u] \in Working
      BY <1>2, <1>4, <2>1 DEF TypeOK, Working
    <3> QED
      BY <1>1, <1>2, <1>4, <2>1, <3>1 DEF TypeOK
  <2>3. Holding'
    <3>1. HoldersReserve' /\ HolderBelongs' /\ Alone'
      BY <1>2, <1>4, <2>1 DEF Holding, HoldersReserve, HolderBelongs, Alone
    <3>2. FreeIsBare' /\ OpenBound'
      BY <1>1, <1>2, <2>1 DEF Holding, FreeIsBare, OpenBound
    <3>3. BusyIsOpen'
      <4>1. \A u \in Task : phase'[u] \in Busy => phase[u] \in Busy
        BY <1>4, <2>1 DEF Busy, Working
      <4> QED
        BY <1>1, <1>2, <4>1 DEF Holding, BusyIsOpen
    <3>5. WaitsEnsuring'
      <4>1. \A u \in Task : waits[u] # {} => u # t /\ phase[u] = "ensuring"
        BY <1>1, <1>2 DEF Holding, WaitsEnsuring
      <4>2. waits' = waits
        BY <1>1
      <4>3. \A u \in Task : u # t => phase'[u] = phase[u]
        BY <1>4, <2>1
      <4> QED
        BY <4>1, <4>2, <4>3 DEF WaitsEnsuring
    <3>4. QueueIsQueued'
      <4>1. \A k \in DOMAIN queue : queue[k] \in Task /\ phase[queue[k]] = "queued" /\ queue[k] # t
        BY <1>1, <1>2 DEF TypeOK, Holding, QueueIsQueued
      <4>2. \A k \in DOMAIN queue : phase'[queue[k]] = "queued"
        BY <1>4, <2>1, <4>1
      <4> QED
        BY <1>2, <2>1, <4>2 DEF Holding, QueueIsQueued
    <3> QED
      BY <3>1, <3>2, <3>3, <3>4, <3>5 DEF Holding
  <2>4. Wire'
    BY <1>1, <1>2, <1>4, <2>1, WireKept DEF IInv
  <2>5. NoPlainLeak'
    <3> SUFFICES ASSUME NEW d \in Conn, status'[d] \in Listed, reserved'[d]
                 PROVE  Holders(d)' # {} \/ transaction'[d] # None
      BY DEF NoPlainLeak, InPool
    <3>1. CASE d = c
      BY <1>5, <2>1, <3>1
    <3>2. CASE d # c
      <4>1. Holders(d) # {} \/ transaction[d] # None
        BY <1>1, <2>1 DEF IInv, NoPlainLeak, InPool
      <4> QED
        BY <1>4, <2>1, <3>2, <4>1 DEF Holders
    <3> QED
      BY <3>1, <3>2
  <2>6. Bounded'
    <3>1. InPool' = InPool
      BY <1>1 DEF InPool
    <3> QED
      BY <3>1, PoolShrinks DEF IInv
  <2>7. TimerInPool'
    BY <1>1, <2>1 DEF IInv, TimerInPool, InPool
  <2> QED
    BY <2>2, <2>3, <2>4, <2>5, <2>6, <2>7 DEF IInv
\* A call of an open transaction keeps its connection, so this one has none
\* and is alone.
<1>6. CASE ~(transaction[c] # None /\ txState[transaction[c]] # "ended")
  <2>1. Giveback(c, ph, cn, [transaction EXCEPT ![c] = None])
    BY <1>6 DEF Release
  <2> HIDE DEF ph, cn
  <2>2. transaction[c] = TxnOf[t] /\ reserved[c]
    BY <1>2, <1>3 DEF Holding, HolderBelongs, HoldersReserve
  <2>3. TxnOf[t] = None
    BY <1>1, <1>2, <1>6, <2>2 DEF Holding, BusyIsOpen, Busy, Working
  <2>4. \A u \in Task : conn[u] = c => u = t
    BY <1>2, <1>3, <2>3 DEF Holding, Alone
  <2>5. \A u \in Task : \/ ph[u] = phase[u] /\ cn[u] = conn[u] /\ conn[u] # c
                        \/ phase[u] = "finally" /\ conn[u] = c /\ ph[u] = "idle" /\ cn[u] = None
    BY <1>1, <1>4, <2>4
  <2>6. \A x \in Txn : txState'[x] = "open" => txState[x] = "open" /\ txConn[x] # c
    BY <1>1, <1>2, <1>3, <2>2, <2>3, NoneAssumption DEF Holding, OpenBound
  <2>7. \A u \in Task : ph[u] \in Busy /\ TxnOf[u] # None => txState'[TxnOf[u]] = "open"
    BY <1>1, <1>2, <1>4, <2>3 DEF Holding, BusyIsOpen
  <2>8. txState' \in [Txn -> {"open", "ended", "abandoned"}]
    BY <1>1, <1>2 DEF TypeOK
  <2> HIDE DEF c
  <2> QED
    BY <1>1, <1>3, <1>4, <2>1, <2>2, <2>5, <2>6, <2>7, <2>8, GivebackInv
<1> QED
  BY <1>5, <1>6

\* commit() or rollback() gives the connection back; the calls of the
\* transaction have returned, nobody else holds it.
LEMMA EndInv == ASSUME IInv, NEW x \in Txn, End(x) PROVE IInv'
<1> DEFINE c == txConn[x]
<1>1. /\ txState[x] = "open" /\ c # None
      /\ \A t \in Task : TxnOf[t] = x => phase[t] \in {"idle", "failed"}
      /\ txState' = [txState EXCEPT ![x] = "ended"]
      /\ Giveback(c, phase, conn, [transaction EXCEPT ![c] = None])
      /\ UNCHANGED <<status, lastCommand, inflight, waits, hostKnown>>
  BY DEF End, Ending
<1>2. TypeOK /\ Holding
  BY DEF IInv
<1>3. c \in Conn /\ transaction[c] = x /\ reserved[c]
  BY <1>1, <1>2 DEF TypeOK, Holding, OpenBound
<1>4. \A u \in Task : conn[u] # c
  <2> SUFFICES ASSUME NEW u \in Task, conn[u] = c PROVE FALSE
    OBVIOUS
  <2>1. TxnOf[u] = x
    BY <1>1, <1>2, <1>3 DEF Holding, HolderBelongs
  <2>2. phase[u] \in Working
    BY <1>1, <1>2 DEF TypeOK
  <2> QED
    BY <1>1, <2>1, <2>2 DEF Working
<1>5. \A y \in Txn : txState'[y] = IF y = x THEN "ended" ELSE txState[y]
  BY <1>1, <1>2 DEF TypeOK
<1>6. \A y \in Txn : txState'[y] = "open" => txState[y] = "open" /\ txConn[y] # c
  BY <1>1, <1>2, <1>3, <1>5 DEF Holding, OpenBound
<1>7. \A u \in Task : phase[u] \in Busy /\ TxnOf[u] # None => txState'[TxnOf[u]] = "open"
  <2>1. \A u \in Task : phase[u] \in Busy => TxnOf[u] # x
    BY <1>1 DEF Busy, Working
  <2>2. \A u \in Task : TxnOf[u] # None => TxnOf[u] \in Txn
    BY TxnOfAssumption
  <2> QED
    BY <1>2, <1>5, <2>1, <2>2 DEF Holding, BusyIsOpen
<1>8. txState' \in [Txn -> {"open", "ended", "abandoned"}]
  BY <1>1, <1>2 DEF TypeOK
<1>9. /\ phase \in [Task -> Working \cup {"idle", "ensuring", "queued", "failed"}]
      /\ conn \in [Task -> Conn \cup {None}]
  BY <1>2 DEF TypeOK
<1> HIDE DEF c
<1> QED
  BY <1>1, <1>3, <1>4, <1>6, <1>7, <1>8, <1>9, GivebackInv

-----------------------------------------------------------------------------
(* Commands and answers                                                    *)

\* A handshake, a command or an answer: phases move, some commands are sent.
LEMMA SendInv ==
  ASSUME IInv, NEW c \in Conn, NEW ts \in SUBSET Task, NEW pending \in Seq(Task), NEW ph,
         Send(c, ts, pending, ph),
         MaySend(c, ts, pending, ph),
         UNCHANGED <<reserved, cleanup, transaction, conn, txVars, queue>>,
         status' \in [Conn -> Listed \cup {"gone"}], InPool' = InPool, hostKnown' \in BOOLEAN,
         waits' \in [Task -> SUBSET Conn], \A u \in Task : waits'[u] \subseteq waits[u]
  PROVE  IInv'
<1>1. TypeOK /\ Holding /\ Wire
  BY DEF IInv
<1>2. UNCHANGED <<reserved, cleanup, transaction, conn, txConn, txState, queue>>
  BY DEF txVars
<1>3. \A u \in Task : ph[u] \in Working \cup {"idle", "ensuring", "queued", "failed"}
  BY <1>1 DEF TypeOK, MaySend
<1>0. SentTypes(ts, ph)
  BY <1>1, <1>3, SendTypes
<1>4. /\ inflight' \in [Conn -> Seq(Task)]
      /\ lastCommand' \in [Conn -> Task \cup {None}]
      /\ phase' \in [Task -> Working \cup {"idle", "ensuring", "queued", "failed"}]
      /\ \A u \in Task : phase'[u] = IF u \in ts THEN "sent" ELSE ph[u]
  BY <1>0 DEF SentTypes
<1>5. \A u \in Task : phase'[u] = phase[u] \/ (phase[u] \in Working /\ phase'[u] \in Working)
  BY <1>4 DEF Working, MaySend
<1>6. TypeOK'
  <2>1. \A u \in Task : conn'[u] # None <=> phase'[u] \in Working
    BY <1>1, <1>2, <1>5 DEF TypeOK
  <2> QED
    BY <1>1, <1>2, <1>4, <2>1 DEF TypeOK
<1>7. Holding'
  BY <1>1, <1>5, PhasesMove
<1>8. Wire'
  <2>1. Alone /\ conn' = conn
    BY <1>1, <1>2 DEF Holding
  <2> QED
    BY <1>1, <2>1, SendKeepsWire
<1>9. NoPlainLeak'
  <2>1. \A d \in Conn : d \in InPool' => d \in InPool
    OBVIOUS
  <2> QED
    BY <1>2, <2>1 DEF IInv, NoPlainLeak, Holders
<1>10. Bounded'
  BY PoolShrinks DEF IInv
<1>11. TimerInPool'
  BY <1>2 DEF IInv, TimerInPool
<1> QED
  BY <1>11, <1>6, <1>7, <1>8, <1>9, <1>10 DEF IInv

\* Nothing is sent: phases move, connections leave the lists.
LEMMA QuietInv ==
  ASSUME IInv, UNCHANGED <<reserved, transaction, conn, txVars, queue, hostKnown>>,
         cleanup' \in [Conn -> BOOLEAN], \A c \in Conn : cleanup'[c] => cleanup[c],
         status' \in [Conn -> Listed \cup {"gone"}], InPool' \subseteq InPool,
         phase' \in [Task -> Working \cup {"idle", "ensuring", "queued", "failed"}],
         \A t \in Task : \/ phase'[t] = phase[t]
                         \/ phase[t] \in Working /\ phase'[t] \in Working
                         \/ phase[t] = "ensuring" /\ phase'[t] = "failed" /\ waits'[t] = {},
         waits' \in [Task -> SUBSET Conn], \A t \in Task : waits'[t] \subseteq waits[t],
         lastCommand' \in [Conn -> Task \cup {None}], inflight' \in [Conn -> Seq(Task)],
         Wire', TimerInPool'
  PROVE  IInv'
<1>1. TypeOK /\ Holding
  BY DEF IInv
<1>2. UNCHANGED <<reserved, transaction, conn, txConn, txState, queue, hostKnown>>
  BY DEF txVars
<1>3. TypeOK'
  <2>1. \A u \in Task : conn'[u] # None <=> phase'[u] \in Working
    BY <1>1, <1>2 DEF TypeOK, Working
  <2> QED
    BY <1>1, <1>2, <2>1 DEF TypeOK
<1>4. Holding'
  <2>1. \A t \in Task : phase'[t] \in Busy => phase[t] \in Busy
    BY DEF Busy, Working
  <2>2. HoldersReserve' /\ HolderBelongs' /\ Alone' /\ OpenBound'
    BY <1>1, <1>2 DEF Holding, HoldersReserve, HolderBelongs, Alone, OpenBound
  <2>3. FreeIsBare'
    BY <1>1, <1>2 DEF Holding, FreeIsBare
  <2>4. BusyIsOpen'
    BY <1>1, <1>2, <2>1 DEF Holding, BusyIsOpen
  <2>5. WaitsEnsuring'
    BY <1>1 DEF Holding, WaitsEnsuring, Working
  <2>6. QueueIsQueued'
    <3>1. \A k \in DOMAIN queue : queue[k] \in Task /\ phase[queue[k]] = "queued"
      BY <1>1 DEF TypeOK, Holding, QueueIsQueued
    <3>2. \A k \in DOMAIN queue : phase'[queue[k]] = "queued"
      BY <3>1 DEF Working
    <3> QED
      BY <1>1, <1>2, <3>2 DEF Holding, QueueIsQueued
  <2> QED
    BY <2>2, <2>3, <2>4, <2>5, <2>6 DEF Holding
<1>5. NoPlainLeak'
  BY <1>2 DEF IInv, NoPlainLeak, Holders
<1>6. Bounded'
  BY PoolShrinks DEF IInv
<1> QED
  BY <1>3, <1>4, <1>5, <1>6 DEF IInv

\* execute() sends, or waits, or throws.
LEMMA ExecuteInv == ASSUME IInv, NEW t \in Task, Execute(t) PROVE IInv'
<1> DEFINE c == conn[t]
<1>1. /\ phase[t] = "got"
      /\ UNCHANGED <<status, reserved, cleanup, transaction, conn, waits, txVars, queue, hostKnown>>
      /\ \/ /\ UNCHANGED <<lastCommand, inflight>>
            /\ phase' = [phase EXCEPT ![t] = "finally"] \/ phase' = [phase EXCEPT ![t] = "blocked"]
         \/ /\ status[c] = "refused" \/ (status[c] = "connected" /\ lastCommand[c] = None)
            /\ Send(c, {t}, inflight[c], phase)
  BY DEF Execute
<1>2. TypeOK /\ Holding /\ Wire
  BY DEF IInv
<1>3. c \in Conn /\ c # None
  BY <1>1, <1>2 DEF TypeOK, Working
<1> HIDE DEF c
<1>4. /\ status' \in [Conn -> Listed \cup {"gone"}] /\ InPool' = InPool
      /\ waits' \in [Task -> SUBSET Conn] /\ \A u \in Task : waits'[u] \subseteq waits[u]
      /\ hostKnown' \in BOOLEAN
  BY <1>1, <1>2 DEF TypeOK, InPool
<1>5. ASSUME UNCHANGED <<lastCommand, inflight>>,
             phase' = [phase EXCEPT ![t] = "finally"] \/ phase' = [phase EXCEPT ![t] = "blocked"]
      PROVE  IInv'
  <2>1. /\ \A u \in Task : u # t => phase'[u] = phase[u]
        /\ phase'[t] \in {"finally", "blocked"}
        /\ phase' \in [Task -> Working \cup {"idle", "ensuring", "queued", "failed"}]
    BY <1>2, <1>5 DEF TypeOK, Working
  <2>2. Wire'
    BY <1>1, <1>2, <1>5, <2>1, WireKept
  <2>3. \A u \in Task : phase'[u] = phase[u] \/ (phase[u] \in Working /\ phase'[u] \in Working)
    BY <1>1, <2>1 DEF Working
  <2>4. /\ cleanup' \in [Conn -> BOOLEAN] /\ \A d \in Conn : cleanup'[d] => cleanup[d]
        /\ lastCommand' \in [Conn -> Task \cup {None}] /\ inflight' \in [Conn -> Seq(Task)]
    BY <1>1, <1>2, <1>5 DEF TypeOK
  <2>5. UNCHANGED <<reserved, transaction, conn, txVars, queue, hostKnown>>
    BY <1>1
  <2>6. TimerInPool'
    BY <1>1 DEF IInv, TimerInPool, InPool
  <2> QED
    BY <1>4, <2>1, <2>2, <2>3, <2>4, <2>5, <2>6, QuietInv
\* What t sends is the only command, or another one of its transaction has
\* been sent and not been answered.
<1>6. ASSUME Send(c, {t}, inflight[c], phase) PROVE IInv'
  <2>1. \A u \in {t} : conn[u] = c /\ phase[u] \in {"got", "blocked"}
    BY <1>1 DEF c
  <2>2. inflight[c] \in Seq(Task) /\ {t} \in SUBSET Task
    BY <1>2, <1>3 DEF TypeOK
  <2>3. inflight[c] # <<>> => \E u \in Task : conn[u] = c /\ phase[u] = "sent"
    <3>1. CASE lastCommand[c] # None
      BY <1>2, <1>3, <3>1 DEF TypeOK, Wire, LastIsSent
    <3>2. CASE Stuck(c)
      BY <3>2 DEF Stuck
    <3> QED
      BY <1>2, <1>3, <3>1, <3>2 DEF Wire, FlightOwned
  <2>4. \A k \in DOMAIN inflight[c] : TxnOf[inflight[c][k]] # None
    <3> SUFFICES ASSUME NEW k \in DOMAIN inflight[c], TxnOf[inflight[c][k]] = None PROVE FALSE
      OBVIOUS
    <3>1. inflight[c][k] \in Task /\ None \notin Task
      BY <2>2, NoneAssumption
    <3>2. lastCommand[c] = inflight[c][k]
      BY <1>2, <1>3 DEF Wire, PlainFlight
    <3>3. phase[inflight[c][k]] = "sent" /\ conn[inflight[c][k]] = c
      BY <1>2, <1>3, <3>1, <3>2 DEF Wire, LastIsSent
    <3>4. inflight[c][k] = t
      BY <1>2, <1>3, <2>1, <3>1, <3>3 DEF Holding, Alone
    <3> QED
      BY <1>1, <3>3, <3>4
  <2>5. UNCHANGED <<reserved, cleanup, transaction, conn, txVars, queue>>
    BY <1>1
  <2>6. MaySend(c, {t}, inflight[c], phase)
    BY <2>1, <2>3, <2>4 DEF MaySend
  <2> QED
    BY <1>3, <1>4, <1>6, <2>2, <2>5, <2>6, SendInv
<1> QED
  BY <1>1, <1>5, <1>6

\* The handshake is answered and those who waited for it send.
LEMMA HandshakeDoneInv == ASSUME IInv, NEW c \in Conn, HandshakeDone(c) PROVE IInv'
<1>1. /\ status[c] = "connecting" /\ status' = [status EXCEPT ![c] = "connected"]
      /\ hostKnown' = TRUE /\ waits' = [t \in Task |-> waits[t] \ {c}]
      /\ Send(c, Blocked(c), <<>>, phase)
      /\ UNCHANGED <<reserved, cleanup, transaction, conn, txVars, queue>>
  BY DEF HandshakeDone
<1>2. TypeOK
  BY DEF IInv
<1>3. Blocked(c) \in SUBSET Task /\ \A u \in Blocked(c) : conn[u] = c /\ phase[u] \in {"got", "blocked"}
  BY DEF Blocked
<1>4. status' \in [Conn -> Listed \cup {"gone"}] /\ InPool' = InPool
  BY <1>1, <1>2 DEF TypeOK, InPool, Listed
<1>5. waits' \in [Task -> SUBSET Conn] /\ \A u \in Task : waits'[u] \subseteq waits[u]
  BY <1>1, <1>2 DEF TypeOK
<1>6. <<>> \in Seq(Task) /\ \A k \in DOMAIN << >> : FALSE
  BY EmptySeq
<1>7. hostKnown' \in BOOLEAN
  BY <1>1
<1>8. MaySend(c, Blocked(c), <<>>, phase)
  BY <1>3, <1>6 DEF MaySend
<1> QED
  BY <1>1, <1>3, <1>4, <1>5, <1>6, <1>7, <1>8, SendInv

\* The answer goes to lastCommand.  Of several commands in flight one was
\* sent by a call that is not lastCommand, and stays so.
LEMMA ResponseInv == ASSUME IInv, NEW c \in Conn, Response(c) PROVE IInv'
<1>1. /\ inflight[c] # <<>>
      /\ UNCHANGED <<status, reserved, cleanup, transaction, conn, waits, txVars, queue, hostKnown>>
  BY DEF Response
<1>2. TypeOK /\ Holding /\ Wire
  BY DEF IInv
<1>3. /\ status' \in [Conn -> Listed \cup {"gone"}] /\ InPool' = InPool
      /\ waits' \in [Task -> SUBSET Conn] /\ \A u \in Task : waits'[u] \subseteq waits[u]
      /\ hostKnown' \in BOOLEAN
      /\ cleanup' \in [Conn -> BOOLEAN] /\ \A d \in Conn : cleanup'[d] => cleanup[d]
  BY <1>1, <1>2 DEF TypeOK, InPool
<1>4. UNCHANGED <<reserved, cleanup, transaction, conn, txVars, queue>> /\ hostKnown' = hostKnown
  BY <1>1
<1>5. inflight[c] \in Seq(Task) /\ None \notin Task
  BY <1>2, NoneAssumption DEF TypeOK
<1> DEFINE rest == Tail(inflight[c])
<1>6. /\ rest \in Seq(Task) /\ Len(rest) = Len(inflight[c]) - 1 /\ Len(inflight[c]) \in Nat
      /\ \A k \in DOMAIN rest : \E j \in DOMAIN inflight[c] : rest[k] = inflight[c][j]
  <2>1. /\ rest \in Seq(Task) /\ Len(rest) = Len(inflight[c]) - 1
        /\ \A i \in 1 .. Len(rest) : rest[i] = inflight[c][i + 1]
    BY <1>1, <1>5, HeadTailProperties
  <2>2. Len(inflight[c]) \in Nat /\ DOMAIN inflight[c] = 1 .. Len(inflight[c]) /\ DOMAIN rest = 1 .. Len(rest)
    BY <1>5, <2>1, LenProperties
  <2>3. \A k \in DOMAIN rest : k + 1 \in DOMAIN inflight[c] /\ rest[k] = inflight[c][k + 1]
    BY <2>1, <2>2
  <2> QED
    BY <2>1, <2>2, <2>3
<1>7. ASSUME lastCommand[c] = None PROVE IInv'
  <2>1. inflight' = [inflight EXCEPT ![c] = rest] /\ UNCHANGED <<lastCommand, phase>>
    BY <1>7 DEF Response
  <2> HIDE DEF rest
  <2>2. \A k \in DOMAIN rest : TxnOf[rest[k]] # None
    <3> SUFFICES ASSUME NEW k \in DOMAIN rest, TxnOf[rest[k]] = None PROVE FALSE
      OBVIOUS
    <3>1. PICK j \in DOMAIN inflight[c] : rest[k] = inflight[c][j]
      BY <1>6
    <3>2. lastCommand[c] = inflight[c][j]
      BY <1>2, <3>1 DEF Wire, PlainFlight
    <3> QED
      BY <1>5, <1>7, <3>2
  <2>3. /\ inflight'[c] = rest /\ \A d \in Conn : d # c => inflight'[d] = inflight[d]
        /\ inflight' \in [Conn -> Seq(Task)]
    BY <1>2, <1>6, <2>1 DEF TypeOK
  <2>4. \A d \in Conn : Stuck(d) => Stuck(d)'
    BY <1>4, <2>1 DEF Stuck
  <2>5. LastIsSent'
    BY <1>2, <1>4, <2>1 DEF Wire, LastIsSent
  <2>6. FlightOwned'
    <3>1. Stuck(c)
      BY <1>1, <1>2, <1>7 DEF Wire, FlightOwned
    <3> QED
      BY <1>2, <2>1, <2>3, <2>4, <3>1 DEF Wire, FlightOwned
  <2>7. PlainFlight'
    <3> SUFFICES ASSUME NEW d \in Conn, NEW k \in DOMAIN inflight'[d], TxnOf[inflight'[d][k]] = None
                 PROVE  Len(inflight'[d]) = 1 /\ lastCommand'[d] = inflight'[d][k]
      BY DEF PlainFlight
    <3>1. d # c
      BY <2>2, <2>3
    <3> QED
      BY <1>2, <2>1, <2>3, <3>1 DEF Wire, PlainFlight
  <2>8. Wire' /\ TimerInPool'
    BY <1>1, <2>5, <2>6, <2>7 DEF Wire, IInv, TimerInPool, InPool
  <2>9. /\ phase' \in [Task -> Working \cup {"idle", "ensuring", "queued", "failed"}]
        /\ lastCommand' \in [Conn -> Task \cup {None}] /\ phase' = phase
    BY <1>2, <2>1 DEF TypeOK
  <2>10. UNCHANGED <<reserved, transaction, conn, txVars, queue, hostKnown>> /\ InPool' \subseteq InPool
    BY <1>3, <1>4
  <2> QED
    BY <1>3, <2>3, <2>8, <2>9, <2>10, QuietInv
<1>8. ASSUME lastCommand[c] # None PROVE IInv'
  <2> DEFINE v  == lastCommand[c]
             ph == [phase EXCEPT ![v] = "finally"]
             fails == [t \in Task |-> IF t \in Blocked(c) THEN "finally" ELSE ph[t]]
  <2>1. Send(c, Blocked(c), rest, ph) \/ Send(c, {}, rest, fails)
    BY <1>8 DEF Response
  <2>2. v \in Task /\ phase[v] = "sent" /\ conn[v] = c /\ c # None
    BY <1>2, <1>8, NoneAssumption DEF TypeOK, Wire, LastIsSent
  <2>3. \A u \in Task : ph[u] = IF u = v THEN "finally" ELSE phase[u]
    BY <1>2 DEF TypeOK
  <2>4. \A u \in Task : fails[u] = IF u \in Blocked(c) \cup {v} THEN "finally" ELSE phase[u]
    BY <2>3
  <2>5. Blocked(c) \in SUBSET Task /\ \A u \in Blocked(c) : conn[u] = c /\ phase[u] = "blocked"
    BY DEF Blocked
  <2>6. rest # <<>> => \E u \in Task : conn[u] = c /\ phase[u] = "sent" /\ u # v
    <3> SUFFICES ASSUME rest # <<>> PROVE Stuck(c)
      BY DEF Stuck
    <3>1. Len(inflight[c]) # 1
      BY <1>6, EmptySeq
    <3> QED
      BY <1>1, <1>2, <3>1 DEF Wire, FlightOwned
  <2>7. \A k \in DOMAIN rest : TxnOf[rest[k]] # None
    <3> SUFFICES ASSUME NEW k \in DOMAIN rest, TxnOf[rest[k]] = None PROVE FALSE
      OBVIOUS
    <3>1. Len(inflight[c]) = 1
      BY <1>2, <1>6 DEF Wire, PlainFlight
    <3>2. Len(rest) = 0
      BY <1>6, <3>1
    <3> QED
      BY <1>6, <3>2
  <2> HIDE DEF rest, v, ph, fails
  <2>8. ASSUME Send(c, Blocked(c), rest, ph) PROVE IInv'
    <3>1. MaySend(c, Blocked(c), rest, ph)
      <4>1. rest # <<>> => \E u \in Task : conn[u] = c /\ phase[u] = "sent" /\ ph[u] = "sent"
        BY <2>3, <2>6
      <4> QED
        BY <2>2, <2>3, <2>5, <2>7, <4>1 DEF MaySend, Working, v
    <3> QED
      BY <1>3, <1>4, <1>6, <2>5, <2>8, <3>1, SendInv
  <2>9. ASSUME Send(c, {}, rest, fails) PROVE IInv'
    <3>1. MaySend(c, {}, rest, fails)
      <4>1. rest # <<>> => \E u \in Task : conn[u] = c /\ phase[u] = "sent" /\ fails[u] = "sent"
        BY <2>4, <2>5, <2>6
      <4>2. \A u \in Task : phase[u] = "sent" => fails[u] = "sent" \/ u = lastCommand[c]
        BY <2>4, <2>5 DEF v
      <4>3. \A u \in Task : fails[u] = phase[u] \/ (phase[u] \in Working /\ fails[u] \in Working)
        BY <2>2, <2>4, <2>5 DEF Working
      <4> QED
        BY <2>7, <4>1, <4>2, <4>3 DEF MaySend
    <3> QED
      BY <1>3, <1>4, <1>6, <2>9, <3>1, SendInv
  <2> QED
    BY <2>1, <2>8, <2>9
<1> QED
  BY <1>7, <1>8

-----------------------------------------------------------------------------
(* Connections that fail                                                   *)

\* The handshake fails, and with it the calls that wait for it.
LEMMA ConnectFailsInv == ASSUME IInv, NEW c \in Conn, ConnectFails(c) PROVE IInv'
<1>1. PICK s \in {"refused", "closing"} :
        /\ status' = [status EXCEPT ![c] = s]
        /\ phase' = [t \in Task |-> IF c \in waits[t] THEN "failed"
                                    ELSE IF s = "refused" /\ t \in Blocked(c) THEN "finally"
                                    ELSE phase[t]]
  BY DEF ConnectFails
<1>2. /\ status[c] = "connecting"
      /\ waits' = [t \in Task |-> IF c \in waits[t] THEN {} ELSE waits[t]]
      /\ UNCHANGED <<reserved, cleanup, transaction, lastCommand, inflight, conn, txVars, queue, hostKnown>>
  BY DEF ConnectFails
<1>3. TypeOK /\ Holding /\ Wire
  BY DEF IInv
<1>4. \A t \in Task : c \in waits[t] => phase[t] = "ensuring"
  BY <1>3 DEF Holding, WaitsEnsuring
<1>5. \A t \in Task : \/ phase'[t] = phase[t]
                      \/ phase[t] = "blocked" /\ phase'[t] = "finally"
                      \/ phase[t] = "ensuring" /\ phase'[t] = "failed" /\ waits'[t] = {}
  BY <1>1, <1>2, <1>4 DEF Blocked
<1>6. phase' \in [Task -> Working \cup {"idle", "ensuring", "queued", "failed"}]
  BY <1>1, <1>3 DEF TypeOK, Working
<1>7. /\ waits' \in [Task -> SUBSET Conn] /\ \A t \in Task : waits'[t] \subseteq waits[t]
      /\ status' \in [Conn -> Listed \cup {"gone"}] /\ InPool' = InPool
  BY <1>1, <1>2, <1>3 DEF TypeOK, InPool, Listed
<1>8. Wire'
  <2>1. \A t \in Task : phase[t] = "sent" => phase'[t] = "sent" /\ conn'[t] = conn[t]
    BY <1>2, <1>5
  <2> QED
    BY <1>2, <1>3, <2>1, WireKept
<1>9. \A t \in Task : \/ phase'[t] = phase[t]
                      \/ phase[t] \in Working /\ phase'[t] \in Working
                      \/ phase[t] = "ensuring" /\ phase'[t] = "failed" /\ waits'[t] = {}
  BY <1>5 DEF Working
<1>10. /\ cleanup' \in [Conn -> BOOLEAN] /\ \A d \in Conn : cleanup'[d] => cleanup[d]
       /\ lastCommand' \in [Conn -> Task \cup {None}] /\ inflight' \in [Conn -> Seq(Task)]
       /\ UNCHANGED <<reserved, transaction, conn, txVars, queue, hostKnown>>
  BY <1>2, <1>3 DEF TypeOK
<1>11. TimerInPool' /\ InPool' \subseteq InPool
  BY <1>2, <1>7 DEF IInv, TimerInPool
<1> QED
  BY <1>6, <1>7, <1>8, <1>9, <1>10, <1>11, QuietInv

\* A connection leaves the lists; its calls wait on.
LEMMA SocketCloseInv == ASSUME IInv, NEW c \in Conn, SocketClose(c) PROVE IInv'
<1>1. /\ status' = [status EXCEPT ![c] = "gone"]
      /\ inflight' = [inflight EXCEPT ![c] = <<>>]
      /\ lastCommand' = [lastCommand EXCEPT ![c] = None]
      /\ cleanup' = [cleanup EXCEPT ![c] = FALSE]
      /\ UNCHANGED <<reserved, transaction, phase, conn, waits, txVars, queue, hostKnown>>
  BY DEF SocketClose, taskVars
<1>2. TypeOK /\ Wire
  BY DEF IInv
<1>3. /\ inflight'[c] = <<>> /\ lastCommand'[c] = None
      /\ \A d \in Conn : d # c => inflight'[d] = inflight[d] /\ lastCommand'[d] = lastCommand[d]
  BY <1>1, <1>2 DEF TypeOK
<1>4. Wire'
  <2>1. LastIsSent'
    BY <1>1, <1>2, <1>3 DEF Wire, LastIsSent
  <2>2. \A d \in Conn : d # c /\ Stuck(d) => Stuck(d)'
    BY <1>1, <1>3 DEF Stuck
  <2>3. FlightOwned'
    BY <1>2, <1>3, <2>2 DEF Wire, FlightOwned
  <2>4. PlainFlight'
    <3>1. DOMAIN inflight'[c] = {}
      BY <1>3
    <3> QED
      BY <1>2, <1>3, <3>1 DEF Wire, PlainFlight
  <2> QED
    BY <2>1, <2>3, <2>4 DEF Wire
<1>5. /\ cleanup' \in [Conn -> BOOLEAN]
      /\ \A d \in Conn : cleanup'[d] => cleanup[d] /\ d # c
  BY <1>1, <1>2 DEF TypeOK
<1>6. /\ status' \in [Conn -> Listed \cup {"gone"}] /\ InPool' \subseteq InPool
      /\ \A d \in InPool : d # c => d \in InPool'
  BY <1>1, <1>2 DEF TypeOK, InPool, Listed
<1>7. lastCommand' \in [Conn -> Task \cup {None}] /\ inflight' \in [Conn -> Seq(Task)]
  BY <1>1, <1>2, EmptySeq DEF TypeOK
<1>8. /\ phase' \in [Task -> Working \cup {"idle", "ensuring", "queued", "failed"}] /\ phase' = phase
      /\ waits' \in [Task -> SUBSET Conn] /\ waits' = waits
      /\ UNCHANGED <<reserved, transaction, conn, txVars, queue, hostKnown>>
  BY <1>1, <1>2 DEF TypeOK
<1>9. TimerInPool'
  BY <1>5, <1>6 DEF IInv, TimerInPool
<1> QED
  BY <1>4, <1>5, <1>6, <1>7, <1>8, <1>9, QuietInv

\* The idle timer closes a connection of the lists, or does nothing.
LEMMA CleanupFiresInv == ASSUME IInv, NEW c \in Conn, CleanupFires(c) PROVE IInv'
<1>1. /\ cleanup[c] /\ cleanup' = [cleanup EXCEPT ![c] = FALSE]
      /\ status' = [status EXCEPT ![c] = "closing"] \/ status' = status
      /\ UNCHANGED <<reserved, transaction, lastCommand, inflight, phase, conn, waits, txVars, queue, hostKnown>>
  BY DEF CleanupFires, taskVars
<1>2. TypeOK /\ Wire /\ c \in InPool
  BY <1>1 DEF IInv, TimerInPool
<1>3. Wire'
  BY <1>1, <1>2, WireKept
<1>4. cleanup' \in [Conn -> BOOLEAN] /\ \A d \in Conn : cleanup'[d] => cleanup[d]
  BY <1>1, <1>2 DEF TypeOK
<1>5. status' \in [Conn -> Listed \cup {"gone"}] /\ InPool' = InPool
  BY <1>1, <1>2 DEF TypeOK, InPool, Listed
<1>6. lastCommand' \in [Conn -> Task \cup {None}] /\ inflight' \in [Conn -> Seq(Task)]
  BY <1>1, <1>2 DEF TypeOK
<1>7. /\ phase' \in [Task -> Working \cup {"idle", "ensuring", "queued", "failed"}] /\ phase' = phase
      /\ waits' \in [Task -> SUBSET Conn] /\ waits' = waits
      /\ UNCHANGED <<reserved, transaction, conn, txVars, queue, hostKnown>>
  BY <1>1, <1>2 DEF TypeOK
<1>8. TimerInPool' /\ InPool' \subseteq InPool
  BY <1>4, <1>5 DEF IInv, TimerInPool
<1> QED
  BY <1>3, <1>4, <1>5, <1>6, <1>7, <1>8, QuietInv

-----------------------------------------------------------------------------
(* Transactions                                                            *)

\* A transaction whose calls have returned fails to end, or starts again.
LEMMA TxInv ==
  ASSUME IInv, NEW x \in Txn,
         \A t \in Task : TxnOf[t] = x => phase[t] \in {"idle", "failed"},
         txState' \in [Txn -> {"open", "ended", "abandoned"}],
         txConn' \in [Txn -> Conn \cup {None}],
         \A y \in Txn : y # x => txState'[y] = txState[y] /\ txConn'[y] = txConn[y],
         txState'[x] = "open" => txConn'[x] = None,
         UNCHANGED <<connVars, taskVars, queue, hostKnown>>
  PROVE  IInv'
<1>1. UNCHANGED <<status, reserved, cleanup, transaction, lastCommand, inflight,
                  phase, conn, waits, queue, hostKnown>>
  BY DEF connVars, taskVars
<1>2. TypeOK /\ Holding /\ Wire
  BY DEF IInv
<1>3. TypeOK'
  BY <1>1, <1>2 DEF TypeOK
<1>4. Holding'
  <2>1. HoldersReserve' /\ FreeIsBare' /\ HolderBelongs' /\ Alone' /\ WaitsEnsuring' /\ QueueIsQueued'
    BY <1>1, <1>2 DEF Holding, HoldersReserve, FreeIsBare, HolderBelongs, Alone, WaitsEnsuring, QueueIsQueued
  <2>2. OpenBound'
    BY <1>1, <1>2 DEF Holding, OpenBound
  <2>3. BusyIsOpen'
    <3>1. \A t \in Task : phase[t] \in Busy => TxnOf[t] # x
      BY DEF Busy, Working
    <3>2. \A t \in Task : TxnOf[t] # None => TxnOf[t] \in Txn
      BY TxnOfAssumption
    <3> QED
      BY <1>1, <1>2, <3>1, <3>2 DEF Holding, BusyIsOpen
  <2> QED
    BY <2>1, <2>2, <2>3 DEF Holding
<1>5. Wire'
  BY <1>1, <1>2, WireKept
<1>6. NoPlainLeak' /\ TimerInPool' /\ InPool' = InPool
  BY <1>1 DEF IInv, NoPlainLeak, TimerInPool, InPool, Holders
<1>7. Bounded'
  BY <1>6, PoolShrinks DEF IInv
<1> QED
  BY <1>3, <1>4, <1>5, <1>6, <1>7 DEF IInv

\* commit() and rollback() fail.
LEMMA EndFailsInv == ASSUME IInv, NEW x \in Txn, EndFails(x) PROVE IInv'
<1>1. /\ \A t \in Task : TxnOf[t] = x => phase[t] \in {"idle", "failed"}
      /\ txState' = [txState EXCEPT ![x] = "abandoned"] /\ txConn' = txConn
      /\ UNCHANGED <<connVars, taskVars, queue, hostKnown>>
  BY DEF EndFails, Ending
<1>2. TypeOK
  BY DEF IInv
<1>3. /\ txState' \in [Txn -> {"open", "ended", "abandoned"}] /\ txConn' \in [Txn -> Conn \cup {None}]
      /\ \A y \in Txn : y # x => txState'[y] = txState[y] /\ txConn'[y] = txConn[y]
      /\ txState'[x] # "open"
  BY <1>1, <1>2 DEF TypeOK
<1> QED
  BY <1>1, <1>3, TxInv

\* The session starts over.
LEMMA NewTransactionInv == ASSUME IInv, NEW x \in Txn, NewTransaction(x) PROVE IInv'
<1>1. /\ \A t \in Task : TxnOf[t] = x => phase[t] \in {"idle", "failed"}
      /\ txState' = [txState EXCEPT ![x] = "open"] /\ txConn' = [txConn EXCEPT ![x] = None]
      /\ UNCHANGED <<connVars, taskVars, queue, hostKnown>>
  BY DEF NewTransaction
<1>2. TypeOK
  BY DEF IInv
<1>3. /\ txState' \in [Txn -> {"open", "ended", "abandoned"}] /\ txConn' \in [Txn -> Conn \cup {None}]
      /\ \A y \in Txn : y # x => txState'[y] = txState[y] /\ txConn'[y] = txConn[y]
      /\ txConn'[x] = None
  BY <1>1, <1>2 DEF TypeOK
<1> QED
  BY <1>1, <1>3, TxInv

-----------------------------------------------------------------------------
(* The invariant and what follows from it                                  *)

\* Every step keeps the pool in order.
LEMMA StepIInv == IInv /\ [Next]_vars => IInv'
<1> SUFFICES ASSUME IInv, [Next]_vars PROVE IInv'
  OBVIOUS
<1>1. ASSUME NEW t \in Task, Ensure(t) \/ Share(t) \/ Continue(t) PROVE IInv'
  BY <1>1, EnsureInv, ShareInv, GetConnectionInv, ExecuteInv, ReleaseInv DEF Continue
<1>2. ASSUME NEW c \in Conn, CleanupFires(c) \/ Serve(c) \/ Fail(c) PROVE IInv'
  BY <1>2, CleanupFiresInv, ResponseInv, HandshakeDoneInv, ConnectFailsInv, SocketCloseInv DEF Serve, Fail
<1>3. ASSUME NEW x \in Txn, End(x) \/ EndFails(x) \/ NewTransaction(x) PROVE IInv'
  BY <1>3, EndInv, EndFailsInv, NewTransactionInv
<1>4. CASE UNCHANGED vars
  <2>1. UNCHANGED <<status, reserved, cleanup, transaction, lastCommand, inflight, phase, conn, waits,
                    txConn, txState, queue, hostKnown>>
    BY <1>4 DEF vars, connVars, taskVars, txVars
  <2> QED
    BY <2>1 DEF IInv, TypeOK, Holding, HoldersReserve, FreeIsBare, HolderBelongs, Alone, OpenBound, BusyIsOpen,
         WaitsEnsuring, QueueIsQueued, Wire, LastIsSent, FlightOwned, Stuck, PlainFlight, NoPlainLeak,
         TimerInPool, InPool, Holders, Bounded, PoolBound
<1> QED
  BY <1>1, <1>2, <1>3, <1>4 DEF Next

\* The inductive invariant holds in every reachable state.
THEOREM Invariance == Spec => []IInv
  BY InitIInv, StepIInv, PTL DEF Spec

\* The state of the pool, of its connections and of those who use them is
\* what TypeOK says, in particular a call holds a connection exactly while it
\* works.
THEOREM PoolTypes == Spec => []TypeOK
<1>1. IInv => TypeOK
  BY DEF IInv
<1> QED
  BY Invariance, <1>1, PTL

\* Two calls that use one connection belong to one transaction, for any
\* interleaving of getConnection(), release(), timers, failures and the ends
\* of transactions.
THEOREM Owned == Spec => []OneOwner
<1>1. IInv => OneOwner
  <2> SUFFICES ASSUME IInv, NEW t \in Task, NEW u \in Task, t # u, conn[t] # None, conn[t] = conn[u]
               PROVE  TxnOf[t] # None /\ TxnOf[t] = TxnOf[u]
    BY DEF OneOwner
  <2> QED
    BY DEF IInv, Holding, HolderBelongs, Alone
<1> QED
  BY Invariance, <1>1, PTL

\* A connection whose idle timer runs is used by no call and bound to no open
\* transaction, so that the timer never closes one in use.
THEOREM TimerSafe == Spec => []IdleTimerMeansIdle
<1>1. IInv => IdleTimerMeansIdle
  <2> SUFFICES ASSUME IInv, NEW c \in Conn, cleanup[c]
               PROVE  /\ ~reserved[c] /\ \A t \in Task : conn[t] # c
                      /\ \A x \in Txn : txState[x] = "open" => txConn[x] # c
    BY DEF IdleTimerMeansIdle, Holders
  <2>1. ~reserved[c] /\ c # None
    BY NoneAssumption DEF IInv, Holding, FreeIsBare
  <2> QED
    BY <2>1 DEF IInv, Holding, HoldersReserve, OpenBound
<1> QED
  BY Invariance, <1>1, PTL

\* A reserved connection of the pool has a holder or a transaction.
THEOREM NotLeaked == Spec => []NoPlainLeak
<1>1. IInv => NoPlainLeak
  BY DEF IInv
<1> QED
  BY Invariance, <1>1, PTL

\* The next answer of a server reaches the call that asked, when that call
\* has no transaction.
THEOREM Answered == Spec => []AnswerReachesAsker
<1>1. IInv => AnswerReachesAsker
  <2> SUFFICES ASSUME IInv, NEW c \in Conn, inflight[c] # <<>>, TxnOf[Head(inflight[c])] = None
               PROVE  /\ Len(inflight[c]) = 1
                      /\ lastCommand[c] = Head(inflight[c])
                      /\ phase[lastCommand[c]] = "sent" /\ conn[lastCommand[c]] = c
    BY DEF AnswerReachesAsker
  <2>1. inflight[c] \in Seq(Task)
    BY DEF IInv, TypeOK
  <2>2. Head(inflight[c]) = inflight[c][1] /\ 1 \in DOMAIN inflight[c] /\ inflight[c][1] \in Task
    BY <2>1, EmptySeq, LenProperties
  <2>3. Len(inflight[c]) = 1 /\ lastCommand[c] = inflight[c][1]
    BY <2>2 DEF IInv, Wire, PlainFlight
  <2> QED
    BY <2>2, <2>3, NoneAssumption DEF IInv, Wire, LastIsSent
<1> QED
  BY Invariance, <1>1, PTL

\* The lists never hold more than maxPoolSize + 1 connections, those that are
\* being closed included, however many calls come at once.
THEOREM PoolLimit == Spec => []PoolBound
<1>1. IInv => PoolBound
  BY DEF IInv, Bounded
<1> QED
  BY Invariance, <1>1, PTL

=============================================================================
