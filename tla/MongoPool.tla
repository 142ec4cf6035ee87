------------------------------ MODULE MongoPool ------------------------------
(***************************************************************************)
(* packages/mongo/src/client: MongoConnectionPool, MongoConnection,        *)
(* MongoDatabaseTransaction and MongoClient.getConnection()/execute(), for *)
(* one host.                                                               *)
(*                                                                         *)
(* A Task is one call that needs a connection: MongoClient.execute(), a    *)
(* query of the resolver or a persistence.  Tasks of one session share its *)
(* transaction.  Each action is the code between two awaits; continuations *)
(* that follow in the same turn (getConnection -> execute, execute ->      *)
(* finally release) are steps of their own, which only adds interleavings. *)
(* Nothing rejects a command whose socket dies: its task stays where it is.*)
(* A connection object nobody refers to any more is used again.            *)
(***************************************************************************)
EXTENDS Naturals, FiniteSets, SequencesExt

CONSTANTS Conn, Task, Txn, None,
          TxnOf,                    \* the transaction a task belongs to, or None
          MaxPoolSize, MinPoolSize

ASSUME TxnOfAssumption == TxnOf \in [Task -> Txn \cup {None}]
ASSUME NoneAssumption == None \notin Conn \cup Task \cup Txn
ASSUME TaskAssumption == IsFiniteSet(Task)
ASSUME SizeAssumption == MaxPoolSize \in Nat /\ MinPoolSize \in Nat

VARIABLES status,       \* a connection's life, see TypeOK
          reserved, cleanup,    \* its fields reserved and cleanupTimeout (armed?)
          transaction,  \* its field transaction
          lastCommand,  \* its field lastCommand: whose command is it?
          inflight,     \* the commands its server has not answered
          queue,        \* the waiters of the pool
          phase, conn,  \* of a task: where it is, the connection it holds
          waits,        \* the connectingPromises a task waits for
          txConn, txState,      \* of a transaction: connection, and is it over?
          hostKnown     \* did a handshake tell the type of the host?

connVars == <<status, reserved, cleanup, transaction, lastCommand, inflight>>
taskVars == <<phase, conn, waits>>
txVars   == <<txConn, txState>>
vars == <<connVars, taskVars, txVars, queue, hostKnown>>

\* refused: the handshake was rejected, connectingPromise stays in the list;
\* closing: disconnected, its close event has yet to come.
Listed == {"connecting", "refused", "connected", "closing"}
Working == {"got", "blocked", "sent", "finally"}

TypeOK == /\ status \in [Conn -> Listed \cup {"gone"}]
          /\ reserved \in [Conn -> BOOLEAN] /\ cleanup \in [Conn -> BOOLEAN]
          /\ transaction \in [Conn -> Txn \cup {None}]
          /\ lastCommand \in [Conn -> Task \cup {None}]
          /\ inflight \in [Conn -> Seq(Task)] /\ queue \in Seq(Task)
          /\ phase \in [Task -> Working \cup {"idle", "ensuring", "queued", "failed"}]
          /\ conn \in [Task -> Conn \cup {None}]
          /\ waits \in [Task -> SUBSET Conn]
          /\ txConn \in [Txn -> Conn \cup {None}]
          /\ txState \in [Txn -> {"open", "ended", "abandoned"}]
          /\ hostKnown \in BOOLEAN
          /\ \A t \in Task : conn[t] # None <=> phase[t] \in Working

Init == /\ status = [c \in Conn |-> "gone"]
        /\ reserved = [c \in Conn |-> FALSE] /\ cleanup = [c \in Conn |-> FALSE]
        /\ transaction = [c \in Conn |-> None]
        /\ lastCommand = [c \in Conn |-> None]
        /\ inflight = [c \in Conn |-> <<>>] /\ queue = <<>>
        /\ phase = [t \in Task |-> "idle"]
        /\ conn = [t \in Task |-> None]
        /\ waits = [t \in Task |-> {}]
        /\ txConn = [x \in Txn |-> None]
        /\ txState = [x \in Txn |-> "open"]
        /\ hostKnown = FALSE

-----------------------------------------------------------------------------
(* MongoConnectionPool                                                     *)

InPool == {c \in Conn : status[c] \in Listed}      \* pool.connections
Holders(c) == {t \in Task : conn[t] = c}
Free(c) == status[c] = "connected" /\ ~reserved[c]

\* `new MongoConnection`: an object nobody refers to.
Fresh(c) == /\ status[c] = "gone" /\ Holders(c) = {}
            /\ transaction[c] = None
            /\ \A t \in Task : c \notin waits[t]
            /\ \A x \in Txn : txConn[x] # c

\* ensureHostsConnected(): the host gets a connection if it has none, then
\* wait for every connection that is connecting; Promise.all rejects at once
\* when one of them has failed.
Ensure(t) ==
    /\ phase[t] = "idle"
    /\ TxnOf[t] # None => txState[TxnOf[t]] = "open" /\ txConn[TxnOf[t]] = None
    /\ IF InPool = {}
       THEN \E c \in Conn : /\ Fresh(c)
                            /\ status' = [status EXCEPT ![c] = "connecting"]
                            /\ reserved' = [reserved EXCEPT ![c] = FALSE]
                            /\ waits' = [waits EXCEPT ![t] = {c}]
                            /\ phase' = [phase EXCEPT ![t] = "ensuring"]
       ELSE IF \E c \in Conn : status[c] = "refused"
       THEN phase' = [phase EXCEPT ![t] = "failed"] /\ UNCHANGED <<status, reserved, waits>>
       ELSE /\ waits' = [waits EXCEPT ![t] = {c \in Conn : status[c] = "connecting"}]
            /\ phase' = [phase EXCEPT ![t] = "ensuring"]
            /\ UNCHANGED <<status, reserved>>
    /\ UNCHANGED <<cleanup, transaction, lastCommand, inflight, conn, txVars, queue, hostKnown>>

\* MongoClient.getConnection() of a transaction that has its connection.
Share(t) ==
    /\ phase[t] = "idle" /\ TxnOf[t] # None
    /\ txState[TxnOf[t]] = "open" /\ txConn[TxnOf[t]] # None
    /\ phase' = [phase EXCEPT ![t] = "got"]
    /\ conn' = [conn EXCEPT ![t] = txConn[TxnOf[t]]]
    /\ UNCHANGED <<connVars, waits, txVars, queue, hostKnown>>

\* t gets c, and so does its transaction: two tasks of one transaction that
\* both asked the pool overwrite each other's transaction.connection.
Bind(t, c) ==
    /\ phase' = [phase EXCEPT ![t] = "got"]
    /\ conn' = [conn EXCEPT ![t] = c]
    /\ IF TxnOf[t] = None THEN UNCHANGED <<transaction, txConn>>
       ELSE /\ transaction' = [transaction EXCEPT ![c] = TxnOf[t]]
            /\ txConn' = [txConn EXCEPT ![TxnOf[t]] = c]

\* Mutants: the timer stays armed; the connection is not marked.
Reserve_TimerRuns(c) == reserved' = [reserved EXCEPT ![c] = TRUE] /\ UNCHANGED cleanup
Reserve_Unmarked(c) == cleanup' = [cleanup EXCEPT ![c] = FALSE] /\ UNCHANGED reserved

Reserve(c) == /\ reserved' = [reserved EXCEPT ![c] = TRUE]
              /\ cleanup' = [cleanup EXCEPT ![c] = FALSE]

MayGrow == Cardinality(InPool) <= MaxPoolSize

\* getConnection() once every promise has resolved: take a free connection,
\* or make one more, or wait in line.
Take(t, c) == Free(c) /\ Reserve(c) /\ Bind(t, c) /\ UNCHANGED <<status, queue>>

Create(t, c) ==
    /\ MayGrow /\ hostKnown /\ Fresh(c)
    /\ status' = [status EXCEPT ![c] = "connecting"]
    /\ Reserve(c) /\ Bind(t, c)
    /\ UNCHANGED queue

\* findHostForRequest() finds no host of a known type.
NoHost(t) == /\ MayGrow /\ ~hostKnown
             /\ phase' = [phase EXCEPT ![t] = "failed"]
             /\ UNCHANGED <<status, reserved, cleanup, transaction, conn, txConn, queue>>

Enqueue(t) == /\ ~MayGrow
              /\ queue' = Append(queue, t)
              /\ phase' = [phase EXCEPT ![t] = "queued"]
              /\ UNCHANGED <<status, reserved, cleanup, transaction, conn, txConn>>

GetConnection(t) ==
    /\ phase[t] = "ensuring" /\ waits[t] = {}
    /\ \/ \E c \in Conn : Take(t, c)
       \/ /\ ~ \E c \in Conn : Free(c)
          /\ (\E c \in Conn : Create(t, c)) \/ NoHost(t) \/ Enqueue(t)
    /\ UNCHANGED <<lastCommand, inflight, waits, txState, hostKnown>>

\* Mutants: the connection is forgotten; the waiters are.
Giveback_Forgotten(c, ph, cn, tr) ==
    /\ phase' = ph /\ conn' = cn /\ transaction' = tr
    /\ UNCHANGED <<queue, txConn, reserved, cleanup>>

Giveback_NoQueue(c, ph, cn, tr) ==
    /\ reserved' = [reserved EXCEPT ![c] = FALSE]
    /\ cleanup' = [cleanup EXCEPT ![c] = status[c] # "gone"]
    /\ phase' = ph /\ conn' = cn /\ transaction' = tr
    /\ UNCHANGED <<queue, txConn>>

\* pool.release(c), with the caller's own changes to phase, conn and
\* transaction: the next waiter gets c, connected or not, and c stays
\* reserved; or c is idle and its timer starts.
Giveback(c, ph, cn, tr) ==
    \/ /\ queue = <<>>
       /\ reserved' = [reserved EXCEPT ![c] = FALSE]
       /\ cleanup' = [cleanup EXCEPT ![c] = status[c] # "gone"]
       /\ phase' = ph /\ conn' = cn /\ transaction' = tr
       /\ UNCHANGED <<queue, txConn>>
    \/ /\ queue # <<>>
       /\ LET w == Head(queue) IN
          /\ phase' = [ph EXCEPT ![w] = "got"] /\ conn' = [cn EXCEPT ![w] = c]
          /\ transaction' = [tr EXCEPT ![c] = TxnOf[w]]
          /\ txConn' = [x \in Txn |-> IF x = TxnOf[w] THEN c ELSE txConn[x]]
       /\ queue' = Tail(queue)
       /\ UNCHANGED <<reserved, cleanup>>

\* The idle timer: close() unless the pool is small.
CleanupFires(c) ==
    /\ cleanup[c]
    /\ cleanup' = [cleanup EXCEPT ![c] = FALSE]
    /\ status' = IF Cardinality(InPool) > MinPoolSize
                 THEN [status EXCEPT ![c] = "closing"] ELSE status
    /\ UNCHANGED <<reserved, transaction, lastCommand, inflight, taskVars, txVars, queue, hostKnown>>

-----------------------------------------------------------------------------
(* MongoConnection                                                         *)

Blocked(c) == {t \in Task : conn[t] = c /\ phase[t] = "blocked"}

\* Mutant: `return connection.execute()` without await, so finally runs at once.
Sent_NotAwaited == "finally"

Sent == "sent"

\* Everyone in ts continues behind `await this.lastCommand.promise`, nobody
\* looks again: each makes itself lastCommand and writes to the socket.
Send(c, ts, pending, ph) ==
    \E order \in SetToSeqs(ts) :
        /\ inflight' = [inflight EXCEPT ![c] = pending \o order]
        /\ lastCommand' = [lastCommand EXCEPT ![c] = IF ts = {} THEN None ELSE Last(order)]
        /\ phase' = [t \in Task |-> IF t \in ts THEN Sent ELSE ph[t]]

\* execute(): a closed connection throws, a pending command is awaited (once).
Execute(t) ==
    LET c == conn[t] IN
    /\ phase[t] = "got"
    /\ \/ /\ status[c] \in {"closing", "gone"}
          /\ phase' = [phase EXCEPT ![t] = "finally"]
          /\ UNCHANGED <<lastCommand, inflight>>
       \/ /\ status[c] = "connecting" \/ (status[c] = "connected" /\ lastCommand[c] # None)
          /\ phase' = [phase EXCEPT ![t] = "blocked"]
          /\ UNCHANGED <<lastCommand, inflight>>
       \/ /\ status[c] = "refused" \/ (status[c] = "connected" /\ lastCommand[c] = None)
          /\ Send(c, {t}, inflight[c], phase)
    /\ UNCHANGED <<status, reserved, cleanup, transaction, conn, waits, txVars, queue, hostKnown>>

\* onResponse(): the answer goes to lastCommand, whoever asked.  A server
\* error rejects those who wait for that promise too.
Response(c) ==
    /\ status[c] = "connected" /\ inflight[c] # <<>>
    /\ IF lastCommand[c] = None         \* throws `without active command`
       THEN /\ inflight' = [inflight EXCEPT ![c] = Tail(@)]
            /\ UNCHANGED <<lastCommand, phase>>
       ELSE LET ph == [phase EXCEPT ![lastCommand[c]] = "finally"] IN
            \/ Send(c, Blocked(c), Tail(inflight[c]), ph)
            \/ Send(c, {}, Tail(inflight[c]),
                    [t \in Task |-> IF t \in Blocked(c) THEN "finally" ELSE ph[t]])
    /\ UNCHANGED <<status, reserved, cleanup, transaction, conn, waits, txVars, queue, hostKnown>>

HandshakeDone(c) ==
    /\ status[c] = "connecting"
    /\ status' = [status EXCEPT ![c] = "connected"]
    /\ hostKnown' = TRUE
    /\ waits' = [t \in Task |-> waits[t] \ {c}]
    /\ Send(c, Blocked(c), <<>>, phase)
    /\ UNCHANGED <<reserved, cleanup, transaction, conn, txVars, queue>>

\* Those who wait for connectingPromise throw.  A rejected handshake also
\* throws in execute() of who holds c; a socket error leaves them waiting.
ConnectFails(c) ==
    /\ status[c] = "connecting"
    /\ \E s \in {"refused", "closing"} :
        /\ status' = [status EXCEPT ![c] = s]
        /\ phase' = [t \in Task |-> IF c \in waits[t] THEN "failed"
                                    ELSE IF s = "refused" /\ t \in Blocked(c) THEN "finally"
                                    ELSE phase[t]]
    /\ waits' = [t \in Task |-> IF c \in waits[t] THEN {} ELSE waits[t]]
    /\ UNCHANGED <<reserved, cleanup, transaction, lastCommand, inflight, conn, txVars, queue, hostKnown>>

\* The close event (Node emits error and close together): onClose() takes the
\* connection out of the lists; its idle timer has nothing left to do.  No
\* promise is settled.
SocketClose(c) ==
    /\ status[c] \in Listed
    /\ status' = [status EXCEPT ![c] = "gone"]
    /\ inflight' = [inflight EXCEPT ![c] = <<>>]
    /\ lastCommand' = [lastCommand EXCEPT ![c] = None]
    /\ cleanup' = [cleanup EXCEPT ![c] = FALSE]
    /\ UNCHANGED <<reserved, transaction, taskVars, txVars, queue, hostKnown>>

\* finally { connection.release() }: nothing while its transaction is open.
Release(t) ==
    LET c  == conn[t]
        ph == [phase EXCEPT ![t] = "idle"]
        cn == [conn EXCEPT ![t] = None]
    IN  /\ phase[t] = "finally"
        /\ IF transaction[c] # None /\ txState[transaction[c]] # "ended"
           THEN phase' = ph /\ conn' = cn
                /\ UNCHANGED <<queue, transaction, txConn, reserved, cleanup>>
           ELSE Giveback(c, ph, cn, [transaction EXCEPT ![c] = None])
        /\ UNCHANGED <<status, lastCommand, inflight, waits, txState, hostKnown>>

-----------------------------------------------------------------------------
(* MongoDatabaseTransaction                                                *)

\* The session ends its transaction after its tasks have.
Ending(x) == /\ txState[x] = "open" /\ txConn[x] # None
             /\ \A t \in Task : TxnOf[t] = x => phase[t] \in {"idle", "failed"}

\* commit() or rollback() is answered: ended, and the connection released.
End(x) ==
    /\ Ending(x) /\ status[txConn[x]] = "connected"
    /\ txState' = [txState EXCEPT ![x] = "ended"]
    /\ Giveback(txConn[x], phase, conn, [transaction EXCEPT ![txConn[x]] = None])
    /\ UNCHANGED <<status, lastCommand, inflight, waits, hostKnown>>

\* Both fail, or rollback() returns because nothing was started: nobody
\* releases the connection.
EndFails(x) ==
    /\ Ending(x)
    /\ txState' = [txState EXCEPT ![x] = "abandoned"]
    /\ UNCHANGED <<connVars, taskVars, txConn, queue, hostKnown>>

NewTransaction(x) ==
    /\ txState[x] = "ended" /\ \A c \in Conn : transaction[c] # x
    /\ \A t \in Task : TxnOf[t] = x => phase[t] \in {"idle", "failed"}
    /\ txState' = [txState EXCEPT ![x] = "open"]
    /\ txConn' = [txConn EXCEPT ![x] = None]
    /\ UNCHANGED <<connVars, taskVars, queue, hostKnown>>

-----------------------------------------------------------------------------
Continue(t) == GetConnection(t) \/ Execute(t) \/ Release(t)
Serve(c) == Response(c) \/ HandshakeDone(c)
Fail(c) == ConnectFails(c) \/ SocketClose(c)

Next == \/ \E t \in Task : Ensure(t) \/ Share(t) \/ Continue(t)
        \/ \E c \in Conn : CleanupFires(c) \/ Serve(c) \/ Fail(c)
        \/ \E x \in Txn : End(x) \/ EndFails(x) \/ NewTransaction(x)

Spec == Init /\ [][Next]_vars

\* Continuations run, a server answers an open connection, socket.end() is
\* followed by a close event, a session makes finitely many calls and ends
\* its transaction.  Nothing is assumed of failures, timers and new calls.
FairSpec == /\ Spec
            /\ \A t \in Task : WF_vars(Continue(t))
            /\ \A c \in Conn : WF_vars(Serve(c) \/ (status[c] \in {"refused", "closing"} /\ SocketClose(c)))
            /\ \A x \in Txn : SF_vars(End(x))

-----------------------------------------------------------------------------
(* Properties                                                              *)

\* Two calls use one connection at a time only within one transaction.
OneOwner == \A t, u \in Task : t # u /\ conn[t] # None /\ conn[t] = conn[u]
                                  => TxnOf[t] # None /\ TxnOf[t] = TxnOf[u]

\* What the server answers next is the command its asker waits with: a call
\* without a transaction never gets the answer of another.
AnswerReachesAsker ==
    \A c \in Conn : inflight[c] # <<>> /\ TxnOf[Head(inflight[c])] = None
        => /\ Len(inflight[c]) = 1
           /\ lastCommand[c] = Head(inflight[c])
           /\ phase[lastCommand[c]] = "sent" /\ conn[lastCommand[c]] = c

\* The pool has at most one connection more than maxPoolSize (the code
\* compares with <=), connections that are being closed included.
PoolBound == Cardinality(InPool) <= MaxPoolSize + 1

\* The idle timer never closes a connection somebody works with: whoever
\* gets a connection has stopped its timer, on every way to get one.
IdleTimerMeansIdle ==
    \A c \in Conn : cleanup[c] => /\ ~reserved[c] /\ Holders(c) = {}
                                  /\ \A x \in Txn : txState[x] = "open" => txConn[x] # c

\* A reserved connection of the pool is in somebody's hands or bound to a
\* transaction: errors and retries do not leak it.
NoPlainLeak == \A c \in InPool : reserved[c] => Holders(c) # {} \/ transaction[c] # None

Lost == {"refused", "closing", "gone"}

\* What keeps a live connection from ever being released: a transaction that
\* did not end, that overwrote its connection, or one of whose calls stands
\* in line behind the connection it keeps; an answer given to another task.
Withheld == \/ \E x \in Txn : txState[x] = "abandoned"
            \/ \E c \in Conn : transaction[c] # None /\ txConn[transaction[c]] # c
            \/ \E t \in Task : phase[t] = "queued" /\ TxnOf[t] # None /\ txConn[TxnOf[t]] # None
            \/ \E t \in Task : phase[t] \in {"blocked", "sent"} /\ lastCommand[conn[t]] = None

\* A call without a transaction that waits in line is served as long as the
\* pool stays full.  (Once a connection has left the pool nobody looks at the line before the next
\* release: with all of them gone the waiters are forgotten.)
WaiterServed == \A t \in {u \in Task : TxnOf[u] = None} :
                    phase[t] = "queued" ~> phase[t] # "queued" \/ MayGrow \/ Withheld
=============================================================================
