----------------------------- MODULE SqlitePool -----------------------------
(***************************************************************************)
(* packages/sqlite/src/sqlite-adapter.ts: SQLiteConnectionPool and         *)
(* SQLiteDatabaseTransaction, with the callers of packages/sql (SQLQuery-  *)
(* Resolver, RawQuery, SQLPersistence) and of packages/orm                 *)
(* (DatabaseSession.commit(), rollback()).                                 *)
(*                                                                         *)
(* A Task is one caller that gets a connection, runs statements and gives  *)
(* it back: a query, or a persistence from its first statement to the end  *)
(* of flush().  Tasks with the same Txn belong to one session that is in a *)
(* transaction.  The driver is synchronous, so the actions are the pieces  *)
(* between two microtasks, and any caller may run in between.              *)
(***************************************************************************)
EXTENDS Integers, Sequences, FiniteSets

CONSTANTS Conn, Task, Txn, None,
          TxnOf,                \* the transaction of a task's session, or None
          MaxConnections,       \* maxConnections; the pool opens one more
          Drift                 \* bound: how far activeConnections may drift

ASSUME TxnOfAssumption == TxnOf \in [Task -> Txn \cup {None}]
ASSUME NoneAssumption == None \notin Conn \cup Task \cup Txn
ASSUME SizeAssumption == MaxConnections \in Nat /\ Drift \in Nat

VARIABLES db,           \* of a connection: its database handle
          released,     \* its field released
          owner,        \* its field transaction (None also for one replaced by a new one)
          active,       \* activeConnections
          first,        \* firstConnection
          queue,        \* the waiters
          phase, conn,  \* of a task: where it is, the connection it has
          txConn, txState,      \* of a transaction: connection; ended, and was it dealt with?
          raced         \* history: did somebody get a connection another one had,
                        \* or a transaction a second connection?

connVars == <<db, released, owner>>
poolVars == <<active, first, queue>>
taskVars == <<phase, conn>>
txVars   == <<txConn, txState>>
vars == <<connVars, poolVars, taskVars, txVars, raced>>

\* handed: resolve(connection) was called, getConnection() has not continued.
Using == {"handed", "beginning", "holding"}

TypeOK == /\ db \in [Conn -> {"none", "open", "closed"}]
          /\ released \in [Conn -> BOOLEAN]
          /\ owner \in [Conn -> Txn \cup {None}]
          /\ active \in Int /\ first \in Conn \cup {None}
          /\ queue \in Seq(Task)
          /\ phase \in [Task -> Using \cup {"idle", "queued"}]
          /\ conn \in [Task -> Conn \cup {None}]
          /\ txConn \in [Txn -> Conn \cup {None}]
          /\ txState \in [Txn -> {"open", "ending", "failed", "ended", "abandoned"}]
          /\ raced \in BOOLEAN
          /\ \A t \in Task : conn[t] # None <=> phase[t] \in Using

Init == /\ db = [c \in Conn |-> "none"]
        /\ released = [c \in Conn |-> FALSE]
        /\ owner = [c \in Conn |-> None]
        /\ active = 0 /\ first = None /\ queue = <<>>
        /\ phase = [t \in Task |-> "idle"]
        /\ conn = [t \in Task |-> None]
        /\ txConn = [x \in Txn |-> None]
        /\ txState = [x \in Txn |-> "open"]
        /\ raced = FALSE

-----------------------------------------------------------------------------
(* SQLiteConnectionPool.getConnection()                                    *)

Holders(c) == {t \in Task : conn[t] = c}
Ended(x) == txState[x] \in {"failed", "ended"}          \* transaction.ended
Sticky(t) == TxnOf[t] # None /\ txConn[TxnOf[t]] # None

\* A transaction has its connection.  When begin() failed that connection was
\* released, and may belong to somebody else by now.
GetSticky(t) ==
    /\ phase[t] = "idle" /\ Sticky(t) /\ txState[TxnOf[t]] \in {"open", "failed"}
    /\ phase' = [phase EXCEPT ![t] = "holding"]
    /\ conn' = [conn EXCEPT ![t] = txConn[TxnOf[t]]]
    /\ raced' = (raced \/ Ended(TxnOf[t]))
    /\ UNCHANGED <<connVars, poolVars, txVars>>

\* The rest of getConnection() once t has c: two calls of one transaction
\* that both waited overwrite each other's transaction.connection.
Take(t, c) ==
    LET x == TxnOf[t] IN
    /\ first' = IF first = None THEN c ELSE first
    /\ released' = [released EXCEPT ![c] = FALSE]
    /\ active' = active + 1
    /\ conn' = [conn EXCEPT ![t] = c]
    /\ IF x = None
       THEN phase' = [phase EXCEPT ![t] = "holding"] /\ UNCHANGED <<owner, txConn>>
       ELSE /\ phase' = [phase EXCEPT ![t] = "beginning"]
            /\ owner' = [owner EXCEPT ![c] = x]
            /\ txConn' = [txConn EXCEPT ![x] = c]

MayAsk(t) == /\ phase[t] = "idle" /\ ~Sticky(t)
             /\ TxnOf[t] # None => txState[TxnOf[t]] = "open"

FirstIsFree == first # None /\ released[first]

\* The first connection is kept open and used again: also by somebody who
\* comes while it is on its way to a waiter.
GetFirst(t) ==
    /\ MayAsk(t) /\ FirstIsFree
    /\ Take(t, first)
    /\ raced' = (raced \/ Holders(first) # {})
    /\ UNCHANGED <<db, queue, txState>>

IsFull == active > MaxConnections

\* A handle nobody refers to stands for the new SQLiteConnection.
Unreferenced(c) == /\ db[c] # "open" /\ Holders(c) = {}
                   /\ c # first /\ \A x \in Txn : txConn[x] # c

GetNew(t) ==
    /\ MayAsk(t) /\ ~FirstIsFree /\ ~IsFull
    /\ \E c \in Conn :
        /\ Unreferenced(c)
        /\ db' = [db EXCEPT ![c] = "open"]
        /\ Take(t, c)
    /\ UNCHANGED <<queue, txState, raced>>

Wait(t) ==
    /\ MayAsk(t) /\ ~FirstIsFree /\ IsFull
    /\ queue' = Append(queue, t)
    /\ phase' = [phase EXCEPT ![t] = "queued"]
    /\ UNCHANGED <<connVars, active, first, conn, txVars, raced>>

\* The waiter continues with what it was handed.
Resume(t) ==
    /\ phase[t] = "handed"
    /\ Take(t, conn[t])
    /\ raced' = (raced \/ Sticky(t))
    /\ UNCHANGED <<db, queue, txState>>

-----------------------------------------------------------------------------
(* SQLiteConnectionPool.release()                                          *)

\* Mutants: the waiters are forgotten; a waiter is resolved with nothing; a
\* surplus connection stays open.
Handover_Nobody(c, ph, cn) ==
    /\ db' = [db EXCEPT ![c] = IF c = first THEN @ ELSE "closed"]
    /\ phase' = ph /\ conn' = cn /\ UNCHANGED queue

Handover_Nothing(c, ph, cn) ==
    /\ queue' = IF queue = <<>> THEN queue ELSE Tail(queue)
    /\ phase' = IF queue = <<>> THEN ph ELSE [ph EXCEPT ![Head(queue)] = "handed"]
    /\ conn' = cn /\ UNCHANGED db

Handover_KeepsOpen(c, ph, cn) ==
    /\ queue = <<>> => phase' = ph /\ conn' = cn
    /\ queue # <<>> => /\ phase' = [ph EXCEPT ![Head(queue)] = "handed"]
                       /\ conn' = [cn EXCEPT ![Head(queue)] = c]
    /\ queue' = IF queue = <<>> THEN queue ELSE Tail(queue)
    /\ UNCHANGED db

\* queue.shift(): the first waiter gets c; else a surplus connection closes.
Handover(c, ph, cn) ==
    \/ /\ queue # <<>>
       /\ phase' = [ph EXCEPT ![Head(queue)] = "handed"]
       /\ conn' = [cn EXCEPT ![Head(queue)] = c]
       /\ queue' = Tail(queue)
       /\ UNCHANGED db
    \/ /\ queue = <<>>
       /\ db' = [db EXCEPT ![c] = IF c = first THEN @ ELSE "closed"]
       /\ phase' = ph /\ conn' = cn /\ UNCHANGED queue

\* Mutants: the count stays; the connection is not marked.
CountDown_Skipped(c) == active' = active /\ released' = [released EXCEPT ![c] = TRUE]
CountDown_Unmarked(c) == active' = active - 1 /\ UNCHANGED released

\* super.release()
CountDown(c) == active' = active - 1 /\ released' = [released EXCEPT ![c] = TRUE]

\* Mutant: a query releases the connection of its transaction.
Kept_Never(c) == FALSE

Kept(c) == owner[c] # None /\ ~Ended(owner[c])

\* finally { connection.release() } of a query, persistence.release() of flush().
Release(t) ==
    LET c  == conn[t]
        ph == [phase EXCEPT ![t] = "idle"]
        cn == [conn EXCEPT ![t] = None]
    IN  /\ phase[t] = "holding"
        /\ IF Kept(c) THEN phase' = ph /\ conn' = cn /\ UNCHANGED <<db, released, active, queue>>
           ELSE CountDown(c) /\ Handover(c, ph, cn)
        /\ UNCHANGED <<owner, first, txVars, raced>>

-----------------------------------------------------------------------------
(* SQLiteDatabaseTransaction and DatabaseSession                           *)

Begun(t) == /\ phase[t] = "beginning"
            /\ phase' = [phase EXCEPT ![t] = "holding"]
            /\ UNCHANGED <<connVars, poolVars, conn, txVars, raced>>

\* BEGIN failed: ended, released, and the caller throws.  The session keeps
\* the transaction: commit() and rollback() only say that it has ended.
BeginFails(t) ==
    LET c == conn[t] IN
    /\ phase[t] = "beginning"
    /\ txState' = [txState EXCEPT ![TxnOf[t]] = "failed"]
    /\ CountDown(c)
    /\ Handover(c, [phase EXCEPT ![t] = "idle"], [conn EXCEPT ![t] = None])
    /\ raced' = (raced \/ Holders(c) # {t})
    /\ UNCHANGED <<owner, first, txConn>>

\* The session has made its last call, and ends its transaction when its
\* calls have returned.
LastCall(x) == /\ txState[x] = "open" /\ txConn[x] # None
               /\ txState' = [txState EXCEPT ![x] = "ending"]
               /\ UNCHANGED <<connVars, poolVars, taskVars, txConn, raced>>

Ending(x) == /\ txState[x] = "ending"
             /\ \A t \in Task : TxnOf[t] = x => phase[t] = "idle"

\* commit() or rollback(): ended = true, connection.release().
End(x) ==
    LET c == txConn[x] IN
    /\ Ending(x)
    /\ txState' = [txState EXCEPT ![x] = "ended"]
    /\ IF owner[c] \notin {None, x} /\ Kept(c)
       THEN UNCHANGED <<db, released, active, queue, taskVars>>
       ELSE CountDown(c) /\ Handover(c, phase, conn)
    /\ UNCHANGED <<owner, first, txConn, raced>>

\* COMMIT fails, and so does the ROLLBACK that transaction() tries then.
EndFails(x) ==
    /\ Ending(x)
    /\ txState' = [txState EXCEPT ![x] = "abandoned"]
    /\ UNCHANGED <<connVars, poolVars, taskVars, txConn, raced>>

\* The session (after commit() or rollback(), or another one) gets a new
\* transaction object; connections that refer to the old one see it ended.
NewTransaction(x) ==
    /\ txState[x] = "ended"
    /\ txState' = [txState EXCEPT ![x] = "open"]
    /\ txConn' = [txConn EXCEPT ![x] = None]
    /\ owner' = [c \in Conn |-> IF owner[c] = x THEN None ELSE owner[c]]
    /\ UNCHANGED <<db, released, poolVars, taskVars, raced>>

-----------------------------------------------------------------------------
Ask(t) == /\ active \in -Drift .. MaxConnections + 1 + Drift
          /\ GetSticky(t) \/ GetFirst(t) \/ GetNew(t) \/ Wait(t)
Continue(t) == Resume(t) \/ Begun(t) \/ BeginFails(t) \/ Release(t)

Next == \/ \E t \in Task : Ask(t) \/ Continue(t)
        \/ \E x \in Txn : LastCall(x) \/ End(x) \/ EndFails(x) \/ NewTransaction(x)

Spec == Init /\ [][Next]_vars

\* Promises that are settled continue; a session makes finitely many calls
\* and ends its transaction.
FairSpec == /\ Spec
            /\ \A t \in Task : WF_vars(Continue(t))
            /\ \A x \in Txn : WF_vars(LastCall(x)) /\ WF_vars(End(x) \/ EndFails(x))

-----------------------------------------------------------------------------
(* Properties                                                              *)

\* sqlite-adapter.ts:196 says: `when a transaction object is given, it means
\* we make the connection sticky exclusively to that transaction`.
StickyExclusively ==
    \A c \in Conn : \A t \in Holders(c) :
        Kept(c) /\ phase[t] = "holding" => TxnOf[t] = owner[c]

StaleTask(t) == TxnOf[t] # None /\ Ended(TxnOf[t])

\* As long as no BEGIN has failed, only the first connection is ever in the
\* hands of two sessions at once.
OnlyFirstIsShared ==
    \A t, u \in Task :
        /\ t # u /\ conn[t] # None /\ conn[t] = conn[u]
        /\ TxnOf[t] = None \/ TxnOf[t] # TxnOf[u]
        => conn[t] = first \/ \E x \in Txn : txState[x] = "failed"

InHands == {c \in Conn : db[c] = "open" /\ ~released[c]}

\* activeConnections counts the connections that are out: nothing is leaked
\* or released twice, by queries, failed BEGINs, commits or handovers.
ActiveCounted == ~raced => active = Cardinality(InHands)

\* Nothing is out without somebody to bring it back: a caller that has it,
\* or a transaction.  (sql/src/test.ts:37 checks it after every test.)
NoLeak == ~raced => \A c \in InHands : Holders(c) # {} \/ Kept(c)

\* The pool knows what is out, and everything that is out comes back.
Accounted == TypeOK /\ ActiveCounted /\ NoLeak

\* Nobody runs statements on a connection that was closed, and surplus
\* connections do not stay open.
OpenWhileNeeded ==
    /\ \A t \in Task : phase[t] \in Using /\ ~StaleTask(t) /\ ~raced => db[conn[t]] = "open"
    /\ \A c \in Conn \ {first} : db[c] = "open" /\ ~raced => ~released[c] \/ Holders(c) # {}

\* What withholds a connection: a transaction nobody ended, or one of whose
\* calls stands in line behind the connection it keeps.
Withheld == \/ \E x \in Txn : txState[x] = "abandoned"
            \/ \E t \in Task : phase[t] = "queued" /\ Sticky(t)

\* As long as nothing raced, who waits for a connection gets one.  (After a
\* race activeConnections may stay too high, and everybody waits for ever.)
WaiterServed == \A t \in Task : phase[t] = "queued" ~> phase[t] # "queued" \/ Withheld \/ raced
=============================================================================
