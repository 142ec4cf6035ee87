------------------------------ MODULE BrokerLock ------------------------------
(***************************************************************************)
(* Distributed locks of the broker: BrokerClient.lock/tryLock on one side, *)
(* BrokerConnection (packages/broker/src/kernel.ts) with the ProcessLock   *)
(* of the broker process on the other.                                     *)
(*                                                                         *)
(* A lock object l stands for one request: its message id, its entry in    *)
(* this.locks of the connection it came in on, and the subscription the    *)
(* client gets.  Messages and timers are macrotasks of the broker process; *)
(* the .then() of an acquire is a microtask, so it runs before the next    *)
(* macrotask but after all of the one that settled the promise (Idle).     *)
(* What a request asks for is chosen when it is handled; requests of one   *)
(* connection may be handled in any order.                                 *)
(***************************************************************************)
EXTENDS ProcessLock

CONSTANT Conn     \* the connections to the broker

VARIABLES alive,    \* connections whose client process lives
          open,     \* connections the broker has not closed
          owner,    \* owner[l]: the connection request l came in on
          locks,    \* requests registered in this.locks of their connection
          acq,      \* requests whose lock(...).then(...) has not run yet
          closing,  \* what the loop in the running close() has yet to unlock
          client    \* the client's view of request l

connVars   == <<alive, open, owner, locks, acq, closing, client>>
brokerVars == <<lockVars, connVars>>

\* "reply": ResponseLock is on its way; "held": the client has the lock;
\* "unlock": it has sent Unlock.
BrokerTypeOK == /\ alive \subseteq Conn
                /\ open \subseteq Conn
                /\ owner \in [Lock -> Conn]
                /\ locks \subseteq Lock
                /\ acq \subseteq Lock
                /\ closing \subseteq Lock
                /\ client \in [Lock -> {"none", "reply", "held", "unlock"}]

BrokerInit == /\ Init
              /\ alive = {}
              /\ open = {}
              /\ owner \in [Lock -> Conn]
              /\ \A l, m \in Lock : owner[l] = owner[m]
              /\ locks = {}
              /\ acq = {}
              /\ closing = {}
              /\ client = [l \in Lock |-> "none"]

\* The promise of l is settled and its .then() is due.
Ready(l) == l \in acq /\ promise[l] # "pending"

\* The broker process is between two macrotasks.
Idle == closing = {} /\ \A l \in Lock : ~Ready(l)

\* Nothing refers to request l any more: not a live connection's this.locks,
\* not a pending .then(), not a client.
Unused(l) == /\ Fresh(l)
             /\ l \notin acq
             /\ client[l] = "none"
             /\ l \in locks => owner[l] \notin open

-----------------------------------------------------------------------------
(* Connections                                                             *)

\* A client connects: a fresh connection, no request of it is around.
Connect(c) ==
    /\ Idle
    /\ c \notin alive \cup open
    /\ \A l \in Lock : owner[l] = c => Unused(l)
    /\ alive' = alive \cup {c}
    /\ open' = open \cup {c}
    /\ locks' = {l \in locks : owner[l] # c}
    /\ UNCHANGED <<lockVars, owner, acq, closing, client>>

\* The client process dies; what it sent is still delivered.
ClientDies(c) ==
    /\ c \in alive
    /\ alive' = alive \ {c}
    /\ client' = [l \in Lock |->
                    IF owner[l] = c /\ client[l] \in {"reply", "held"} THEN "none" ELSE client[l]]
    /\ UNCHANGED <<lockVars, open, owner, locks, acq, closing>>

\* Mutant: close() does not unlock anything.
Close_KeepsLocks(c) ==
    /\ Idle
    /\ c \in open
    /\ open' = open \ {c}
    /\ client' = [l \in Lock |->
                    IF owner[l] = c /\ client[l] \in {"reply", "unlock"} THEN "none" ELSE client[l]]
    /\ UNCHANGED <<lockVars, alive, owner, locks, acq, closing>>

\* The broker's socket closes, because the client died or the network failed:
\* close() starts its loop over this.locks.  Messages under way are lost.
Close(c) ==
    /\ Idle
    /\ c \in open
    /\ open' = open \ {c}
    /\ closing' = {l \in locks : owner[l] = c}
    /\ client' = [l \in Lock |->
                    IF owner[l] = c /\ client[l] \in {"reply", "unlock"} THEN "none" ELSE client[l]]
    /\ UNCHANGED <<lockVars, alive, owner, locks, acq>>

\* Mutant: the entry of the name is dropped without serving its queue.
CloseUnlocks_Drops(l) ==
    /\ l \in closing
    /\ closing' = closing \ {l}
    /\ LOCKS' = LOCKS \ {id[l]}
    /\ holding' = [holding EXCEPT ![l] = FALSE]
    /\ UNCHANGED <<queue, id, ttl, promise, ttlTimeout, timeoutTimer>>
    /\ UNCHANGED <<alive, open, owner, locks, acq, client>>

\* One round of the loop `for (const lock of this.locks.values()) lock.unlock()`.
CloseUnlocks(l) ==
    /\ l \in closing
    /\ closing' = closing \ {l}
    /\ unlock(l)
    /\ UNCHANGED <<alive, open, owner, locks, acq, client>>

-----------------------------------------------------------------------------
(* Message handlers of BrokerConnection                                    *)

\* BrokerType.Lock: start acquiring; the reply comes from the .then().
HandleLock(c, l, i, t, o) ==
    /\ Idle
    /\ c \in open
    /\ Unused(l)
    /\ AcquireQueued(l, i, t, o) \/ AcquireFree(l, i, t, o)
    /\ owner' = [owner EXCEPT ![l] = c]
    /\ locks' = locks \ {l}
    /\ acq' = acq \cup {l}
    /\ UNCHANGED <<alive, open, closing, client>>

\* BrokerType.TryLock of a free name (a failed one leaves no trace).
HandleTryLock(c, l, i, t) ==
    /\ Idle
    /\ c \in open
    /\ Unused(l)
    /\ TryLock(l, i, t)
    /\ owner' = [owner EXCEPT ![l] = c]
    /\ locks' = locks \ {l}
    /\ acq' = acq \cup {l}
    /\ UNCHANGED <<alive, open, closing, client>>

\* Mutant: the lock is not registered under its message id.
Then_NotRegistered(l) ==
    /\ closing = {}
    /\ Ready(l)
    /\ acq' = acq \ {l}
    /\ client' = [client EXCEPT ![l] = IF owner[l] \in open \cap alive THEN "reply" ELSE "none"]
    /\ UNCHANGED <<lockVars, alive, open, owner, locks, closing>>

\* The .then() of lock(): register the lock under its message id and reply.
\* It does not ask whether the connection is still open.
Then(l) ==
    /\ closing = {}
    /\ Ready(l)
    /\ acq' = acq \ {l}
    /\ \/ /\ promise[l] = "rejected"           \* response.error(...)
          /\ UNCHANGED <<locks, client>>
       \/ /\ promise[l] # "rejected"
          /\ locks' = locks \cup {l}
          /\ client' = [client EXCEPT ![l] = IF owner[l] \in open \cap alive THEN "reply" ELSE "none"]
    /\ UNCHANGED <<lockVars, alive, open, owner, closing>>

\* Mutant: whoever sends Unlock frees the name, even if it lost the lock.
HandleUnlock_ByName(l) ==
    /\ Idle
    /\ client[l] = "unlock"
    /\ owner[l] \in open
    /\ \E m \in Lock : id[m] = id[l] /\ holding[m] /\ unlock(m)
    /\ locks' = locks \ {l}
    /\ client' = [client EXCEPT ![l] = "none"]
    /\ UNCHANGED <<alive, open, owner, acq, closing>>

\* BrokerType.Unlock, under the message id of the request.
HandleUnlock(l) ==
    /\ Idle
    /\ client[l] = "unlock"
    /\ owner[l] \in open
    /\ \/ /\ l \in locks
          /\ locks' = locks \ {l}
          /\ unlock(l)
       \/ /\ l \notin locks                    \* response.error('Unknown lock ...')
          /\ UNCHANGED <<locks, lockVars>>
    /\ client' = [client EXCEPT ![l] = "none"]
    /\ UNCHANGED <<alive, open, owner, acq, closing>>

Timer(l) == /\ Idle
            /\ TtlFires(l) \/ TimeoutFires(l)
            /\ UNCHANGED connVars

-----------------------------------------------------------------------------
(* BrokerClient                                                            *)

\* Mutant: the answer is stored as it came.
ClientReceives_Raw(l) ==
    /\ client[l] = "reply"
    /\ client' = [client EXCEPT ![l] = "ResponseLock"]
    /\ UNCHANGED <<lockVars, alive, open, owner, locks, acq, closing>>

\* The client receives ResponseLock: lock() returns the subscription.
ClientReceives(l) ==
    /\ client[l] = "reply"
    /\ client' = [client EXCEPT ![l] = "held"]
    /\ UNCHANGED <<lockVars, alive, open, owner, locks, acq, closing>>

\* AsyncSubscription.unsubscribe(), at most once.  On a broken connection
\* send() throws and the subscription is used up all the same.
ClientUnlocks(l) ==
    /\ client[l] = "held"
    /\ client' = [client EXCEPT ![l] = IF owner[l] \in open THEN "unlock" ELSE "none"]
    /\ UNCHANGED <<lockVars, alive, open, owner, locks, acq, closing>>

-----------------------------------------------------------------------------
BrokerNext ==
    \/ \E c \in Conn : Connect(c) \/ ClientDies(c) \/ Close(c)
    \/ \E c \in Conn, l \in Lock, i \in Id, t \in Ttls :
          \/ \E o \in Timeouts : HandleLock(c, l, i, t, o)
          \/ HandleTryLock(c, l, i, t)
    \/ \E l \in Lock :
          \/ CloseUnlocks(l) \/ Then(l) \/ HandleUnlock(l) \/ Timer(l)
          \/ ClientReceives(l) \/ ClientUnlocks(l)

BrokerSpec == BrokerInit /\ [][BrokerNext]_brokerVars

\* The broker's event loop runs what is due, a dead client's socket closes,
\* timers fire.  Clients need not unlock.
BrokerFairSpec ==
    /\ BrokerSpec
    /\ \A c \in Conn : SF_brokerVars(c \notin alive /\ Close(c))
    /\ \A l \in Lock : /\ WF_brokerVars(CloseUnlocks(l))
                       /\ WF_brokerVars(Then(l))
                       /\ SF_brokerVars(Timer(l))
                       /\ SF_brokerVars(HandleUnlock(l))

-----------------------------------------------------------------------------
(* Properties                                                              *)

\* Between two macrotasks every held lock is registered on its connection, so
\* that Unlock and close() can reach it: the await between the grant and
\* this.locks.set() never loses one.
HeldIsRegistered == Idle => \A l \in Lock : holding[l] => l \in locks

\* A client that is told it has a lock without ttl really has it for as long
\* as its connection stands.
HeldWhileConnected ==
    Idle => \A l \in Lock : client[l] = "held" /\ ~ttl[l] /\ owner[l] \in open => holding[l]

\* What the broker has registered, and what clients believe, fits the lock.
BrokerSafe == BrokerTypeOK /\ HeldIsRegistered /\ HeldWhileConnected

\* A lock without ttl ends only by its owner's Unlock or its owner's close():
\* a late Unlock of an expired lock never ends the lock of somebody else.
EndsByOwnerOnly ==
    [][\A l \in Lock : holding[l] /\ ~holding'[l] /\ ~ttl[l] =>
          client[l] = "unlock" \/ owner[l] \notin open]_brokerVars

\* The broker uses the lock as ProcessLock says: every handler, close() loop
\* and timer is a step of it or leaves it alone.
UsesProcessLock == Spec

\* What a client had when it died is given back once its socket closes.
DeadClientsReleased ==
    \A l \in Lock : l \in locks /\ owner[l] \in open \ alive ~> ~holding[l]
=============================================================================
