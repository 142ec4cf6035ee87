----------------------------- MODULE ProcessLock -----------------------------
(***************************************************************************)
(* packages/core/src/process-locker.ts: the in-process lock behind the     *)
(* broker's locks (class ProcessLock, used through ProcessLocker).         *)
(*                                                                         *)
(* Lock is a pool of ProcessLock objects.  ProcessLocker makes a fresh     *)
(* object per call; here a call takes an object nothing refers to any more *)
(* (Fresh), the way a collected object's memory is used again.             *)
(* A timer is a flag that is TRUE while the timeout is armed: it may fire  *)
(* at any later time.  All code below runs in one JavaScript turn, so each *)
(* method is one action, and unlock() calls the next waiter's ourTake in   *)
(* the same action.                                                        *)
(***************************************************************************)
EXTENDS Naturals, FiniteSets, SequencesExt

CONSTANTS Lock,        \* the lock objects
          Id,          \* the names they lock
          Ttls,        \* does a call set a ttl?     a subset of BOOLEAN
          Timeouts     \* does a call set a timeout? a subset of BOOLEAN

ASSUME OptionsAssumption == Ttls \subseteq BOOLEAN /\ Timeouts \subseteq BOOLEAN
ASSUME IdAssumption == Id # {}

VARIABLES LOCKS,          \* the keys of the module global LOCKS
          queue,          \* queue[i] = LOCKS[i].queue: whose ourTake waits there
          id,             \* the object's id field
          ttl,            \* the ttl argument its ourTake closure captured
          holding,        \* the object's holding field
          promise,        \* state of the promise its acquire() returned
          ttlTimeout,     \* is the ttl timer armed?
          timeoutTimer    \* is the timer that gives up waiting armed?

lockVars == <<LOCKS, queue, id, ttl, holding, promise, ttlTimeout, timeoutTimer>>

TypeOK == /\ LOCKS \subseteq Id
          /\ queue \in [Id -> Seq(Lock)]
          /\ id \in [Lock -> Id]
          /\ ttl \in [Lock -> BOOLEAN]
          /\ holding \in [Lock -> BOOLEAN]
          /\ promise \in [Lock -> {"none", "pending", "resolved", "rejected"}]
          /\ ttlTimeout \in [Lock -> BOOLEAN]
          /\ timeoutTimer \in [Lock -> BOOLEAN]

Init == /\ LOCKS = {}
        /\ queue = [i \in Id |-> <<>>]
        /\ id = [l \in Lock |-> CHOOSE i \in Id : TRUE]
        /\ ttl = [l \in Lock |-> FALSE]
        /\ holding = [l \in Lock |-> FALSE]
        /\ promise = [l \in Lock |-> "none"]
        /\ ttlTimeout = [l \in Lock |-> FALSE]
        /\ timeoutTimer = [l \in Lock |-> FALSE]

-----------------------------------------------------------------------------
(* Operations                                                              *)

\* resolve() and reject() settle a promise once; later calls do nothing.
Settle(l, outcome) ==
    promise' = [promise EXCEPT ![l] = IF @ = "pending" THEN outcome ELSE @]

\* No caller, queue or timer refers to the object: `new ProcessLock(id)`.
Fresh(l) == /\ ~holding[l]
            /\ promise[l] # "pending"
            /\ ~ttlTimeout[l]
            /\ ~timeoutTimer[l]

\* acquire() of a name somebody holds: ourTake is queued.
AcquireQueued(l, i, t, o) ==
    /\ Fresh(l)
    /\ i \in LOCKS
    /\ queue' = [queue EXCEPT ![i] = Append(@, l)]
    /\ id' = [id EXCEPT ![l] = i]
    /\ ttl' = [ttl EXCEPT ![l] = t]
    /\ promise' = [promise EXCEPT ![l] = "pending"]
    /\ timeoutTimer' = [timeoutTimer EXCEPT ![l] = o]
    /\ UNCHANGED <<LOCKS, holding, ttlTimeout>>

\* Mutant: the entry is made under the object instead of its id.
AcquireFree_KeyedByObject(l, i, t, o) ==
    /\ Fresh(l)
    /\ i \notin LOCKS
    /\ LOCKS' = LOCKS \cup {l}
    /\ id' = [id EXCEPT ![l] = i]
    /\ holding' = [holding EXCEPT ![l] = TRUE]
    /\ UNCHANGED <<queue, ttl, promise, ttlTimeout, timeoutTimer>>

\* acquire() of a free name: resolved at once.  The timeout timer is armed
\* all the same and nothing ever clears it.
AcquireFree(l, i, t, o) ==
    /\ Fresh(l)
    /\ i \notin LOCKS
    /\ LOCKS' = LOCKS \cup {i}
    /\ queue' = [queue EXCEPT ![i] = <<>>]
    /\ id' = [id EXCEPT ![l] = i]
    /\ ttl' = [ttl EXCEPT ![l] = t]
    /\ holding' = [holding EXCEPT ![l] = TRUE]
    /\ promise' = [promise EXCEPT ![l] = "resolved"]
    /\ ttlTimeout' = [ttlTimeout EXCEPT ![l] = t]
    /\ timeoutTimer' = [timeoutTimer EXCEPT ![l] = o]

\* Mutant: the check of LOCKS[this.id] is missing.
TryLock_Unchecked(l, i, t) ==
    /\ Fresh(l)
    /\ LOCKS' = LOCKS \cup {i}
    /\ id' = [id EXCEPT ![l] = i]
    /\ ttl' = [ttl EXCEPT ![l] = t]
    /\ holding' = [holding EXCEPT ![l] = TRUE]
    /\ promise' = [promise EXCEPT ![l] = "none"]
    /\ ttlTimeout' = [ttlTimeout EXCEPT ![l] = t]
    /\ UNCHANGED <<queue, timeoutTimer>>

\* tryLock(): takes a free name, never waits (a failed one changes nothing
\* but the holding field of its own fresh object, which is FALSE already).
TryLock(l, i, t) ==
    /\ Fresh(l)
    /\ i \notin LOCKS
    /\ LOCKS' = LOCKS \cup {i}
    /\ queue' = [queue EXCEPT ![i] = <<>>]
    /\ id' = [id EXCEPT ![l] = i]
    /\ ttl' = [ttl EXCEPT ![l] = t]
    /\ holding' = [holding EXCEPT ![l] = TRUE]
    /\ promise' = [promise EXCEPT ![l] = "none"]
    /\ ttlTimeout' = [ttlTimeout EXCEPT ![l] = t]
    /\ UNCHANGED timeoutTimer

\* Mutants: the timer rejects but leaves ourTake in the queue; the timer
\* takes ourTake out of the queue but does not reject.
TimeoutFires_StaysQueued(l) ==
    /\ timeoutTimer[l]
    /\ timeoutTimer' = [timeoutTimer EXCEPT ![l] = FALSE]
    /\ Settle(l, "rejected")
    /\ UNCHANGED <<LOCKS, queue, id, ttl, holding, ttlTimeout>>

TimeoutFires_NoReject(l) ==
    /\ timeoutTimer[l]
    /\ timeoutTimer' = [timeoutTimer EXCEPT ![l] = FALSE]
    /\ queue' = [queue EXCEPT ![id[l]] = RemoveFirst(@, l)]
    /\ UNCHANGED <<LOCKS, id, ttl, holding, promise, ttlTimeout>>

\* The timeout timer: stop waiting and reject.  After the promise settled
\* this changes nothing (ourTake is not queued, reject is ignored).
TimeoutFires(l) ==
    /\ timeoutTimer[l]
    /\ timeoutTimer' = [timeoutTimer EXCEPT ![l] = FALSE]
    /\ queue' = IF id[l] \in LOCKS
                THEN [queue EXCEPT ![id[l]] = RemoveFirst(@, l)] ELSE queue
    /\ Settle(l, "rejected")
    /\ UNCHANGED <<LOCKS, id, ttl, holding, ttlTimeout>>

\* Mutants: pop() instead of shift(); ourTake forgets its ttl timer.
HandOver_Last(l) ==
    LET i    == id[l]
        next == Last(queue[i])
    IN  /\ queue[i] # <<>>
        /\ queue' = [queue EXCEPT ![i] = Front(@)]
        /\ holding' = [holding EXCEPT ![l] = FALSE, ![next] = TRUE]
        /\ Settle(next, "resolved")
        /\ ttlTimeout' = [ttlTimeout EXCEPT ![l] = FALSE, ![next] = ttl[next]]
        /\ UNCHANGED LOCKS

HandOver_NoTtl(l) ==
    LET i    == id[l]
        next == Head(queue[i])
    IN  /\ queue[i] # <<>>
        /\ queue' = [queue EXCEPT ![i] = Tail(@)]
        /\ holding' = [holding EXCEPT ![l] = FALSE, ![next] = TRUE]
        /\ Settle(next, "resolved")
        /\ ttlTimeout' = [ttlTimeout EXCEPT ![l] = FALSE]
        /\ UNCHANGED LOCKS

\* The part of unlock() behind `if (!this.holding) return`, when somebody
\* waits: shift the first ourTake and run it.
HandOver(l) ==
    LET i    == id[l]
        next == Head(queue[i])
    IN  /\ queue[i] # <<>>
        /\ queue' = [queue EXCEPT ![i] = Tail(@)]
        /\ holding' = [holding EXCEPT ![l] = FALSE, ![next] = TRUE]
        /\ Settle(next, "resolved")
        /\ ttlTimeout' = [ttlTimeout EXCEPT ![l] = FALSE, ![next] = ttl[next]]
        /\ UNCHANGED LOCKS

\* Mutants: the entry survives; the entry is deleted although somebody waits.
DeleteEntry_Keeps(l) ==
    /\ queue[id[l]] = <<>>
    /\ holding' = [holding EXCEPT ![l] = FALSE]
    /\ ttlTimeout' = [ttlTimeout EXCEPT ![l] = FALSE]
    /\ UNCHANGED <<LOCKS, queue, promise>>

DeleteEntry_Always(l) ==
    /\ LOCKS' = LOCKS \ {id[l]}
    /\ holding' = [holding EXCEPT ![l] = FALSE]
    /\ ttlTimeout' = [ttlTimeout EXCEPT ![l] = FALSE]
    /\ UNCHANGED <<queue, promise>>

\* ... and when nobody waits: `delete LOCKS[this.id]`.
DeleteEntry(l) ==
    /\ queue[id[l]] = <<>>
    /\ LOCKS' = LOCKS \ {id[l]}
    /\ holding' = [holding EXCEPT ![l] = FALSE]
    /\ ttlTimeout' = [ttlTimeout EXCEPT ![l] = FALSE]
    /\ UNCHANGED <<queue, promise>>

\* unlock() of an object that holds nothing only clears its ttl timer.
NotHeld(l) ==
    /\ ~holding[l]
    /\ ttlTimeout' = [ttlTimeout EXCEPT ![l] = FALSE]
    /\ UNCHANGED <<LOCKS, queue, holding, promise>>

unlock(l) ==
    /\ \/ NotHeld(l)
       \/ holding[l] /\ HandOver(l)
       \/ holding[l] /\ DeleteEntry(l)
    /\ UNCHANGED <<id, ttl, timeoutTimer>>

\* The caller who got the object unlocks it, possibly late or twice.
Unlock(l) == /\ promise[l] # "pending"
             /\ unlock(l)

TtlFires(l) == /\ ttlTimeout[l]
               /\ unlock(l)

-----------------------------------------------------------------------------
Next == \E l \in Lock :
            \/ \E i \in Id, t \in Ttls, o \in Timeouts :
                  AcquireQueued(l, i, t, o) \/ AcquireFree(l, i, t, o)
            \/ \E i \in Id, t \in Ttls : TryLock(l, i, t)
            \/ TimeoutFires(l)
            \/ Unlock(l)
            \/ TtlFires(l)

Spec == Init /\ [][Next]_lockVars

\* An armed timer fires (setTimeout); nobody has to call unlock().
FairSpec == /\ Spec
            /\ \A l \in Lock : WF_lockVars(TimeoutFires(l)) /\ WF_lockVars(TtlFires(l))

-----------------------------------------------------------------------------
(* Properties                                                              *)

\* At most one object holds a name: what every caller of acquire, tryLock
\* and unlock relies on, whatever the timers do in between.
MutualExclusion == \A l, m \in Lock :
                      holding[l] /\ holding[m] /\ id[l] = id[m] => l = m

\* LOCKS[id] exists exactly while some object holds id.  A stale entry would
\* block the name for ever; a missing one would let tryLock() break in and
\* make unlock() fail on LOCKS[this.id].queue.
EntryIffHeld == \A i \in Id : i \in LOCKS <=> \E l \in Lock : holding[l] /\ id[l] = i

\* An acquire() that has not settled waits in the queue of its name, once,
\* and no other ourTake is in a queue: nobody is forgotten (a lost wake-up)
\* and nobody is granted a lock it stopped waiting for.
PendingIffQueued == 
    \A l \in Lock, i \in Id :
        Cardinality({k \in DOMAIN queue[i] : queue[i][k] = l})
            = IF promise[l] = "pending" /\ id[l] = i THEN 1 ELSE 0

\* A call that reported `Lock timed out` never holds the lock.
RejectedHoldsNothing == \A l \in Lock : promise[l] = "rejected" => ~holding[l]

\* LOCKS, its queues and the fields of the lock objects agree.
LockSafe == TypeOK /\ MutualExclusion /\ EntryIffHeld /\ PendingIffQueued /\ RejectedHoldsNothing

\* unlock() serves the waiters in the order they asked: an ourTake further
\* back runs only after everybody before it has settled.
NoOvertaking ==
    [][\A i \in Id : \A k \in DOMAIN queue[i] :
           promise'[queue[i][k]] = "resolved" =>
               \A j \in 1 .. k - 1 : promise'[queue[i][j]] # "pending"]_lockVars

\* A call with a timeout settles one way or the other (timeoutTimer fires).
TimeoutSettles == \A l \in Lock : promise[l] = "pending" /\ timeoutTimer[l]
                                      ~> promise[l] # "pending"

\* Whoever waits gets the lock or gives up, unless a holder of that name set
\* no ttl: when all do, nobody has to call unlock().
TtlServesEveryone ==
    \A l \in Lock : promise[l] = "pending" ~>
        \/ promise[l] # "pending"
        \/ \E h \in Lock : holding[h] /\ id[h] = id[l] /\ ~ttl[h]

\* Timers get everybody on who has a timeout, or waits behind a ttl.
TimersServe == TimeoutSettles /\ TtlServesEveryone

\* The code implements the abstract lock.
Service == INSTANCE LockService WITH
              holders <- [i \in Id |-> {l \in Lock : holding[l] /\ id[l] = i}],
              waiting <- [i \in Id |-> {l \in Lock : promise[l] = "pending" /\ id[l] = i}]

ServiceSpec == Service!Spec
=============================================================================
