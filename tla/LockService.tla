----------------------------- MODULE LockService -----------------------------
(***************************************************************************)
(* What a process-wide lock promises its callers (abstract specification). *)
(*                                                                         *)
(* Every name i is held by at most one lock object; whoever asks for a     *)
(* held name waits; a name is never free while somebody waits for it, so   *)
(* releasing hands the name over in the same step.  Nothing is said about  *)
(* queues, timers or the order in which waiters are served: ProcessLock    *)
(* implements this specification and adds them.                            *)
(***************************************************************************)
CONSTANTS Lock, Id

VARIABLES holders,    \* holders[i]: the lock objects that hold the name i
          waiting     \* waiting[i]: the lock objects that wait for the name i

svars == <<holders, waiting>>

Init == /\ holders = [i \in Id |-> {}]
        /\ waiting = [i \in Id |-> {}]

Uninvolved(l) == \A j \in Id : l \notin holders[j] \cup waiting[j]

\* A free name is granted at once.
Take(l, i) == /\ Uninvolved(l)
              /\ holders[i] = {}
              /\ holders' = [holders EXCEPT ![i] = {l}]
              /\ UNCHANGED waiting

\* A held name makes the caller wait.
Wait(l, i) == /\ Uninvolved(l)
              /\ holders[i] # {}
              /\ waiting' = [waiting EXCEPT ![i] = @ \cup {l}]
              /\ UNCHANGED holders

GiveUp(l, i) == /\ l \in waiting[i]
                /\ waiting' = [waiting EXCEPT ![i] = @ \ {l}]
                /\ UNCHANGED holders

\* The last holder leaves and nobody waits: the name becomes free.
Free(l, i) == /\ holders[i] = {l}
              /\ waiting[i] = {}
              /\ holders' = [holders EXCEPT ![i] = {}]
              /\ UNCHANGED waiting

\* Somebody waits: the name goes from l to a waiter m in one step.
HandOver(l, m, i) == /\ holders[i] = {l}
                     /\ m \in waiting[i]
                     /\ holders' = [holders EXCEPT ![i] = {m}]
                     /\ waiting' = [waiting EXCEPT ![i] = @ \ {m}]

Next == \E l \in Lock, i \in Id :
            \/ Take(l, i)
            \/ Wait(l, i)
            \/ GiveUp(l, i)
            \/ Free(l, i)
            \/ \E m \in Lock : HandOver(l, m, i)

Spec == Init /\ [][Next]_svars
=============================================================================
