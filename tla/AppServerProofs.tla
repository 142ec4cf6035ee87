--------------------------- MODULE AppServerProofs ---------------------------
(***************************************************************************)
(* Proofs about AppServer, for any number of workers and crashes.          *)
(*                                                                         *)
(* The ledger of the workers: until SIGINT every worker that goes is       *)
(* replaced, so that there are as many as configured, and only crashes and *)
(* the one close() make them go.  After SIGINT no worker is waited for     *)
(* (unless it could not be told), so that the count only goes down, passes *)
(* one once, and says the truth when it is zero.                           *)
(***************************************************************************)
EXTENDS AppServer, FiniteSetTheorems, TLAPS

Gone == {w \in Worker : seen[w] = "gone"}

\* What makes workers go: they died, are stopping, or have been told to stop.
Doomed == {w \in Worker : proc[w] \in {"dead", "stopping"} \/ (w \in inbox /\ Alive(w))}

\* A process exists from its fork on, and is gone when it has died.
Processes == \A w \in Worker : /\ seen[w] = "none" <=> proc[w] = "none"
                               /\ seen[w] = "gone" => proc[w] = "dead"
                               /\ w \in inbox => seen[w] # "none"

\* Nothing happens before start(), and there are no workers without a cluster.
BeforeStart ==
    /\ master = "booting" => /\ ~stopping /\ listeners = {} /\ inbox = {} /\ shutdowns = 0
                             /\ \A w \in Worker : seen[w] = "none"
    /\ ~IsCluster => \A w \in Worker : seen[w] = "none"
    /\ master = "exited" => stopping
    /\ "SIGINT" \in listeners => stopping /\ IsCluster

Replaced == ~stopping /\ IsCluster /\ master \notin {"booting", "killed"} => Cardinality(Present) = workers

DoomedByCrashOrClose ==
    ~stopping => Cardinality(Doomed) <= crashes + (IF "close" \in listeners THEN workers ELSE 0)

\* After SIGINT nobody is on the way, when all could be told.
NoLatecomers == stopping /\ ~unready => \A w \in Worker : seen[w] # "forked"

\* The last one has gone before the master does.
Emptied == /\ "SIGINT" \in resolving /\ ~unready => onlineWorkers <= 0
           /\ master = "exited" /\ IsCluster /\ ~unready => onlineWorkers <= 0

\* The shutdown events come with the end of the only process, or of the last worker.
Once == ~closed /\ "close" \notin listeners /\ ~unready =>
           \/ shutdowns = 0
           \/ shutdowns = 1 /\ ~IsCluster /\ master = "exited"
           \/ shutdowns = 1 /\ IsCluster /\ stopping /\ onlineWorkers <= 0

IInv == /\ TypeOK /\ CountExact
        /\ Processes /\ BeforeStart /\ Replaced /\ DoomedByCrashOrClose
        /\ NoLatecomers /\ Emptied /\ Once

-----------------------------------------------------------------------------
(* Counting workers                                                        *)

LEMMA Counts == ASSUME NEW S, S \subseteq Worker
                PROVE  IsFiniteSet(S) /\ Cardinality(S) \in Nat
<1>1. IsFiniteSet(Worker)
  BY SizeAssumption, FS_Interval DEF Worker
<1> QED
  BY <1>1, FS_Subset, FS_CardinalityType

LEMMA Fewer == ASSUME NEW S, NEW T, S \subseteq T, T \subseteq Worker
               PROVE  Cardinality(S) <= Cardinality(T)
BY Counts, FS_Subset

LEMMA OneMore == ASSUME NEW S, NEW w \in Worker, S \subseteq Worker
                 PROVE  /\ Cardinality(S \cup {w}) <= Cardinality(S) + 1
                        /\ w \notin S => Cardinality(S \cup {w}) = Cardinality(S) + 1
<1>1. IsFiniteSet(S) /\ Cardinality(S) \in Nat
  BY Counts
<1>2. Cardinality(S \cup {w}) = IF w \in S THEN Cardinality(S) ELSE Cardinality(S) + 1
  BY <1>1, FS_AddElement
<1> QED
  BY <1>1, <1>2

LEMMA OneLess == ASSUME NEW S, NEW w \in S, S \subseteq Worker
                 PROVE  Cardinality(S \ {w}) = Cardinality(S) - 1
<1>1. IsFiniteSet(S) /\ Cardinality(S) \in Nat
  BY Counts
<1> QED
  BY <1>1, FS_RemoveElement

\* The workers forked first are ids of workers.
LEMMA FirstForks == ASSUME workers \in 0 .. MaxWorkers
                    PROVE  /\ 1 .. workers \subseteq Worker
                           /\ Cardinality(1 .. workers) = workers
<1>1. workers \in Nat /\ workers <= MaxWorkers
  BY SizeAssumption
<1>2. \A i \in 1 .. workers : i <= 2 * MaxWorkers + MaxCrashes
  BY <1>1, SizeAssumption
<1>3. Cardinality(1 .. workers) = IF 1 > workers THEN 0 ELSE workers - 1 + 1
  BY <1>1, FS_Interval
<1> QED
  BY <1>1, <1>2, <1>3, SizeAssumption DEF Worker

\* There is an id for the next fork: not all ids are used up, when somebody
\* has gone and is not replaced yet.
LEMMA FreshWorker ==
  ASSUME IInv, ~stopping, NEW w \in Present, proc[w] = "dead"
  PROVE  \E n \in Worker : seen[n] = "none"
<1> SUFFICES ASSUME \A n \in Worker : seen[n] # "none" PROVE FALSE
  OBVIOUS
<1>1. /\ workers \in 0 .. MaxWorkers /\ crashes \in 0 .. MaxCrashes
      /\ seen \in [Worker -> {"none", "forked", "online", "gone"}]
      /\ Cardinality(Present) <= workers
  BY DEF IInv, TypeOK
<1>2. Worker = Present \cup Gone /\ w \in Worker /\ w \notin Gone
  BY <1>1 DEF Present, Gone
<1>3. Gone \cup {w} \subseteq Doomed
  BY <1>2 DEF IInv, Processes, Gone, Doomed
<1>4. Doomed \subseteq Worker /\ Gone \subseteq Worker /\ Present \subseteq Worker
  BY DEF Doomed, Gone, Present
<1>5. /\ Cardinality(Gone \cup {w}) = Cardinality(Gone) + 1
      /\ Cardinality(Gone \cup {w}) <= Cardinality(Doomed)
  BY <1>2, <1>3, <1>4, OneMore, Fewer
<1>6. Cardinality(Doomed) <= crashes + workers
  <2>1. Cardinality(Doomed) <= crashes + (IF "close" \in listeners THEN workers ELSE 0)
    BY DEF IInv, DoomedByCrashOrClose
  <2>2. Cardinality(Doomed) \in Nat
    BY <1>4, Counts
  <2> QED
    BY <1>1, <2>1, <2>2, SizeAssumption
<1>7. /\ IsFiniteSet(Present) /\ Cardinality(Present) \in Nat
      /\ IsFiniteSet(Gone) /\ Cardinality(Gone) \in Nat
      /\ Cardinality(Doomed) \in Nat
  BY <1>4, Counts
<1>8. Cardinality(Worker) = Cardinality(Present) + Cardinality(Gone)
  <2>1. Present \cap Gone = {}
    BY DEF Present, Gone
  <2>2. Cardinality(Present \cup Gone) = Cardinality(Present) + Cardinality(Gone) - Cardinality(Present \cap Gone)
    BY <1>7, FS_Union
  <2> QED
    BY <1>2, <1>7, <2>1, <2>2, FS_EmptySet
<1>9. Cardinality(Worker) = 2 * MaxWorkers + MaxCrashes
  <2>1. Cardinality(Worker) = IF 1 > 2 * MaxWorkers + MaxCrashes THEN 0 ELSE 2 * MaxWorkers + MaxCrashes - 1 + 1
    BY SizeAssumption, FS_Interval DEF Worker
  <2> QED
    BY <2>1, SizeAssumption
<1> QED
  BY <1>1, <1>5, <1>6, <1>7, <1>8, <1>9, SizeAssumption

\* How often the shutdown events were dispatched.
LEMMA CountIs == ASSUME shutdowns \in 0 .. MaxShutdowns, NEW n \in Nat
                 PROVE  /\ Count(n) \in 0 .. MaxShutdowns
                        /\ n = 0 => Count(n) = shutdowns
                        /\ shutdowns = 0 /\ n = 1 => Count(n) = 1
BY DEF Count, MaxShutdowns

LEMMA Listeners == ASSUME listeners \subseteq {"close", "SIGINT"}
                   PROVE  /\ Cardinality(listeners) \in Nat
                          /\ listeners = {} => Cardinality(listeners) = 0
                          /\ listeners = {"SIGINT"} => Cardinality(listeners) = 1
<1>1. IsFiniteSet({"close", "SIGINT"})
  <2>1. IsFiniteSet({"close"}) /\ {"close", "SIGINT"} = {"close"} \cup {"SIGINT"}
    BY FS_Singleton
  <2> QED
    BY <2>1, FS_AddElement
<1>2. IsFiniteSet(listeners)
  BY <1>1, FS_Subset
<1> QED
  BY <1>2, FS_CardinalityType, FS_EmptySet, FS_Singleton

-----------------------------------------------------------------------------
(* Every step keeps the ledger                                             *)

LEMMA InitIInv == Init => IInv
<1> SUFFICES ASSUME Init PROVE IInv
  OBVIOUS
<1>1. Present = {} /\ Online = {} /\ Doomed = {}
  BY DEF Init, Present, Online, Doomed, Alive
<1>2. workers \in 0 .. MaxWorkers /\ workers \in Nat
  BY SizeAssumption DEF Init
<1>3. TypeOK
  <2>1. Cardinality(Present) <= workers
    BY <1>1, <1>2, FS_EmptySet
  <2>2. /\ seen \in [Worker -> {"none", "forked", "online", "gone"}]
        /\ proc \in [Worker -> {"none", "starting", "listening", "stopping", "dead"}]
    BY DEF Init
  <2>3. /\ 0 \in 0 .. MaxShutdowns /\ 0 \in 0 .. MaxCrashes
        /\ 0 \in Int /\ 0 \in Nat /\ 0 <= workers
    BY <1>2, SizeAssumption DEF MaxShutdowns
  <2> QED
    BY <1>2, <2>1, <2>2, <2>3 DEF Init, TypeOK
<1>4. CountExact
  BY <1>1, FS_EmptySet DEF Init, CountExact
<1>5. DoomedByCrashOrClose
  BY <1>1, FS_EmptySet DEF Init, DoomedByCrashOrClose
<1>6. Processes /\ BeforeStart /\ Replaced /\ NoLatecomers /\ Emptied /\ Once
  BY DEF Init, Processes, BeforeStart, Replaced, NoLatecomers, Emptied, Once
<1> QED
  BY <1>3, <1>4, <1>5, <1>6 DEF IInv

\* start(): as many workers as configured, or none.
LEMMA StartInv == ASSUME IInv, Start PROVE IInv'
<1>1. /\ master = "booting" /\ master' = IF IsCluster THEN "waiting" ELSE "up"
      /\ seen' = [w \in Worker |-> IF w \in Forks THEN "forked" ELSE "none"]
      /\ proc' = [w \in Worker |-> IF w \in Forks THEN "starting" ELSE "none"]
      /\ UNCHANGED <<workers, onlineWorkers, early, inbox, stopping, listeners, resolving,
                     closed, shutdowns, unready, crashes>>
  BY DEF Start, stops
<1>2. /\ TypeOK /\ ~stopping /\ listeners = {} /\ inbox = {} /\ shutdowns = 0
      /\ \A w \in Worker : seen[w] = "none" /\ proc[w] = "none"
  BY <1>1 DEF IInv, BeforeStart, Processes
<1>3. workers \in 0 .. MaxWorkers /\ workers \in Nat /\ crashes \in Nat
  BY <1>2, SizeAssumption DEF TypeOK
<1>4. Present' = Forks /\ Online' = {} /\ Online = {} /\ Doomed' = {}
  <2>1. Forks \subseteq Worker
    BY <1>3, FirstForks DEF Forks
  <2> QED
    BY <1>1, <1>2, <2>1 DEF Present, Online, Doomed
<1>5. Cardinality(Forks) <= workers /\ (IsCluster => Cardinality(Forks) = workers)
  BY <1>3, FirstForks, FS_EmptySet DEF Forks
<1>6. TypeOK'
  BY <1>1, <1>2, <1>4, <1>5 DEF TypeOK
<1>7. CountExact'
  BY <1>1, <1>4 DEF IInv, CountExact
<1>8. DoomedByCrashOrClose'
  BY <1>1, <1>2, <1>3, <1>4, FS_EmptySet DEF DoomedByCrashOrClose
<1>9. Replaced'
  BY <1>1, <1>4, <1>5 DEF Replaced, IsCluster
<1>10. Processes' /\ BeforeStart'
  BY <1>1, <1>2 DEF Processes, BeforeStart, IsCluster, Forks
<1>11. NoLatecomers' /\ Emptied' /\ Once'
  BY <1>1, <1>2 DEF TypeOK, NoLatecomers, Emptied, Once, IsCluster
<1> QED
  BY <1>6, <1>7, <1>8, <1>9, <1>10, <1>11 DEF IInv

\* A worker is online: one more is counted.
LEMMA OnOnlineInv == ASSUME IInv, NEW w \in Worker, OnOnline(w) PROVE IInv'
<1>1. /\ Runs /\ seen[w] = "forked"
      /\ seen' = [seen EXCEPT ![w] = "online"]
      /\ onlineWorkers' = onlineWorkers + 1
      /\ master' = IF master = "waiting" /\ AllOnline THEN "up" ELSE master
      /\ UNCHANGED <<workers, early, proc, inbox, stopping, listeners, resolving,
                     closed, shutdowns, unready, crashes>>
  BY DEF OnOnline, OnlineCount, stops
<1>2. TypeOK /\ CountExact
  BY DEF IInv
<1>3. /\ seen \in [Worker -> {"none", "forked", "online", "gone"}]
      /\ seen'[w] = "online" /\ \A v \in Worker : v # w => seen'[v] = seen[v]
  BY <1>1, <1>2 DEF TypeOK
<1>4. Present' = Present /\ Online' = Online \cup {w} /\ w \notin Online /\ Doomed' = Doomed
  BY <1>1, <1>3 DEF Present, Online, Doomed, Alive
<1>5. /\ Cardinality(Online') = Cardinality(Online) + 1
      /\ Cardinality(Online') <= Cardinality(Present)
      /\ Cardinality(Online') \in Nat /\ Cardinality(Present) \in Nat
  <2>1. Online \subseteq Worker /\ Online' \subseteq Present /\ Present \subseteq Worker
    BY <1>1, <1>3, <1>4 DEF Online, Present
  <2> QED
    BY <1>4, <2>1, OneMore, Fewer, Counts
<1>6. CountExact' /\ onlineWorkers' \in Int /\ onlineWorkers' <= workers
  <2>1. onlineWorkers = Cardinality(Online) - early /\ early \in Nat /\ onlineWorkers \in Int
    BY <1>2 DEF TypeOK, CountExact
  <2>2. onlineWorkers' = Cardinality(Online') - early
    <3>1. Cardinality(Online) \in Nat
      BY Counts DEF Online
    <3> QED
      BY <1>1, <1>5, <2>1, <3>1
  <2>3. workers \in Nat /\ Cardinality(Present) <= workers
    BY <1>2, SizeAssumption DEF TypeOK
  <2> QED
    BY <1>1, <1>5, <2>1, <2>2, <2>3 DEF CountExact
<1>7. TypeOK'
  BY <1>1, <1>2, <1>4, <1>6 DEF TypeOK
<1>8. Processes'
  BY <1>1, <1>3 DEF IInv, Processes
<1>9. IsCluster /\ master \notin {"booting", "killed"} /\ (stopping => unready)
  BY <1>1 DEF IInv, BeforeStart, NoLatecomers, Runs
<1>10. BeforeStart' /\ Replaced' /\ DoomedByCrashOrClose'
  BY <1>1, <1>4, <1>9 DEF IInv, BeforeStart, Replaced, DoomedByCrashOrClose, IsCluster
<1>11. NoLatecomers' /\ Emptied' /\ Once'
  BY <1>1, <1>9 DEF IInv, BeforeStart, NoLatecomers, Emptied, Once, IsCluster, TypeOK
<1> QED
  BY <1>6, <1>7, <1>8, <1>10, <1>11 DEF IInv

\* A worker has gone: one less is counted, and one is forked unless the
\* server stops.
LEMMA OnExitInv == ASSUME IInv, NEW w \in Worker, OnExit(w) PROVE IInv'
<1> DEFINE next == CHOOSE n \in Worker : seen[n] = "none"
<1>1. /\ Runs /\ w \in Present /\ proc[w] = "dead"
      /\ onlineWorkers' = onlineWorkers - 1
      /\ early' = IF seen[w] = "forked" THEN early + 1 ELSE early
      /\ IF ~stopping
         THEN /\ seen' = [seen EXCEPT ![w] = "gone", ![next] = "forked"]
              /\ proc' = [proc EXCEPT ![next] = "starting"]
         ELSE seen' = [seen EXCEPT ![w] = "gone"] /\ proc' = proc
      /\ IF onlineWorkers = 1
         THEN resolving' = listeners /\ shutdowns' = Count(Cardinality(listeners))
         ELSE resolving' = resolving /\ shutdowns' = shutdowns
      /\ UNCHANGED <<workers, master, inbox, stopping, listeners, closed, unready, crashes>>
  BY DEF OnExit, Replaces, Offline
<1>2. TypeOK /\ CountExact /\ Processes /\ BeforeStart
  BY DEF IInv
<1>3. seen[w] \in {"forked", "online"} /\ IsCluster /\ master \notin {"booting", "killed"}
  BY <1>1, <1>2 DEF Present, BeforeStart, Runs
<1>4. ~stopping => next \in Worker /\ seen[next] = "none" /\ next # w
  <2>1. ~stopping => \E n \in Worker : seen[n] = "none"
    BY <1>1, FreshWorker
  <2> QED
    BY <1>3, <2>1
<1> HIDE DEF next
<1>5. /\ seen' \in [Worker -> {"none", "forked", "online", "gone"}]
      /\ proc' \in [Worker -> {"none", "starting", "listening", "stopping", "dead"}]
      /\ seen'[w] = "gone" /\ proc'[w] = "dead"
      /\ \A v \in Worker : v # w /\ (v # next \/ stopping) => seen'[v] = seen[v] /\ proc'[v] = proc[v]
      /\ ~stopping => seen'[next] = "forked" /\ proc'[next] = "starting"
  BY <1>1, <1>2, <1>4 DEF TypeOK
<1>6. Online \subseteq Worker /\ Present \subseteq Worker /\ Doomed \subseteq Worker
  BY DEF Online, Present, Doomed
<1>7. /\ Cardinality(Online) \in Nat /\ Cardinality(Online') \in Nat
      /\ Cardinality(Online') = IF seen[w] = "online" THEN Cardinality(Online) - 1 ELSE Cardinality(Online)
  <2>1. Online' = IF seen[w] = "online" THEN Online \ {w} ELSE Online
    BY <1>3, <1>4, <1>5 DEF Online
  <2>2. seen[w] = "online" => w \in Online
    BY DEF Online
  <2>3. Online' \subseteq Worker
    BY DEF Online
  <2> QED
    BY <1>6, <2>1, <2>2, <2>3, OneLess, Counts
<1>8. CountExact' /\ early' \in Nat /\ onlineWorkers' \in Int
  <2>1. onlineWorkers = Cardinality(Online) - early /\ early \in Nat /\ onlineWorkers \in Int
    BY <1>2 DEF TypeOK, CountExact
  <2>2. onlineWorkers' = Cardinality(Online') - early'
    BY <1>1, <1>3, <1>7, <2>1
  <2> QED
    BY <1>1, <2>1, <2>2 DEF CountExact
<1>9. /\ Cardinality(Present) \in Nat /\ Cardinality(Present') \in Nat
      /\ Cardinality(Present') = IF stopping THEN Cardinality(Present) - 1 ELSE Cardinality(Present)
  <2>1. Present' = IF stopping THEN Present \ {w} ELSE (Present \ {w}) \cup {next}
    BY <1>3, <1>4, <1>5 DEF Present
  <2>2. Cardinality(Present \ {w}) = Cardinality(Present) - 1
    BY <1>1, <1>6, OneLess
  <2>3. ~stopping => Cardinality((Present \ {w}) \cup {next}) = Cardinality(Present \ {w}) + 1
    <3>1. ~stopping => next \notin Present /\ next \in Worker
      BY <1>4 DEF Present
    <3>2. Present \ {w} \subseteq Worker
      BY <1>6
    <3> QED
      BY <3>1, <3>2, OneMore
  <2>4. Cardinality(Present) \in Nat /\ Cardinality(Present') \in Nat
    BY <1>6, Counts DEF Present
  <2> QED
    BY <2>1, <2>2, <2>3, <2>4
<1>10. onlineWorkers' <= workers' /\ Cardinality(Present') <= workers'
  <2>1. workers \in Nat /\ Cardinality(Present) <= workers /\ onlineWorkers \in Int /\ onlineWorkers <= workers
    BY <1>2, SizeAssumption DEF TypeOK
  <2> QED
    BY <1>1, <1>9, <2>1
<1>11. Cardinality(listeners) \in Nat /\ shutdowns \in 0 .. MaxShutdowns
  BY <1>2, Listeners DEF TypeOK
<1>12. TypeOK'
  <2>1. shutdowns' \in 0 .. MaxShutdowns
    BY <1>1, <1>11, CountIs
  <2>2. resolving' \subseteq listeners'
    BY <1>1, <1>2 DEF TypeOK
  <2> QED
    BY <1>1, <1>2, <1>5, <1>8, <1>10, <2>1, <2>2 DEF TypeOK
<1>13. Processes'
  BY <1>1, <1>2, <1>3, <1>4, <1>5 DEF Processes
<1>14. BeforeStart'
  BY <1>1, <1>2, <1>3 DEF BeforeStart, IsCluster
<1>15. Replaced'
  BY <1>1, <1>9 DEF IInv, Replaced, IsCluster
<1>16. DoomedByCrashOrClose'
  <2>1. ~stopping => next \notin inbox
    BY <1>2, <1>4 DEF Processes
  <2>2. Doomed' = Doomed
    BY <1>1, <1>2, <1>4, <1>5, <2>1 DEF Doomed, Alive, Processes
  <2> QED
    BY <1>1, <2>2 DEF IInv, DoomedByCrashOrClose
<1>17. NoLatecomers'
  BY <1>1, <1>4, <1>5 DEF IInv, NoLatecomers
<1>18. onlineWorkers \in Int
  BY <1>2 DEF TypeOK
<1>19. Emptied'
  BY <1>1, <1>8, <1>18 DEF IInv, Emptied, IsCluster
<1>20. Once'
  <2> SUFFICES ASSUME ~closed, "close" \notin listeners, ~unready
               PROVE  \/ shutdowns' = 0
                      \/ shutdowns' = 1 /\ IsCluster /\ stopping /\ onlineWorkers' <= 0
    BY <1>1 DEF Once, IsCluster
  <2>1. \/ shutdowns = 0
        \/ shutdowns = 1 /\ stopping /\ onlineWorkers <= 0
    BY <1>3 DEF IInv, Once
  <2>2. listeners = {} \/ (listeners = {"SIGINT"} /\ stopping)
    BY <1>2 DEF TypeOK, BeforeStart
  <2>3. CASE onlineWorkers = 1
    <3>1. shutdowns = 0
      BY <2>1, <2>3
    <3>2. CASE listeners = {}
      BY <1>1, <1>11, <2>3, <3>1, <3>2, CountIs, Listeners
    <3>3. CASE listeners = {"SIGINT"} /\ stopping
      <4>1. Cardinality(listeners) = 1
        BY <1>2, <3>3, Listeners DEF TypeOK
      <4>2. shutdowns' = 1
        BY <1>1, <1>11, <2>3, <3>1, <4>1, CountIs
      <4> QED
        BY <1>1, <1>3, <2>3, <3>3, <4>2
    <3> QED
      BY <2>2, <3>2, <3>3
  <2>4. CASE onlineWorkers # 1
    BY <1>1, <1>3, <1>18, <2>1, <2>4
  <2> QED
    BY <2>3, <2>4
<1> QED
  BY <1>8, <1>12, <1>13, <1>14, <1>15, <1>16, <1>17, <1>19, <1>20 DEF IInv

\* SIGINT: the only process ends, or every worker is told; who is on the way
\* is remembered as unready.
LEMMA SigintInv == ASSUME IInv, Sigint PROVE IInv'
<1>1. /\ master = "up" /\ ~stopping /\ stopping' = TRUE
      /\ IsCluster => /\ listeners' = listeners \cup {"SIGINT"} /\ inbox' = {w \in Present : Alive(w)}
                      /\ unready' = (unready \/ \E w \in Worker : seen[w] = "forked")
                      /\ master' = master /\ shutdowns' = shutdowns
      /\ ~IsCluster => /\ master' = "exited" /\ shutdowns' = Count(1)
                       /\ listeners' = listeners /\ inbox' = inbox /\ unready' = unready
      /\ UNCHANGED <<workers, seen, onlineWorkers, early, proc, resolving, closed, crashes>>
  BY DEF Sigint, StopWorkers, events
<1>2. TypeOK /\ CountExact /\ Processes /\ BeforeStart
  BY DEF IInv
<1>3. Present' = Present /\ Online' = Online /\ (IsCluster' <=> IsCluster)
  BY <1>1 DEF Present, Online, IsCluster
<1>4. inbox' \subseteq Worker /\ \A w \in inbox' : w \in Worker => seen[w] # "none"
  BY <1>1, <1>2 DEF TypeOK, Present, Processes
<1>5. /\ shutdowns' \in 0 .. MaxShutdowns
      /\ shutdowns = 0 => shutdowns' = 0 \/ (shutdowns' = 1 /\ ~IsCluster)
  <2>1. shutdowns \in 0 .. MaxShutdowns
    BY <1>2 DEF TypeOK
  <2> QED
    BY <1>1, <2>1, CountIs
<1>6. listeners' \subseteq {"close", "SIGINT"} /\ resolving' \subseteq listeners'
  BY <1>1, <1>2 DEF TypeOK
<1>7. unready' \in BOOLEAN /\ (~unready' => ~unready)
  BY <1>1, <1>2 DEF TypeOK
<1>8. TypeOK'
  BY <1>1, <1>2, <1>3, <1>4, <1>5, <1>6, <1>7 DEF TypeOK
<1>9. CountExact' /\ Processes'
  BY <1>1, <1>2, <1>3, <1>4 DEF CountExact, Processes
<1>10. BeforeStart'
  BY <1>1, <1>2, <1>3 DEF BeforeStart
<1>11. Replaced' /\ DoomedByCrashOrClose'
  BY <1>1 DEF Replaced, DoomedByCrashOrClose
<1>12. NoLatecomers'
  <2>1. CASE IsCluster
    BY <1>1, <2>1 DEF NoLatecomers
  <2>2. CASE ~IsCluster
    BY <1>1, <1>2, <2>2 DEF NoLatecomers, BeforeStart
  <2> QED
    BY <2>1, <2>2
<1>13. "SIGINT" \notin listeners /\ "SIGINT" \notin resolving
  BY <1>1, <1>2 DEF BeforeStart, TypeOK
<1>14. Emptied'
  BY <1>1, <1>3, <1>13 DEF Emptied
<1>15. Once'
  <2> SUFFICES ASSUME ~closed, "close" \notin listeners', ~unready'
               PROVE  shutdowns' = 0 \/ (shutdowns' = 1 /\ ~IsCluster /\ master' = "exited")
    BY <1>1, <1>3 DEF Once
  <2>1. "close" \notin listeners
    BY <1>1
  <2>2. shutdowns = 0
    BY <1>1, <1>7, <2>1 DEF IInv, Once
  <2> QED
    BY <1>1, <1>5, <2>2
<1> QED
  BY <1>8, <1>9, <1>10, <1>11, <1>12, <1>14, <1>15 DEF IInv

\* close(): as many workers as there are have been told, once.
LEMMA CloseInv == ASSUME IInv, Close PROVE IInv'
<1>1. /\ master = "up" /\ ~closed /\ "close" \notin listeners
      /\ workers = 0 => /\ closed' = TRUE /\ shutdowns' = Count(1)
                        /\ listeners' = listeners /\ inbox' = inbox /\ unready' = unready
      /\ workers # 0 => /\ listeners' = listeners \cup {"close"} /\ inbox' = {w \in Present : Alive(w)}
                        /\ unready' = (unready \/ \E w \in Worker : seen[w] = "forked")
                        /\ closed' = closed /\ shutdowns' = shutdowns
      /\ UNCHANGED <<workers, master, seen, onlineWorkers, early, proc, stopping, resolving, crashes>>
  BY DEF Close, StopWorkers, events
<1>2. TypeOK /\ CountExact /\ Processes /\ BeforeStart
  BY DEF IInv
<1>3. Present' = Present /\ Online' = Online /\ (IsCluster' <=> IsCluster)
  BY <1>1 DEF Present, Online, IsCluster
<1>4. inbox' \subseteq Worker /\ \A w \in inbox' : w \in Worker => seen[w] # "none"
  BY <1>1, <1>2 DEF TypeOK, Present, Processes
<1>5. shutdowns' \in 0 .. MaxShutdowns
  <2>1. shutdowns \in 0 .. MaxShutdowns
    BY <1>2 DEF TypeOK
  <2> QED
    BY <1>1, <2>1, CountIs
<1>6. /\ listeners' \subseteq {"close", "SIGINT"} /\ resolving' \subseteq listeners'
      /\ closed' \in BOOLEAN /\ unready' \in BOOLEAN /\ (~unready' => ~unready)
      /\ "SIGINT" \in listeners' => "SIGINT" \in listeners
  BY <1>1, <1>2 DEF TypeOK
<1>7. TypeOK'
  BY <1>1, <1>2, <1>3, <1>4, <1>5, <1>6 DEF TypeOK
<1>8. CountExact' /\ Processes'
  BY <1>1, <1>2, <1>3, <1>4 DEF CountExact, Processes
<1>9. BeforeStart'
  BY <1>1, <1>2, <1>3, <1>6 DEF BeforeStart
<1>10. Replaced'
  BY <1>1, <1>3 DEF IInv, Replaced
<1>11. DoomedByCrashOrClose'
  <2> SUFFICES ASSUME ~stopping
               PROVE  Cardinality(Doomed') <= crashes + (IF "close" \in listeners' THEN workers ELSE 0)
    BY <1>1 DEF DoomedByCrashOrClose
  <2>1. Cardinality(Doomed) <= crashes
    <3>1. Cardinality(Doomed) <= crashes + 0
      BY <1>1 DEF IInv, DoomedByCrashOrClose
    <3>2. crashes \in Nat
      BY <1>2 DEF TypeOK
    <3> QED
      BY <3>1, <3>2
  <2>2. CASE workers = 0
    <3>1. Doomed' = Doomed /\ listeners' = listeners
      BY <1>1, <2>2 DEF Doomed, Alive
    <3>2. crashes \in Nat
      BY <1>2 DEF TypeOK
    <3> QED
      BY <1>1, <2>1, <3>1, <3>2
  <2>3. CASE workers # 0
    <3>1. Doomed' \subseteq Doomed \cup Present
      BY <1>1, <2>3 DEF Doomed, Alive
    <3>2. Doomed \cup Present \subseteq Worker /\ Doomed \subseteq Worker /\ Present \subseteq Worker
      BY DEF Doomed, Present
    <3>3. /\ IsFiniteSet(Doomed) /\ IsFiniteSet(Present)
          /\ Cardinality(Doomed) \in Nat /\ Cardinality(Present) \in Nat
      BY <3>2, Counts
    <3>4. Cardinality(Doomed \cap Present) \in Nat
      <4>1. Doomed \cap Present \subseteq Worker
        BY <3>2
      <4> QED
        BY <4>1, Counts
    <3>5. Cardinality(Doomed \cup Present) = Cardinality(Doomed) + Cardinality(Present) - Cardinality(Doomed \cap Present)
      BY <3>3, FS_Union
    <3>6. Cardinality(Doomed') <= Cardinality(Doomed \cup Present) /\ Cardinality(Doomed') \in Nat
      <4>1. Doomed' \subseteq Worker
        BY <3>1, <3>2
      <4> QED
        BY <3>1, <3>2, <4>1, Fewer, Counts
    <3>7. crashes \in Nat /\ workers \in Nat /\ Cardinality(Present) <= workers
      BY <1>2, SizeAssumption DEF TypeOK
    <3>8. "close" \in listeners'
      BY <1>1, <2>3
    <3> QED
      BY <2>1, <3>3, <3>4, <3>5, <3>6, <3>7, <3>8
  <2> QED
    BY <2>2, <2>3
<1>12. NoLatecomers'
  BY <1>1, <1>6 DEF IInv, NoLatecomers
<1>13. Emptied'
  BY <1>1, <1>3, <1>6 DEF IInv, Emptied
<1>14. Once'
  <2>1. closed' \/ "close" \in listeners'
    BY <1>1
  <2> QED
    BY <2>1 DEF Once
<1> QED
  BY <1>7, <1>8, <1>9, <1>10, <1>11, <1>12, <1>13, <1>14 DEF IInv

\* The shutdown events have been dispatched.
LEMMA ResolveInv == ASSUME IInv, NEW who, Resolve(who) PROVE IInv'
<1>1. /\ Runs /\ who \in resolving /\ resolving' = resolving \ {who}
      /\ who = "SIGINT" => master' = "exited" /\ closed' = closed /\ shutdowns' = shutdowns
      /\ who # "SIGINT" => closed' = TRUE /\ shutdowns' = Count(1) /\ master' = master
      /\ UNCHANGED <<workers, seen, onlineWorkers, early, proc, inbox, stopping, listeners, unready, crashes>>
  BY DEF Resolve, events
<1>2. TypeOK /\ CountExact /\ Processes /\ BeforeStart
  BY DEF IInv
<1>3. /\ Present' = Present /\ Online' = Online /\ Doomed' = Doomed /\ (IsCluster' <=> IsCluster)
  BY <1>1 DEF Present, Online, Doomed, Alive, IsCluster
<1>4. who \in listeners
  BY <1>1, <1>2 DEF TypeOK
<1>5. shutdowns' \in 0 .. MaxShutdowns
  <2>1. shutdowns \in 0 .. MaxShutdowns
    BY <1>2 DEF TypeOK
  <2> QED
    BY <1>1, <2>1, CountIs
<1>6. TypeOK'
  BY <1>1, <1>2, <1>3, <1>5 DEF TypeOK
<1>7. CountExact' /\ Processes'
  BY <1>1, <1>2, <1>3 DEF CountExact, Processes
<1>8. BeforeStart'
  BY <1>1, <1>2, <1>3, <1>4 DEF BeforeStart
<1>9. Replaced' /\ DoomedByCrashOrClose' /\ NoLatecomers'
  <2>1. master \notin {"booting", "killed"}
    BY <1>1, <1>2, <1>4 DEF BeforeStart, Runs
  <2> QED
    BY <1>1, <1>3, <2>1 DEF IInv, Replaced, DoomedByCrashOrClose, NoLatecomers
<1>10. Emptied'
  BY <1>1, <1>3 DEF IInv, Emptied
<1>11. Once'
  <2>1. CASE who = "SIGINT"
    BY <1>1, <1>3, <2>1 DEF IInv, Once
  <2>2. CASE who # "SIGINT"
    BY <1>1, <2>2 DEF Once
  <2> QED
    BY <2>1, <2>2
<1> QED
  BY <1>6, <1>7, <1>8, <1>9, <1>10, <1>11 DEF IInv

\* SIGTERM ends the master and nothing else.
LEMMA SigtermInv == ASSUME IInv, Sigterm PROVE IInv'
<1>1. /\ master \notin {"exited", "killed"} /\ master' = "killed"
      /\ UNCHANGED <<workers, seen, onlineWorkers, early, proc, inbox, stopping, listeners, resolving, closed,
                     shutdowns, unready, crashes>>
  BY DEF Sigterm, Runs, events, stops
<1>2. /\ Present' = Present /\ Online' = Online /\ Doomed' = Doomed /\ (IsCluster' <=> IsCluster)
  BY <1>1 DEF Present, Online, Doomed, Alive, IsCluster
<1>3. TypeOK' /\ CountExact' /\ Processes'
  BY <1>1, <1>2 DEF IInv, TypeOK, CountExact, Processes
<1>4. BeforeStart' /\ Replaced' /\ DoomedByCrashOrClose' /\ NoLatecomers' /\ Emptied' /\ Once'
  BY <1>1, <1>2 DEF IInv, BeforeStart, Replaced, DoomedByCrashOrClose, NoLatecomers, Emptied, Once
<1> QED
  BY <1>3, <1>4 DEF IInv

\* What a worker does leaves the books of the master alone.
LEMMA WorkerInv ==
  ASSUME IInv,
         UNCHANGED <<workers, master, seen, onlineWorkers, early, stopping, listeners, resolving, closed, shutdowns>>,
         proc' \in [Worker -> {"none", "starting", "listening", "stopping", "dead"}],
         \A w \in Worker : /\ proc'[w] = "none" <=> proc[w] = "none"
                           /\ proc[w] = "dead" => proc'[w] = "dead",
         inbox' \subseteq inbox, unready' \in BOOLEAN, unready => unready',
         crashes' \in 0 .. MaxCrashes,
         \/ Doomed' \subseteq Doomed /\ crashes' = crashes
         \/ \E w \in Worker : Doomed' \subseteq Doomed \cup {w} /\ crashes' = crashes + 1
  PROVE  IInv'
<1>1. TypeOK /\ CountExact /\ Processes /\ BeforeStart
  BY DEF IInv
<1>2. Present' = Present /\ Online' = Online /\ (IsCluster' <=> IsCluster)
  BY DEF Present, Online, IsCluster
<1>3. TypeOK'
  BY <1>1, <1>2 DEF TypeOK
<1>4. CountExact' /\ Processes' /\ BeforeStart' /\ Replaced'
  BY <1>1, <1>2 DEF IInv, CountExact, Processes, BeforeStart, Replaced
<1>5. Cardinality(Doomed') - crashes' <= Cardinality(Doomed) - crashes
  <2>1. Doomed \subseteq Worker /\ Doomed' \subseteq Worker /\ crashes \in Nat
    BY <1>1 DEF Doomed, TypeOK
  <2>2. Cardinality(Doomed) \in Nat /\ Cardinality(Doomed') \in Nat
    BY <2>1, Counts
  <2>3. CASE Doomed' \subseteq Doomed /\ crashes' = crashes
    BY <2>1, <2>2, <2>3, Fewer
  <2>4. ASSUME NEW w \in Worker, Doomed' \subseteq Doomed \cup {w}, crashes' = crashes + 1
        PROVE  Cardinality(Doomed') - crashes' <= Cardinality(Doomed) - crashes
    <3>1. Doomed \cup {w} \subseteq Worker
      BY <2>1
    <3>2. Cardinality(Doomed') <= Cardinality(Doomed \cup {w})
      BY <2>4, <3>1, Fewer
    <3>3. Cardinality(Doomed \cup {w}) <= Cardinality(Doomed) + 1 /\ Cardinality(Doomed \cup {w}) \in Nat
      BY <2>1, <3>1, OneMore, Counts
    <3> QED
      BY <2>1, <2>2, <2>4, <3>2, <3>3
  <2> QED
    BY <2>3, <2>4
<1>6. DoomedByCrashOrClose'
  <2>1. Cardinality(Doomed) \in Nat /\ Cardinality(Doomed') \in Nat /\ crashes \in Nat /\ crashes' \in Nat
    <3>1. Doomed \subseteq Worker /\ Doomed' \subseteq Worker
      BY DEF Doomed
    <3> QED
      BY <1>1, <3>1, Counts DEF TypeOK
  <2>2. workers \in Nat
    BY <1>1, SizeAssumption DEF TypeOK
  <2> QED
    BY <1>5, <2>1, <2>2 DEF IInv, DoomedByCrashOrClose
<1>7. NoLatecomers' /\ Emptied' /\ Once'
  BY <1>2 DEF IInv, NoLatecomers, Emptied, Once
<1> QED
  BY <1>3, <1>4, <1>6, <1>7 DEF IInv

LEMMA WorkerStepInv == ASSUME IInv, NEW w \in Worker, WorkerStep(w) \/ Crash(w) PROVE IInv'
<1>1. TypeOK
  BY DEF IInv
<1>2. CASE Listen(w)
  <2>1. /\ proc[w] = "starting" /\ proc' = [proc EXCEPT ![w] = "listening"]
        /\ UNCHANGED <<workers, master, seen, onlineWorkers, early, inbox, stopping, listeners, resolving,
                       closed, shutdowns, unready, crashes>>
    BY <1>2 DEF Listen, events, stops
  <2>2. /\ proc' \in [Worker -> {"none", "starting", "listening", "stopping", "dead"}]
        /\ proc'[w] = "listening" /\ \A v \in Worker : v # w => proc'[v] = proc[v]
    BY <1>1, <2>1 DEF TypeOK
  <2>3. Doomed' \subseteq Doomed
    BY <2>1, <2>2 DEF Doomed, Alive
  <2>4. unready' \in BOOLEAN /\ crashes' \in 0 .. MaxCrashes
    BY <1>1, <2>1 DEF TypeOK
  <2> QED
    BY <2>1, <2>2, <2>3, <2>4, WorkerInv
<1>3. CASE OnStop(w)
  <2>1. /\ w \in inbox /\ inbox' = inbox \ {w}
        /\ \/ proc[w] = "listening" /\ proc' = [proc EXCEPT ![w] = "stopping"] /\ unready' = unready
           \/ proc' = proc /\ unready' \in {unready, TRUE}
        /\ UNCHANGED <<workers, master, seen, onlineWorkers, early, stopping, listeners, resolving,
                       closed, shutdowns, crashes>>
    BY <1>3 DEF OnStop, events
  <2>2. /\ proc' \in [Worker -> {"none", "starting", "listening", "stopping", "dead"}]
        /\ proc'[w] = proc[w] \/ (proc[w] = "listening" /\ proc'[w] = "stopping")
        /\ \A v \in Worker : v # w => proc'[v] = proc[v]
    BY <1>1, <2>1 DEF TypeOK
  <2>3. Doomed' \subseteq Doomed
    BY <2>1, <2>2 DEF Doomed, Alive
  <2>4. unready' \in BOOLEAN /\ (unready => unready')
    <3>1. unready \in BOOLEAN
      BY <1>1 DEF TypeOK
    <3>2. unready' = unready \/ unready' = TRUE
      BY <2>1
    <3> QED
      BY <3>1, <3>2, Zenon
  <2>5. crashes' \in 0 .. MaxCrashes
    BY <1>1, <2>1 DEF TypeOK
  <2> QED
    BY <2>1, <2>2, <2>3, <2>4, <2>5, WorkerInv
<1>4. CASE Exit(w)
  <2>1. /\ proc[w] = "stopping" /\ proc' = [proc EXCEPT ![w] = "dead"]
        /\ UNCHANGED <<workers, master, seen, onlineWorkers, early, inbox, stopping, listeners, resolving,
                       closed, shutdowns, unready, crashes>>
    BY <1>4 DEF Exit, events, stops
  <2>2. /\ proc' \in [Worker -> {"none", "starting", "listening", "stopping", "dead"}]
        /\ proc'[w] = "dead" /\ \A v \in Worker : v # w => proc'[v] = proc[v]
    BY <1>1, <2>1 DEF TypeOK
  <2>3. Doomed' \subseteq Doomed
    BY <2>1, <2>2 DEF Doomed, Alive
  <2>4. unready' \in BOOLEAN /\ crashes' \in 0 .. MaxCrashes
    BY <1>1, <2>1 DEF TypeOK
  <2> QED
    BY <2>1, <2>2, <2>3, <2>4, WorkerInv
<1>5. CASE Crash(w)
  <2>1. /\ proc[w] \notin {"none", "dead"} /\ crashes < MaxCrashes
        /\ proc' = [proc EXCEPT ![w] = "dead"] /\ crashes' = crashes + 1
        /\ UNCHANGED <<workers, master, seen, onlineWorkers, early, inbox, stopping, listeners, resolving,
                       closed, shutdowns, unready>>
    BY <1>5 DEF Crash, Alive, events, stops
  <2>2. /\ proc' \in [Worker -> {"none", "starting", "listening", "stopping", "dead"}]
        /\ proc'[w] = "dead" /\ \A v \in Worker : v # w => proc'[v] = proc[v]
    BY <1>1, <2>1 DEF TypeOK
  <2>3. Doomed' \subseteq Doomed \cup {w}
    BY <2>1, <2>2 DEF Doomed, Alive
  <2>4. unready' \in BOOLEAN /\ crashes' \in 0 .. MaxCrashes
    BY <1>1, <2>1, SizeAssumption DEF TypeOK
  <2> QED
    BY <2>1, <2>2, <2>3, <2>4, WorkerInv
<1> QED
  BY <1>2, <1>3, <1>4, <1>5 DEF WorkerStep

-----------------------------------------------------------------------------
(* The invariant and what follows from it                                  *)

LEMMA StepIInv == IInv /\ [Next]_vars => IInv'
<1> SUFFICES ASSUME IInv, [Next]_vars PROVE IInv'
  OBVIOUS
<1>1. CASE MasterStep
  BY <1>1, StartInv, OnOnlineInv, OnExitInv, ResolveInv DEF MasterStep
<1>2. CASE Sigint \/ Sigterm \/ Close
  BY <1>2, SigintInv, SigtermInv, CloseInv
<1>3. CASE \E w \in Worker : WorkerStep(w) \/ Crash(w)
  BY <1>3, WorkerStepInv
<1>4. CASE UNCHANGED vars
  <2>1. UNCHANGED <<workers, master, seen, onlineWorkers, early, proc, inbox, stopping, listeners, resolving,
                    closed, shutdowns, unready, crashes>>
    BY <1>4 DEF vars, events, stops
  <2>2. Doomed' = Doomed
    BY <2>1 DEF Doomed, Alive
  <2>3. TypeOK
    BY DEF IInv
  <2> QED
    BY <2>1, <2>2, <2>3, WorkerInv DEF TypeOK
<1> QED
  BY <1>1, <1>2, <1>3, <1>4 DEF Next

\* The inductive invariant holds in every reachable state.
THEOREM Invariance == Spec => []IInv
<1> QED
  BY InitIInv, StepIInv, PTL DEF Spec

\* The master knows how many workers are online, whatever the order in which
\* they come, die and are replaced, and never has more of them than configured.
THEOREM WorkersCounted == Spec => []Counted
<1>1. IInv => Counted
  BY DEF IInv, Counted
<1> QED
  BY Invariance, <1>1, PTL

\* After SIGINT the server is shut down once, and the master is the last to
\* go, when every worker could be told.
THEOREM ShutsDownOrderly == Spec => []OrderlyShutdown
<1>1. IInv => MasterLast
  <2> SUFFICES ASSUME IInv, master = "exited", IsCluster, ~unready, early = 0, NEW w \in Worker
               PROVE  ~Alive(w)
    BY DEF MasterLast
  <2>1. stopping /\ onlineWorkers <= 0
    BY DEF IInv, BeforeStart, Emptied
  <2>2. Online = {}
    <3>1. Online \subseteq Worker
      BY DEF Online
    <3>2. IsFiniteSet(Online) /\ Cardinality(Online) \in Nat
      BY <3>1, Counts
    <3>3. onlineWorkers = Cardinality(Online) - 0
      BY DEF IInv, CountExact
    <3> QED
      BY <2>1, <3>2, <3>3, FS_EmptySet
  <2>3. seen[w] \in {"none", "gone"}
    <3>1. seen[w] \in {"none", "forked", "online", "gone"}
      BY DEF IInv, TypeOK
    <3> QED
      BY <2>1, <2>2, <3>1 DEF IInv, NoLatecomers, Online
  <2> QED
    BY <2>3 DEF IInv, Processes, Alive
<1>2. IInv => ShutdownOnce
  BY DEF IInv, Once, ShutdownOnce
<1>3. IInv => OrderlyShutdown
  BY <1>1, <1>2 DEF OrderlyShutdown
<1> QED
  BY Invariance, <1>3, PTL

=============================================================================
