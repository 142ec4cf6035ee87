------------------------------ MODULE AppServer ------------------------------
(***************************************************************************)
(* packages/framework/src/application-server.ts: start(), close() and the  *)
(* signals of ApplicationServer, with the worker processes of Node's       *)
(* cluster when it is configured for more than one.                        *)
(*                                                                         *)
(* The master hears of a worker by the events `online` and `exit`; a       *)
(* worker hears of the master by the message 'stop'.                       *)
(***************************************************************************)
EXTENDS Integers, FiniteSets

CONSTANTS MaxWorkers,   \* config.workers is at most this
          MaxCrashes    \* bound: workers that die of themselves

ASSUME SizeAssumption == MaxWorkers \in Nat /\ MaxCrashes \in Nat

\* close() restarts each of them once at most.
Worker == 1 .. 2 * MaxWorkers + MaxCrashes

VARIABLES workers,      \* config.workers
          master,       \* booting, waiting for the workers, up; exited, or killed by SIGTERM
          stopping, onlineWorkers,
          seen,         \* what the master has heard of each worker
          proc,         \* what each worker process is doing
          inbox,        \* the workers with a 'stop' on its way
          listeners,    \* who waits in stopWorkers(): the exit listeners it adds
          resolving,    \* those of them that dispatch the shutdown events
          closed,       \* close() has resolved
          shutdowns,    \* how often the master has dispatched onServerShutdown
          crashes,
          early,        \* history: workers that died before they were online
          unready       \* history: a worker could not be told to stop, or was not
                        \* online yet, when the workers were stopped

events == <<seen, onlineWorkers, early>>
stops == <<stopping, listeners, resolving, closed, shutdowns, unready>>
vars == <<workers, master, events, proc, inbox, stops, crashes>>

\* Bound: more are not counted.
MaxShutdowns == 3
Count(n) == IF shutdowns + n > MaxShutdowns THEN MaxShutdowns ELSE shutdowns + n

Alive(w) == proc[w] \notin {"none", "dead"}
Online == {w \in Worker : seen[w] = "online"}
Present == {w \in Worker : seen[w] \in {"forked", "online"}}     \* cluster.workers

TypeOK ==
    /\ workers \in 0 .. MaxWorkers
    /\ master \in {"booting", "waiting", "up", "exited", "killed"}
    /\ onlineWorkers \in Int /\ onlineWorkers <= workers
    /\ seen \in [Worker -> {"none", "forked", "online", "gone"}]
    /\ proc \in [Worker -> {"none", "starting", "listening", "stopping", "dead"}]
    /\ inbox \subseteq Worker /\ early \in Nat
    /\ listeners \subseteq {"close", "SIGINT"} /\ resolving \subseteq listeners
    /\ stopping \in BOOLEAN /\ closed \in BOOLEAN /\ unready \in BOOLEAN
    /\ shutdowns \in 0 .. MaxShutdowns /\ crashes \in 0 .. MaxCrashes
    /\ Cardinality(Present) <= workers

Init ==
    /\ workers \in 0 .. MaxWorkers
    /\ master = "booting" /\ stopping = FALSE /\ onlineWorkers = 0
    /\ seen = [w \in Worker |-> "none"] /\ proc = [w \in Worker |-> "none"]
    /\ inbox = {} /\ listeners = {} /\ resolving = {} /\ closed = FALSE
    /\ shutdowns = 0 /\ crashes = 0 /\ early = 0 /\ unready = FALSE

-----------------------------------------------------------------------------
(* The master                                                              *)

IsCluster == workers > 1
Runs == master \notin {"exited", "killed"}

\* Mutant: `i <= workers`.
Forks_OneMore == IF IsCluster THEN 1 .. workers + 1 ELSE {}

Forks == IF IsCluster THEN 1 .. workers ELSE {}

\* start(): one process, or a fork for each worker and then wait.
Start ==
    /\ master = "booting"
    /\ master' = IF IsCluster THEN "waiting" ELSE "up"
    /\ seen' = [w \in Worker |-> IF w \in Forks THEN "forked" ELSE "none"]
    /\ proc' = [w \in Worker |-> IF w \in Forks THEN "starting" ELSE "none"]
    /\ UNCHANGED <<workers, onlineWorkers, early, inbox, stops, crashes>>

\* Mutant: a worker that comes back is not counted.
OnlineCount_Boot == IF master = "waiting" THEN onlineWorkers + 1 ELSE onlineWorkers

OnlineCount == onlineWorkers + 1

\* Mutant: start() waits for one more.
AllOnline_More == OnlineCount > workers

AllOnline == OnlineCount = workers

\* cluster.on('online'); start() goes on when the number is just right.
OnOnline(w) ==
    /\ Runs /\ seen[w] = "forked" /\ proc[w] # "none"
    /\ seen' = [seen EXCEPT ![w] = "online"]
    /\ onlineWorkers' = OnlineCount
    /\ master' = IF master = "waiting" /\ AllOnline THEN "up" ELSE master
    /\ UNCHANGED <<workers, early, proc, inbox, stops, crashes>>

\* Mutants: the last but one is enough; or any; or the count is looked at
\* before it goes down.
Offline_One == onlineWorkers = 2
Offline_Any == TRUE
Offline_Stale == onlineWorkers = 0

\* The listeners of stopWorkers() run after the count has gone down.
Offline == onlineWorkers = 1

\* Mutant: nobody is replaced.
Replaces_Never == FALSE

Replaces == ~stopping

\* cluster.on('exit') of start(), and those that stopWorkers() added.
OnExit(w) ==
    LET next == CHOOSE n \in Worker : seen[n] = "none"      \* the id of the next fork
    IN
    /\ Runs /\ w \in Present /\ proc[w] = "dead"
    /\ onlineWorkers' = onlineWorkers - 1
    /\ early' = IF seen[w] = "forked" THEN early + 1 ELSE early
    /\ IF Replaces
       THEN /\ seen' = [seen EXCEPT ![w] = "gone", ![next] = "forked"]
            /\ proc' = [proc EXCEPT ![next] = "starting"]
       ELSE seen' = [seen EXCEPT ![w] = "gone"] /\ UNCHANGED proc
    /\ IF Offline
       THEN resolving' = listeners /\ shutdowns' = Count(Cardinality(listeners))
       ELSE UNCHANGED <<resolving, shutdowns>>
    /\ UNCHANGED <<workers, master, inbox, stopping, listeners, closed, unready, crashes>>

\* stopWorkers(): tells everyone there is.
StopWorkers(who) ==
    /\ listeners' = listeners \cup {who}
    /\ inbox' = {w \in Present : Alive(w)}
    /\ unready' = (unready \/ \E w \in Worker : seen[w] = "forked")

\* SIGINT, registered when start() is nearly done; the second one only warns.
Sigint ==
    /\ master = "up" /\ ~stopping
    /\ stopping' = TRUE
    /\ IF IsCluster
       THEN StopWorkers("SIGINT") /\ UNCHANGED <<master, shutdowns>>
       ELSE /\ master' = "exited" /\ shutdowns' = Count(1)
            /\ UNCHANGED <<listeners, inbox, unready>>
    /\ UNCHANGED <<workers, events, proc, resolving, closed, crashes>>

\* `Forced non-graceful shutdown`, from the beginning of start() on.
Sigterm == /\ Runs
           /\ master' = "killed"
           /\ UNCHANGED <<workers, events, proc, inbox, stops, crashes>>

\* close() does not set stopping; with one worker, which is this process, it
\* waits for an exit all the same.
Close ==
    /\ master = "up" /\ ~closed /\ "close" \notin listeners
    /\ IF workers = 0
       THEN /\ closed' = TRUE /\ shutdowns' = Count(1)
            /\ UNCHANGED <<listeners, inbox, unready>>
       ELSE StopWorkers("close") /\ UNCHANGED <<closed, shutdowns>>
    /\ UNCHANGED <<workers, master, events, proc, stopping, resolving, crashes>>

\* The shutdown events are dispatched: SIGINT ends the process, close()
\* dispatches them again.
Resolve(who) ==
    /\ Runs /\ who \in resolving
    /\ resolving' = resolving \ {who}
    /\ IF who = "SIGINT"
       THEN master' = "exited" /\ UNCHANGED <<closed, shutdowns>>
       ELSE closed' = TRUE /\ shutdowns' = Count(1) /\ UNCHANGED master
    /\ UNCHANGED <<workers, events, proc, inbox, stopping, listeners, unready, crashes>>

-----------------------------------------------------------------------------
(* A worker                                                                *)

\* onServerBootstrap is dispatched, and the process listens to messages.
Listen(w) ==
    /\ proc[w] = "starting"
    /\ proc' = [proc EXCEPT ![w] = "listening"]
    /\ UNCHANGED <<workers, master, events, inbox, stops, crashes>>

\* 'stop': the worker shuts down; a message nobody listens to yet is lost, or
\* waits, as the version of Node has it.
OnStop(w) ==
    /\ w \in inbox
    /\ inbox' = inbox \ {w}
    /\ CASE proc[w] = "listening" -> proc' = [proc EXCEPT ![w] = "stopping"] /\ UNCHANGED unready
         [] proc[w] = "starting" -> unready' = TRUE /\ UNCHANGED proc
         [] OTHER -> UNCHANGED <<proc, unready>>
    /\ UNCHANGED <<workers, master, events, stopping, listeners, resolving, closed, shutdowns, crashes>>

\* process.exit(0) after the shutdown events of the worker.
Exit(w) ==
    /\ proc[w] = "stopping"
    /\ proc' = [proc EXCEPT ![w] = "dead"]
    /\ UNCHANGED <<workers, master, events, inbox, stops, crashes>>

Crash(w) ==
    /\ Alive(w) /\ crashes < MaxCrashes
    /\ proc' = [proc EXCEPT ![w] = "dead"]
    /\ crashes' = crashes + 1
    /\ UNCHANGED <<workers, master, events, inbox, stops>>

-----------------------------------------------------------------------------
WorkerStep(w) == Listen(w) \/ OnStop(w) \/ Exit(w)
MasterStep == \/ Start \/ \E w \in Worker : OnOnline(w) \/ OnExit(w)
              \/ \E who \in listeners : Resolve(who)

Next == \/ MasterStep \/ Sigint \/ Sigterm \/ Close
        \/ \E w \in Worker : WorkerStep(w) \/ Crash(w)

\* Processes run, and events arrive.
Spec == /\ Init /\ [][Next]_vars
        /\ WF_vars(MasterStep)
        /\ \A w \in Worker : WF_vars(WorkerStep(w))

-----------------------------------------------------------------------------
(* Properties                                                              *)

\* onlineWorkers counts the workers that are online, less those that died
\* before they were, in whatever order they come, die and come back.
CountExact == onlineWorkers = Cardinality(Online) - early

\* The master knows how many workers it has.
Counted == TypeOK /\ CountExact

\* After SIGINT the master shuts down as the last one, when every worker was
\* online and could be told.
MasterLast ==
    master = "exited" /\ IsCluster /\ ~unready /\ early = 0 => \A w \in Worker : ~Alive(w)

\* Without close() the server is shut down once.
ShutdownOnce == shutdowns > 1 => closed \/ "close" \in listeners \/ unready

\* The server is shut down once, and after its workers.
OrderlyShutdown == MasterLast /\ ShutdownOnce

\* A worker that dies is replaced, until the server stops.
FullStrength ==
    master = "up" /\ IsCluster
        ~> \/ Cardinality({w \in Worker : proc[w] = "listening"}) = workers
           \/ stopping \/ listeners # {} \/ master = "killed"

\* start() ends, unless a worker died before it was online.
Starts == master = "booting" ~> master \in {"up", "killed"} \/ early > 0

\* The server comes up with all its workers, and keeps them.
Serves == Starts /\ FullStrength

\* SIGINT ends the process, unless a worker could not be told, died too early,
\* or is being replaced because of close().
SigintEnds ==
    stopping ~> ~Runs \/ unready \/ early > 0 \/ "close" \in listeners
==============================================================================
