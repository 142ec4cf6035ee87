# Deepkit Framework: TLA+ models, checks and proofs

This directory models the parts of the repository in which several parties act
concurrently and the order of their steps decides whether the result is right:
the locks and announcements of the broker, the transport of RPC messages and
streams, the connection pools of the database drivers, the rounds of an ORM
session, and the processes of an application server. Every definition is
translated from the TypeScript under `src/packages`; `PROJECT.json` names the
lines of each one under `map`.

## The system

Deepkit is a TypeScript framework of some forty packages. Most of them
transform data in one synchronous pass (runtime types, serializers, BSON, SQL
generation, the template engine, the injector, the HTTP router) or run in a
browser. State that lives over time, with several actors, is found in the
following components. All JavaScript runs in turns: a turn is never interrupted,
and what can interleave is messages, timers, and the code behind an `await`.

| component | state | operations | interacts with | hard behaviour | what makes it correct |
|---|---|---|---|---|---|
| process lock, `core/src/process-locker.ts` | global `LOCKS` (name -> queue of waiters); per object `holding`, `ttlTimeout` | `acquire`, `tryLock`, `unlock`, the ttl timer, the timeout timer | called by the broker kernel | timers race grants and unlocks, hand-over inside `unlock` | mutual exclusion; an entry exactly while the name is held; no waiter lost, none granted after it gave up; first come first served; a ttl frees the name |
| broker locks, `broker/src/kernel.ts` | `BrokerConnection.locks` by message id | messages Lock, TryLock, Unlock; `close()` | RPC connection, process lock, client | client or connection dies between request, grant and reply; late Unlock | every held lock can be reached by Unlock and `close()`; nobody ends the lock of another; what dead clients had is freed |
| broker entity fields, `broker/src/kernel.ts`, `client.ts` | `entityFields` counts at the broker; `publishedEntityFields`, `knownEntityFields` at each client | publish, unsubscribe, get; a push to all others that has to be acknowledged | RPC connections in both directions | handlers that await other clients; answers stored later than pushes | the counts on both sides agree; a client ends up with what the broker has; calls return |
| broker channels, same files | subscribers per channel at the broker, callbacks at the client | subscribe, unsubscribe, publish | RPC connections | second subscriber before the first is acknowledged | who has subscribed gets what is published |
| broker key-value, same files | `setStore` | set, get, delete, increment | RPC connections | none: one turn each | - |
| RPC framing, `rpc/src/protocol.ts` | `currentMessage`, `currentMessageSize` | `feed` | sockets, message reader | chunk boundaries anywhere | exactly the messages sent, in order |
| RPC chunks, `rpc/src/protocol.ts`, `writer.ts` | `chunks`, `chunkAcks`, the locals of each waiting `writeFull` | write, receive chunk, receive acknowledgement | both ends of a connection; reconnect | messages of both sides interleave, share ids, and survive a reconnect in part | whole messages once each; one chunk in flight per message; everything arrives |
| RPC client transport, `rpc/src/client/client.ts` | `connected`, `connectionId`, `connectionPromise`, `writer`, the calls that wait | connect, disconnect, send, events of the transport | sockets, message subjects | late events of an old socket; a connect that never settles | one connection, authenticated before it is used; conversations do not change connections; every call ends |
| RPC actions and observables, `rpc/src/server/action.ts`, `client/action.ts` | subscriptions per message id on both sides | return, next, complete, error, subscribe, unsubscribe, disconnect | one connection | an unsubscribe crosses values and ends; ends before the announcement | values complete and in order; both sides clean up; one stream's end disturbs no other |
| RPC peer exchange, `rpc/src/server/kernel.ts` | `registeredPeers`, `myPeerId` | register, deregister, redirect, close | connections | check, await, then register | one connection per peer id |
| RPC entity state, `rpc/src/client/entity-state.ts` | `store` with forks, `onCreation` | register, fork, forget, messages | observables | message before creation; last fork leaves | an entity lives while somebody has a fork |
| MongoDB pool, `mongo/src/client/connection.ts` | `connections`, `reserved`, `queue`, `lastCommand`, idle timers | `getConnection`, `execute`, `release`, close events, transactions | sockets, the resolver and persistence of the adapter | hand-over to a waiter; limit; idle close races a reservation; answers find the call by position | one user per connection; an answer reaches who asked; no leaks; waiters are served; limit kept |
| SQL pools, `sqlite/src/sqlite-adapter.ts`, `sql/src/sql-adapter.ts` | `activeConnections`, `released`, `firstConnection`, `transaction.ended` | `getConnection`, `release`, begin, commit, rollback | database, session | a failed BEGIN, COMMIT or ROLLBACK; two who are given the same connection | what is out is counted and comes back once; a transaction has its connection for itself |
| ORM session, `orm/src/database-session.ts` | `rounds`, `inCommit`, snapshots of the identity map | add, remove, flush, commit, rollback, reset | adapters, listeners, topological sort | listeners that add and remove during a flush; statements and listeners that fail half way; changes and `reset()` during a statement | everything queued is done once; snapshots are what is stored; what is referred to comes first |
| application server, `framework/src/application-server.ts` | `stopping`, `onlineWorkers`, listeners of `stopWorkers` | start, close, SIGINT, SIGTERM, online, exit | Node's cluster, events | workers die, are replaced and come online while the server stops | the count is right; start-up and shut-down end; the master shuts down once, and last |
| workflow and events, `workflow`, `event` | state of a workflow, listeners | apply, dispatch | HTTP, framework | check before the await, set after it | only declared transitions |

The remaining components are listed in `PROJECT.json` with the reason why they
have no module: they keep no state over time, are generated code, pure I/O or
user interface.

## Modules

| module | models | checked by |
|---|---|---|
| `LockService` | what a lock promises: at most one holder per name, never free while somebody waits | `ServiceSpec` of `ProcessLock` |
| `ProcessLock` | `ProcessLock` and `ProcessLocker` | `ProcessLock.cfg`; `BrokerProofs` |
| `BrokerLock` | extends `ProcessLock` by connections, message handlers and clients | `BrokerLock.cfg`; `BrokerProofs` |
| `BrokerEntityFields` | announced entity fields on both sides | `BrokerEntityFields.cfg`; `BrokerProofs` |
| `RpcBufferReader` | `RpcBufferReader.feed` | `MCRpcBufferReader`; `RpcProtocolProofs` |
| `RpcChunk` | `RpcMessageWriter.writeFull`, `RpcMessageReader.gotMessage` | `MCRpcChunk`; `RpcProtocolProofs` |
| `RpcTransporter` | `RpcClientTransporter` and the calls of `RpcBaseClient` that wait for it | `RpcTransporter.cfg`; `RpcTransporterProofs` |
| `RpcObservable` | both sides of an action that returns an Observable or a Subject | `RpcObservable.cfg`; `RpcObservableProofs` |
| `MongoPool` | `MongoConnectionPool`, `MongoConnection`, `MongoDatabaseTransaction`, `MongoClient` | `MCMongoPool`; `MongoPoolProofs` |
| `SqlitePool` | `SQLiteConnectionPool`, `SQLiteDatabaseTransaction` and their callers | `MCSqlitePool`, two cfgs; `DatabaseProofs` |
| `OrmSession` | `DatabaseSession` and its rounds | `MCOrmSession`; `DatabaseProofs` |
| `GroupArraySort` | the topological sort of a round, as recursive functions | with `OrmSession`; `DatabaseProofs` |
| `AppServer` | `ApplicationServer` and the workers of a cluster | `AppServer.cfg`; `AppServerProofs` |
| `QueueLemmas` | facts about sequences used in the proofs of the broker, the protocol, the pools and the observables | - |

Definitions whose comment begins with `Mutant` are variants of the definition
that follows them, wrong in the way a plausible mistake in the code would be.
Each property is known to fail when its mutant (`mutants` in `PROJECT.json`)
replaces the definition; the next-state relations never use them. Where a run checks a conjunction of
named invariants, such as `LockSafe`, every conjunct that is not about types has a
mutant of its own.

### Process lock

`LOCKS` is the set of names that have an entry, `queue[i]` the waiters of an
entry, the other variables are the fields of the lock objects and the timers
their closures hold. A method is one action since it runs in one turn: `unlock`
shifts the next `ourTake` and runs it in the same step (`HandOver`). A timer is a
flag; it may fire at any time after it was armed, which covers all values of
`ttl` and `timeout`. `ProcessLocker` makes a new object for every call; the model
takes an object nothing refers to any more, so that a finite set of objects
stands for calls without end. The timer of a timeout is never cleared in the
code and isn't here: it fires after the grant and then does nothing.

### Broker locks

A lock object stands for one request of a client. `acq` are the requests whose
`.then()` has not run. Microtasks run before the next message or timer, which is
what `Idle` says; the loop of `close()` over its locks is a single macrotask with
one step per lock (`closing`). A client may die at any time, its socket closes
later; a connection may also break while its client lives. A dead client's
messages that are already under way are still handled.

What `DeadClientsReleased` does not cover: a client that dies while it *waits* for
a lock without ttl is granted it later, on a closed connection, and nothing gives it
back. The comment of `BrokerClient.lock` (`client.ts:288`) has a lock without ttl end
when `the process dies`.

### Broker entity fields

The model has one entity; its fields are counted per client at the broker and
per call at the client. A handler that awaits the acknowledgements of the others
is a member of `handlers` and `unacked` the connections it waits for; other
messages are handled meanwhile. A client stores a pushed change in the turn it
arrives (`ReceiveChange`), an answer when the promise continues (`ReceiveReply`,
then `Store`), so that several messages of one chunk of the socket are handed over before
the promises of the answers among them continue. There an answer that is stored late replaces the
fields of a change that came after it: the history variable `stale` has the clients whose last message was such a
change, and `KnownFresh` says nothing of them, until their next message. `lost` is a history
variable too: the counts a closed connection leaves behind.

### RPC framing

The stream is given by the offsets where its messages start. Each buffer the
reader keeps is a piece of the stream that ends with the last byte fed, so a
position stands for it. Reading a size anywhere but at the start of a message
gives `Garbage`. `derailed` is a history variable: a chunk ended inside a size field, or
the callback threw while more messages were to follow (`CallbackThrows`). After that `Framed`
promises nothing, because the code does not: a first chunk of one to three bytes is dropped,
the size of an earlier message is used for one whose size field arrives in two parts, and
what was delivered before the throw is delivered again.

### RPC chunks

Each call of `write()` is a member of `Sends`, with its message id, side and
length; its local variables are functions over `Sends`. Registering for the
acknowledgement and writing the slice are one step, as they are in the code. A
reconnect loses what is on its way, gives both sides a new writer and the server
a new reader; the client keeps its reader, as `RpcClientTransporter` does.
`torn` is a history variable: the client's reader kept a part of a message.

The instance keeps message ids and chunk numbers apart. Where two long messages of
one side have the same id, the acknowledgement callback of the first is replaced and
it never completes; where an upload has the number of a long answer as its id, the
answer's completion deletes the callback of the upload (`protocol.ts:492`); and when the
connection breaks inside a long answer whose number is used again after the reconnect,
slices of two answers are put together. With such ids, `Delivered` and `WholeMessages`
without `torn` do not hold.

### RPC client transport

A socket has a state of its own and delivers its events to the one transporter,
`t`, whose fields are those of `RpcClientTransporter`; the code does not say which
socket an event came from, and neither do the actions. `attempt[s]` is the promise of
the `doConnect()` that made socket `s`. A call that finds an attempt waits for its
promise and then sleeps (`asyncOperation` and the timer in `connect()`), so it looks
again in a later macrotask. `id` is the `connectionId` a call has read; `Continue` is
the check of the reply subject.

`crossed` is a history variable: an event of an old socket has reached the
transporter while it was busy with another, or `disconnect()` was called during an
attempt. Most properties are stated until then, since the code guarantees no more:
after `disconnect()` during the authentication `isConnected()` becomes true although the
socket is closing, and a late `onClose` lets a second socket be opened, of which one is
written to before it has authenticated.

### RPC observables

Stream `i` is the `i`-th subscription of the client, a subject has the stream 1; the
`n`-th value is the number `n`. Both directions keep the order of messages.
`ReturnResult` is `handleAction()` when the method of the action has returned, possibly after
the connection closed (`late`), and then for a subject with a value or an end that
came before the announcement (`early`). An error of the server releases the reply
callback for all streams (`released`). History variables say where the code does
not keep its promise: `again`, a `subscribe()` during or after `disconnect()`, or a second
`disconnect()` (the client always sends it, and the server has no entry left: `No observable to disconnect
found`). `kind` tells a BehaviorSubject, which holds the value that came before its announcement, from a
Subject, which is given it while nobody can listen yet (`FirstValue`, `Had`).

### MongoDB pool

One host. A `Task` is one call that needs a connection: `MongoClient.execute()`, a
query of the resolver, a persistence; tasks with the same `TxnOf` belong to one session
in a transaction. Each action is the code between two awaits. `InPool` is
`pool.connections`; `waits[t]` are the `connectingPromise`s behind `Promise.all` in
`ensureHostsConnected()`; `Giveback` is `release()` of the pool, which hands the
connection to the head of the line or arms the idle timer. A connection that closes
settles no promise, so the task of a pending command stays where it is. `inflight[c]`
are the commands its server has to answer, in order; the answer goes to
`lastCommand[c]`. `Send` is the continuation of everyone who awaited that promise: nobody
looks again, so two calls of one session in a transaction can have two commands in flight
(`connection.ts:377`, although 369 says a command is executed when the queue is empty).

### SQLite pool

The driver is synchronous, so the actions are the pieces between two microtasks.
`Handover` resolves the first waiter, who continues some microtasks later (`Resume`);
`released` is set before. A caller that comes in between finds the first connection
released and takes it (`GetFirst`), which is the finding of the project: two sessions
on one connection, although a comment says that it is exclusive to its transaction.
`raced` records that this, or a transaction with a second connection, has happened.
`first` is never closed and always reused; others are closed when nobody waits.

### ORM session and topological sort

One session, whose flushes follow one another. `rounds` are its rounds, `todo` the
classes to delete or the groups of the sort that are left, `inserts` and `changes` what
the current group writes. `AddItem`, `RemoveItem` and `Modify` may happen at every await of
a flush: they are listeners of the unit of work as well as code that runs concurrently.
`WithIdentityMap` is the field of the session: without it `flush()` queues nothing by itself, and a removed
entity is not marked. At each statement the database executes for all entities, fails when it has done so for some, or
refuses; a listener before it may stop it or throw, one behind it may throw when the rows are written. `Reset` comes at any
await too: a round in commit runs on and is no longer in the list, the next round has no
persistence (`lost`), and the end of `flush()` fails.
`GroupArraySort` is translated as recursive functions, with the set `parents` that all
recursive calls of one `sort()` step share. `Visit` and `EnqueueTo` are numbered by how deep calls
may nest, which the number of entities bounds: every nested `visit()` has one more parent, every nested
`add()` one more entity in the queue. What an entity refers to (`Deps`) does not change. `wanted` is what the last `add()` or `remove()`
asked for; `excused` are the entities the code is known to lose track of: changed
between the comparison and the snapshot, queued in the moment between the last round and
the end of the flush, stopped by a listener, written by a statement that failed or whose listener threw
(the rows are there, the snapshot is not taken, and the next flush writes them again), inserted by a group
whose update failed, removed without an identity map, or part of a rollback.

That what is referred to comes first is no property of the project, because the sort does not have it.
`parents` never shrinks, so that
e1 -> e2, e1 -> e3, e3 -> e2, e2 -> e4 throws a circular dependency although there is none; and
`visit()` returns `minLevel` rather than the level it has used (`group-array-sort.ts:85`),
so that with two entities of one class a dependent can end up in an earlier group than
what it refers to: comments c1 -> user and c2 -> order, order -> user, added c1 first, give the groups
user, c1 c2, order. `MCOrmSession` has both cases as assumptions that TLC evaluates (`FalseCircle`,
`NotTopological`). Nothing in the repository says which order
the groups come in, so `NotTopological` contradicts no text; `FalseCircle` differs from the comment at
`group-array-sort.ts:154` (`@throws CircularDependencyException if a circular dependency has been found`),
and is kept as an evaluated case rather than a run of its own.

### Application server

The master hears of a worker by `online` and `exit`, a worker of the master by `stop`.
`seen[w]` is what the master has heard, `proc[w]` what the process does. A worker that
dies is replaced unless `stopping`. `listeners` are the calls that wait in
`stopWorkers()`, whose exit listeners run after the count has gone down. `early` and
`unready` are history variables: a worker died before it was online; a worker could not be
told to stop because it was not listening yet. `start()` then waits for a count that is
never reached, and a stop may leave a worker behind or wait for ever.

`close()` is modelled with what it does: it does not set `stopping`, so that every worker it stops
is replaced, it may resolve with new workers running, and with `workers = 1`, which forks
none, it waits for an exit that never comes. It is `only used for integration tests`.
SIGTERM ends the master at any time and nothing else (`killed`).

## Runs

| run | instance | shows |
|---|---|---|
| `processlock` | 3 objects, 2 names, ttl and timeout on and off | the state of locks, queues and objects fits (`LockSafe`), no overtaking, the lock implements `LockService`, timers get everybody on |
| `brokerlock` | 2 requests, 2 connections, 1 name | every lock stays reachable and with its owner, the broker only takes steps of `ProcessLock`, dead clients are released |
| `broker_entity_fields` | 2 clients, 1 field, 2 announcements, 1 broken connection | counts agree, clients end up with what the broker has unless a change overtook an answer, calls return |
| `rpc_buffer_reader` | up to 3 messages of 4 to 6 bytes, chunks of every size | exactly the messages that arrived, unless a chunk ended inside a size field or a callback threw |
| `rpc_chunk` | two uploads, an answer, a short message, one reconnect | whole messages, once, one chunk in flight, everything arrives |
| `rpc_transporter` | 3 calls, and a socket for each | until crossed: one authenticated connection; conversations stay; calls are sent or fail |
| `rpc_observable` | 2 subscriptions, a Subject or a BehaviorSubject, 2 values each, any number of `disconnect()` | values complete and in order, ends arrive, who causes errors, nothing left over on either side |
| `mongo_pool` | 2 connections, 4 tasks of which 2 in a transaction | one owner, answers reach who asked, idle timers, leaks, waiters |
| `sqlite_pool` | the same | what is out is counted and comes back; only the first connection is shared; nobody works on a closed one; waiters |
| `sqlite_pool_sticky` | the same | **violated**: a connection that is sticky to a transaction gets a second user |
| `orm_session` | 2 entities of 2 classes, one refers to the other, 1 change each, 2 rounds, an identity map | but for what is excused: snapshots are right, nothing is forgotten or inserted twice |
| `app_server` | 0 to 2 workers, 2 crashes | counts, an orderly shut-down, full strength after start and crashes, SIGINT ends |

The violated property is what a comment of the repository says; the finding in
`PROJECT.json` quotes it. Other disagreements between code and comments that were met are
noted in the sections above and at the hazards.

### Bounds

* Lock: three objects are the fewest with a holder, a waiter and one further
  back (`NoOvertaking`); names do not interact except through `id`, two show that.
  In the composition two requests suffice, since every property is about a holder
  and one other request; longer queues are the matter of `processlock`, and
  the proofs hold for any number.
* Entity fields: one field is enough as counts of fields are independent but for
  the messages they share; two announcements let both clients have the field, or
  one client twice, and both race each other and the taking back.
  `MaxCloses = 1` lets one of the two leave at any time. The proofs hold for any number.
* Framing: the size field has 4 bytes as in the code; messages of 4 to 6 bytes let a
  chunk end before, inside and after every size field, and three messages make the
  loop of `feed` run three times.
* Chunks: two slices per message let every pair of slices and acknowledgements
  cross; two messages in one direction and two in the other cover same-side and
  cross-side interference. One reconnect separates two connections. The proofs hold for any number
  of messages, slices and reconnects.
* Transport: three calls make three sockets, the fewest with an old one, the one in use
  and an attempt. The proofs hold for any number.
* Observables: two streams are the fewest of which one ends while the other goes on; two
  values show order and loss. `disconnect()` is called again with at most three messages under way
  (`MaxUnderway`), which lets it cross the first one, a value and an end. The proofs hold for any number.
* Pools: `maxPoolSize` (`maxConnections`) 1 lets the code open two connections, and four
  tasks are the fewest with both in use and two in line, of one session or of two. The
  proofs about both pools hold for any number. `Drift = 0` stops callers only when
  `activeConnections` has left what is possible without a race.
* Session: two entities that refer to each other in one direction make every kind of
  group; two rounds are one in commit and one that collects; a value changes once. The cfg stops where
  every entity is excused (`CONSTRAINT SomethingLeft`): `excused` never shrinks and the properties say
  nothing of what is in it, so that no state behind such a state can violate them. The proofs
  hold for any entities, with an identity map or without.
* Server: with two workers one can be online while the other is not. Two crashes make
  one worker die and its successor, or both.

### Fairness

* Timers fire once armed (`setTimeout`): weak fairness of `TtlFires` and
  `TimeoutFires`, and of `WakeUp` in the transporter. In the broker a timer has to wait for
  the event loop to be idle, which happens again and again but not for ever: strong
  fairness.
* What is due in the event loop runs: weak fairness of `.then()` continuations, of
  the loop in `close()`, of handlers whose acknowledgements have come, of the
  continuations of a task of a pool, of the steps of the master and of each worker.
* Connections deliver: weak fairness of receiving, per side. An Unlock that was sent
  is handled when the event loop is idle, hence strong fairness of `HandleUnlock`. A
  socket that connects opens or fails, and a server that was asked to authenticate answers
  or its socket closes; a database server answers or its connection closes.
* The socket of a dead process closes: strong fairness of `Close` for those.
* A session ends the transaction it has begun (strong fairness of `End` in the MongoDB
  pool, where a connection that is being used or re-established makes it wait; `LastCall`, then `End` or
  `EndFails`, in the SQLite pool). `EndFails` is never forced.
* Nobody has to call anything: `unlock`, `publishEntityFields`, `write`, `subscribe`, `disconnect`,
  `close` and `ClientUnlocks` have no fairness, no connection has to break and no process has to die.

`CHECK_DEADLOCK FALSE` is set where the system may stop for good: all messages
sent, all calls made, every connection closed, the process ended, or a bound of
the instance reached. Each cfg says which.

## Proofs

TLAPS proves the following for all values of the constants that satisfy the named
assumptions of each module (`OptionsAssumption`, `IdAssumption`, `HeaderAssumption`,
`GarbageAssumption`, `StreamsAssumption`, `ChunkAssumption`, `CallsAssumption`, `NoneAssumption`,
`TxnOfAssumption`, `TaskAssumption`, `SizeAssumption`, `ObservableAssumption`, `BoundsAssumption`,
`ItemAssumption`, `DepsAssumption`, `AbsentAssumption`, `MapAssumption`), which TLC
evaluates on each run.

`BrokerProofs`, the lock. The inductive invariant `IInv` adds to `TypeOK`,
`MutualExclusion`, `EntryIffHeld` and `RejectedHoldsNothing` that a queue has
exactly the pending objects of its name, each once, that a name without an entry
has an empty queue, and that who is pending holds nothing. Neither exclusion nor
the entries are inductive alone: `HandOver` grants the name to whoever is first in
the queue, which preserves them only if that object is pending, holds nothing and
waits for that very name. `PendingIffQueued`, which counts positions, follows from
these with the lemmas of `QueueLemmas` about `RemoveFirst`, `Append` and `Tail`;
`Safe` puts the five parts together. `FirstComeFirstServed` is an action property from
the same invariant, and `Implements` shows that each step maps to a step of `LockService`
or a stutter.

`BrokerProofs`, the broker's locks. `BrokerUsesProcessLock` is the composition: each handler,
`close()` round, timer and continuation is a step of `ProcessLock`, or leaves its
variables alone; hence `BrokerExclusion`. For `Registered` and `Kept` the invariant
`BInv` adds how a grant travels: a pending request waits for its `.then()`, a holder
is in `acq` or in `locks`, `close()` touches closed connections only, a ttl timer
runs only where a ttl was asked for, and a lock without ttl is held from the grant
to the Unlock while its connection stands. `OwnerEnds` is an action property from the same
invariant.

`BrokerProofs`, the entity fields. That the counts of both sides agree is no invariant by itself:
`CountOf`, what the broker has counted of a client, is what the client has, corrected by the queue between
them, and could be anything. It is 0 or 1 because along that queue every field is announced and taken
back in turn (`InTurn`: `Turns` gives the count after each message), which holds since a client sends
a field only when its own count goes from 0 to 1 or back. That count is the number of calls that still have the field
(`CallsCounted`), so that `unsubscribe()` never finds it at 0. A message that is handled then moves the count of the
broker and `CountOf` of one client alike (`Announcing`), and a connection that breaks leaves one count of each field behind at
most (`FewLost`), which keeps the counts of the broker between 0 and the number of clients. The invariant
of `FieldsFresh` says who hears last: unless a handler still owes a client an
answer, the last message under way to it has the fields of the broker; if there is none, and the client is not `stale`, so has the
last answer it has not stored, or else what it knows (`Newest`). Answers given before the entity existed carry nothing, and come before everything else
(`Unborn`, `BlankFirst`), so that skipping them leaves the client with what is true.

`RpcProtocolProofs`, the framing. The invariant relates the position of each buffer to the
number of messages delivered: between two chunks the kept piece starts where the
next message does, `currentMessageSize` is that message's size, and in the loop the
local buffer starts at the message after the last one delivered.

`RpcProtocolProofs`, the chunks. All steps are first reduced to five, variable by variable (`Steps`): a slice or a short
message is written or read, or nothing is that matters to a reader. `WireInv` says what can be on the wire: slices of
messages of this connection only, under the number their writer took, and these numbers differ (`Numbered`), since a
writer is new on each connection and counts. `ReaderInv` then follows a message through three places: its
first g slices are put together under its number (`Assembled`), the others up to the writer's offset are on the wire in order (`Flow`),
the rest is not written yet. So the slice that arrives is always the one that is missing next, and the last one
completes the message; whoever is `Over` has nothing on its way, which is why no message is given twice. Message ids do
not matter for `MessagesWhole`, because the slices are kept by number. A reader that kept a part over a break is excluded (`Intact`): a
new writer counts from 0 and may take the number of the part. `ChunksPaced` needs different ids (`UniqueIds`), as acknowledgements carry nothing else: `PacedInv` counts
the slices of a message in one direction and the answers to it in the other, which are one at most if its writer waits and none if it does not. A
promise is resolved only by the answer to its own message, because it is registered under that message's id
(`Registered`). With equal ids one acknowledgement could resolve the promise of another message.

`RpcTransporterProofs`. Two counts keep the types: a socket in use is one that a call has
attempted, so a call that has not attempted finds an unused one; and every increment of
`connectionId` needs a connection, hence an attempt that resolved, so it never exceeds
their number. Both counts are compared through functions between finite sets. The rest of the
invariant says where the transporter is while nothing has crossed: whichever socket is
connecting or open is the one `connectionPromise` or `writer` points to, an attempt that
is pending belongs to it, and `connected` implies that it has authenticated. Neither
`OneSocket` nor `ConnectedUntilCrossed` is inductive without the other: a second socket is only opened when the
fields say that there is none. `Stays`, which like them speaks of the time until something has crossed, needs the history of a call: the
`connectionId` it has read is at most the current one, and equal only while the socket it
was sent on is still the writer.

`MongoPoolProofs`. The field `transaction` of a connection is the key to all of it: the
holders of a connection whose `transaction` is x belong to x, and a connection without
one has a single holder (`Holding`). `release()` to a waiter overwrites the field with
the waiter's, which is sound because a connection is only given back by its last holder, or by the end of a
transaction that has no running call. `Wire` says that a connection outside a transaction
has at most one command in flight, whose asker is its holder; the part about `Stuck` tasks covers those
whose socket died. `NoPlainLeak` is inductive with these, `IdleTimerMeansIdle` with
`TimerInPool` (a running timer's connection is in the lists, so an object that is used again
has none). `PoolLimit` follows from `MayGrow` as every other step leaves
the lists as they are or makes them smaller.

`DatabaseProofs`, the SQLite pool. The invariant keeps books for each connection (`Books`): who has it finds it
open; one that is on its way to a waiter is still marked as released, one in use is not; several
callers share it only within one transaction, which then is its owner; and a connection that a
transaction keeps is out. They are kept as long as they are sure (`Sure`): for every connection until
something has raced, and for every connection but the first even after that, until a BEGIN has
failed. That second half is what `OnlyFirstIsShared` needs, since a race on the first
connection must not spoil the books of the others. `Accounted` follows with
`Counted`, in which each getConnection() adds one connection to those that are out and each
release() takes one away. `SameHands`, `TakeInv` and `GiveBackInv` carry the argument for steps that move nothing,
take a connection and bring one back.

`DatabaseProofs`, the ORM session. The model's loops are folds, and its two recursions are numbered by depth. TLAPS cannot
instantiate an induction theorem here, so each induction takes the set of the numbers for which the claim holds and
shows that the least one outside does not exist (`UpTo`). That gives `FoldKeeps`: what the body of a loop preserves, the
loop does. From it `EnqueueIs` says what `add()` does to a round, references of references included, and `SortedIs` what
`sort()` gives if it does not throw. An element needs `parents` for that: while its dependencies are visited it is
not added itself (`Later`). The part of `SortedIs` about the order of the groups has the hypothesis `ShallowReferences`: the entities of a
class that has several refer only to their own class and to entities that refer to nothing. For these, `visit()` returns
the group the reference is in, or `minLevel` becomes the number of groups, so that no group that `injectElement()` may
choose is before it (`Behind`); an element that is alone in its class opens a group at the end. Any references between classes with
one entity, many orders with their customers, and trees of one class satisfy the hypothesis. The comments above do not,
and for them the claim is false; nothing that is proved of the session rests on it.

The invariant `SessionInv` follows an entity that is not excused through a flush. `Ordered`: the rounds are
tidy (nothing both added and removed, everything with what it refers to), and what is left to delete or to write is of the
current round. `Matches` is `SnapshotIsStored` at every stage of a group: which of memory, snapshot
and row agree after the comparison, the inserts and the updates. `NothingForgotten` speaks of the moment when a
flush has succeeded, and is not inductive: rounds that listeners add may contradict each other and the round in commit.
`Words` says that the round to come, when it mentions an entity, does with it what was asked for last; and that when
it does not, the round in commit has it among what is due and nothing due undoes it, or it has been done. There is
a lemma for each of these parts and each step. What a statement that fails half way leaves behind is excused
entity by entity, so that the others of the same group keep their invariant.

`AppServerProofs`. The invariant is a ledger of the workers: until SIGINT every worker that goes
is replaced, so that there are as many as configured (`Replaced`), and only crashes and the one
`close()` make them go (`DoomedByCrashOrClose`), which is what bounds the slots. After SIGINT nobody is on the way
to be online, unless a worker could not be told (`NoLatecomers`); so the count only goes down,
passes one once, and says the truth when it is zero (`Emptied`, `Once`). The exactness of the count and the
order of the shut-down are not inductive without these.

`RpcObservableProofs`. What the properties say is about a moment: the arrival of an end, or both
queues empty. The invariant says the same of every moment in between, by what is still in the queues.
`Flow`: the values of a stream that are under way are exactly those between what the client has
had and what the server has sent, in order, and its end is behind all of them. `Requests` and `Orderly`: a
`subscribe` that waits finds a stream nobody has subscribed, an `unsubscribe` finds one whose
`subscribe` came before it, and after `disconnect` comes nothing unless the client has subscribed
or disconnected again. `Subject` has the same for the one stream of a subject, which begins without a request and with
what came before its announcement. `NoReason` keeps, for every message that waits, that the server will not answer
it with an error; without the order of the requests it is not inductive, as one request out of turn is one error.
`ObservableNoErrors`, `ObservableComplete`, `ObservableNoneLeftOver` and the action property `ObservableInOrder`
follow from it.

Only model-checked: everything temporal (`TimersServe`, `DeadClientsReleased`, `Answered`,
`Delivered`, `CallsLeave`, `WaiterServed`, `EndArrives`, `Serves`, `SigintEnds`), because liveness under fairness is out of
the prover's reach.

## Not modelled

* Of the modelled components: `acquire` and `tryLock` on an
  object that already holds (no caller does that); progress trackers; the encoding of messages; entity names (one entity stands for
  all, they share nothing but the connection); a broker client that reconnects; timeouts of calls,
  `dontWaitForConnection` and peers in the transporter; entity subjects and Collections as results
  of actions; several MongoDB hosts and `pool.close()`; two flushes of one session at the
  same time; what becomes of the workers of an application server whose master was killed.
* The PostgreSQL and MySQL pools wrap the pools of their drivers, which are not in the repository.
* `Mutex`, in the file of the process lock, has one user, the profiler store.
* Broker channels and key-value, the peer exchange, entity state and workflows keep state,
  but each change is a single turn, or the interesting step is the check before an await
  that is listed under the hazards. They have no module.
* Runtime types, the type compiler, serializers, BSON, SQL generation, the injector, the
  HTTP router and the template engine make up most of the source. They are
  compilers from one data structure to another, run in one turn, and leave nothing to
  interleave; a model of them would spell out their data. The same holds for user
  interfaces and examples.
* The components without a module, with their reasons, are in `PROJECT.json`.
