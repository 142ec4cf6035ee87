-------------------------- MODULE BrokerEntityFields --------------------------
(***************************************************************************)
(* The fields the clients of a broker have announced for one entity:       *)
(* BrokerClient.publishEntityFields and getEntityFields on one side,       *)
(* BrokerConnection.onMessage and BrokerState (packages/broker/src/        *)
(* kernel.ts) on the other.  Every side counts how often it knows a field; *)
(* only the first and the last announcement of a client go to the broker,  *)
(* and only the first and the last of all clients go to the others.        *)
(*                                                                         *)
(* The handler of an announcement awaits the acknowledgement of every      *)
(* other connection before it replies; other messages are handled          *)
(* meanwhile.  A reply resolves a promise: the client stores it in a       *)
(* microtask, while what the broker sends on its own (routeType server) is *)
(* stored at once.  The socket may hand over several messages before the   *)
(* microtasks run.                                                         *)
(***************************************************************************)
EXTENDS Integers, Sequences, FiniteSets

CONSTANTS Client, Field,
          MaxCalls,      \* bound: calls of publishEntityFields(), of all clients
          MaxCloses      \* bound: connections that break

ASSUME BoundsAssumption == MaxCalls \in Nat /\ MaxCloses \in Nat /\ IsFiniteSet(Client)

\* <<c, n>>: request n of client c.  A call makes at most two requests.
Requests == Client \X (1 .. 2 * MaxCalls + 1)
Counts == 0 .. Cardinality(Client)

VARIABLES fields,        \* state.entityFields of the entity: how many clients have a field
          exists,        \* does state.entityFields have the entity?
          connections,   \* the connections of the broker
          handlers,      \* requests whose handler awaits acknowledgements
          unacked,       \* ... of these connections
          toBroker,      \* messages on their way from a client
          toClient,      \* messages on their way to a client
          published,     \* publishedEntityFields of a client: how many calls have a field
          subs,          \* the calls of publishEntityFields(): their fields and request
          requests,      \* number of requests a client has sent
          unanswered,    \* those whose answer the client has not stored yet
          replies,       \* answers whose promise has been resolved
          known,         \* knownEntityFields of a client
          loaded,        \* getEntityFields() of a client: not called, waiting, done
          lost,          \* history: counts left behind by connections that broke
          stale          \* history: clients whose last message overtook an answer

stateVars == <<fields, exists, handlers, unacked>>
callVars == <<published, subs, requests, loaded>>
fieldsVars == <<stateVars, connections, toBroker, toClient, callVars, unanswered, replies, known, lost, stale>>

FieldsTypeOK ==
    /\ fields \in [Field -> Counts]
    /\ exists \in BOOLEAN
    /\ connections \subseteq Client
    /\ handlers \subseteq Requests
    /\ unacked \in [Requests -> SUBSET Client]
    /\ published \in [Client -> [Field -> 0 .. MaxCalls]]
    /\ \A c \in Client : Len(subs[c]) \in 0 .. MaxCalls
    /\ requests \in [Client -> 0 .. 2 * MaxCalls + 1]
    /\ unanswered \subseteq Requests
    /\ known \in [Client -> SUBSET Field]
    /\ loaded \in [Client -> {"no", "waiting", "yes"}]
    /\ lost \in [Field -> Counts]
    /\ stale \subseteq Client

FieldsInit ==
    /\ fields = [f \in Field |-> 0]
    /\ exists = FALSE
    /\ connections = Client
    /\ handlers = {}
    /\ unacked = [r \in Requests |-> {}]
    /\ toBroker = [c \in Client |-> <<>>]
    /\ toClient = [c \in Client |-> <<>>]
    /\ published = [c \in Client |-> [f \in Field |-> 0]]
    /\ subs = [c \in Client |-> <<>>]
    /\ requests = [c \in Client |-> 0]
    /\ unanswered = {}
    /\ replies = [c \in Client |-> <<>>]
    /\ known = [c \in Client |-> {}]
    /\ loaded = [c \in Client |-> "no"]
    /\ lost = [f \in Field |-> 0]
    /\ stale = {}

Add(m, fs, d) == [f \in Field |-> IF f \in fs THEN m[f] + d ELSE m[f]]
Present(m) == {f \in Field : m[f] > 0}

-----------------------------------------------------------------------------
(* BrokerClient                                                            *)

NextRequest(c) == <<c, requests[c] + 1>>

Send(c, type, fs) ==
    /\ toBroker' = [toBroker EXCEPT ![c] =
                        Append(@, [type |-> type, fields |-> fs, req |-> NextRequest(c)])]
    /\ requests' = [requests EXCEPT ![c] = @ + 1]
    /\ unanswered' = unanswered \cup {NextRequest(c)}

\* All calls of publishEntityFields() so far.
Calls == {r \in Client \X (1 .. MaxCalls) : r[2] \in DOMAIN subs[r[1]]}

\* publishEntityFields(fs): only what this client has not announced goes out,
\* and only then the call waits for the answer.
Publish(c, fs) ==
    LET new == {f \in fs : published[c][f] = 0}
    IN /\ c \in connections
       /\ Cardinality(Calls) < MaxCalls
       /\ published' = [published EXCEPT ![c] = Add(@, fs, 1)]
       /\ subs' = [subs EXCEPT ![c] = Append(@, [fields |-> fs, req |-> IF new # {} THEN NextRequest(c) ELSE <<>>])]
       /\ IF new # {} THEN Send(c, "publish", new) ELSE UNCHANGED <<toBroker, requests, unanswered>>
       /\ UNCHANGED <<stateVars, connections, toClient, loaded, replies, known, lost, stale>>

\* Mutants: everything is taken back at the broker; unsubscribe() can be
\* called again.
Unsubscribe_All(c, k) ==
    LET fs == subs[c][k].fields
    IN /\ c \in connections
       /\ fs # {} /\ subs[c][k].req \notin unanswered
       /\ published' = [published EXCEPT ![c] = Add(@, fs, -1)]
       /\ subs' = [subs EXCEPT ![c][k].fields = {}]
       /\ Send(c, "unsubscribe", fs)
       /\ UNCHANGED <<stateVars, connections, toClient, loaded, replies, known, lost, stale>>

Unsubscribe_Again(c, k) ==
    LET fs == subs[c][k].fields
        last == {f \in fs : published[c][f] = 1}
    IN /\ c \in connections
       /\ fs # {} /\ subs[c][k].req \notin unanswered
       /\ published' = [published EXCEPT ![c] = Add(@, fs, -1)]
       /\ IF last # {} THEN Send(c, "unsubscribe", last) ELSE UNCHANGED <<toBroker, requests, unanswered>>
       /\ UNCHANGED <<stateVars, connections, subs, toClient, loaded, replies, known, lost, stale>>

\* unsubscribe() of what call k has returned, once: what no other call of
\* this client has announced is taken back.
Unsubscribe(c, k) ==
    LET fs == subs[c][k].fields
        last == {f \in fs : published[c][f] = 1}
    IN /\ c \in connections
       /\ fs # {} /\ subs[c][k].req \notin unanswered
       /\ published' = [published EXCEPT ![c] = Add(@, fs, -1)]
       /\ subs' = [subs EXCEPT ![c][k].fields = {}]
       /\ IF last # {} THEN Send(c, "unsubscribe", last) ELSE UNCHANGED <<toBroker, requests, unanswered>>
       /\ UNCHANGED <<stateVars, connections, toClient, loaded, replies, known, lost, stale>>

\* The first getEntityFields().
Load(c) == /\ c \in connections
           /\ loaded[c] = "no"
           /\ loaded' = [loaded EXCEPT ![c] = "waiting"]
           /\ Send(c, "all", {})
           /\ UNCHANGED <<stateVars, connections, published, subs, toClient, replies, known, lost, stale>>

\* The client's socket hands over message m.
Receives(c, type) == /\ toClient[c] # <<>>
                     /\ Head(toClient[c]).type = type
                     /\ toClient' = [toClient EXCEPT ![c] = Tail(@)]

\* Mutant: the message of the broker is not acknowledged.
ReceiveChange_NoAck(c) ==
    /\ Receives(c, "change")
    /\ known' = [known EXCEPT ![c] = Head(toClient[c]).fields]
    /\ stale' = IF replies[c] = <<>> THEN stale \ {c} ELSE stale \cup {c}
    /\ UNCHANGED <<stateVars, connections, toBroker, callVars, unanswered, replies, lost>>

\* onMessage(), routeType server: stored at once and acknowledged.
ReceiveChange(c) ==
    LET m == Head(toClient[c])
    IN /\ Receives(c, "change")
       /\ known' = [known EXCEPT ![c] = m.fields]
       /\ toBroker' = [toBroker EXCEPT ![c] = Append(@, [type |-> "ack", fields |-> {}, req |-> m.req])]
       /\ stale' = IF replies[c] = <<>> THEN stale \ {c} ELSE stale \cup {c}
       /\ UNCHANGED <<stateVars, connections, callVars, unanswered, replies, lost>>

\* The answer to a request resolves the promise of firstThenClose() ...
ReceiveReply(c) ==
    /\ Receives(c, "reply")
    /\ replies' = [replies EXCEPT ![c] = Append(@, Head(toClient[c]))]
    /\ stale' = stale \ {c}
    /\ UNCHANGED <<stateVars, connections, toBroker, callVars, unanswered, known, lost>>

\* ... and what awaits it stores the fields, if the answer has any.
Store(c) ==
    LET m == Head(replies[c])
    IN /\ replies[c] # <<>>
       /\ replies' = [replies EXCEPT ![c] = Tail(@)]
       /\ unanswered' = unanswered \ {m.req}
       /\ known' = [known EXCEPT ![c] = IF m.exists THEN m.fields ELSE @]
       /\ loaded' = [loaded EXCEPT ![c] = IF m.all THEN "yes" ELSE @]
       /\ UNCHANGED <<stateVars, connections, toBroker, toClient, published, subs, requests, lost, stale>>

-----------------------------------------------------------------------------
(* BrokerConnection.onMessage and BrokerState                              *)

Handles(c, types) == /\ toBroker[c] # <<>>
                     /\ Head(toBroker[c]).type \in types

Change(r, fs) == [type |-> "change", fields |-> fs, req |-> r, all |-> FALSE, exists |-> TRUE]
Reply(r, fs, all) == [type |-> "reply", fields |-> fs, req |-> r, all |-> all,
                      exists |-> exists \/ ~all]

\* Mutant: the other clients are told of new fields only.
Changed_New(m) == m.type = "publish" /\ \E f \in m.fields : fields[f] = 0

\* What publishEntityFields() and unsubscribeEntityFields() of the state return.
Changed(m) == \/ m.type = "publish" /\ \E f \in m.fields : fields[f] = 0
              \/ m.type = "unsubscribe" /\ \E f \in m.fields : fields[f] = 1

\* Both announcements: change the counts; if that changes which fields there
\* are send them to all other connections and await their acknowledgements,
\* otherwise reply.
HandleAnnouncement(c) ==
    LET m == Head(toBroker[c])
        new == IF m.type = "publish" THEN Add(fields, m.fields, 1)
               ELSE Add(fields, m.fields \cap Present(fields), -1)
        others == connections \ {c}
    IN /\ Handles(c, {"publish", "unsubscribe"})
       /\ fields' = new
       /\ exists' = (exists \/ m.type = "publish")
       /\ toBroker' = [toBroker EXCEPT ![c] = Tail(@)]
       /\ IF Changed(m)
          THEN /\ handlers' = handlers \cup {m.req}
               /\ unacked' = [unacked EXCEPT ![m.req] = others]
               /\ toClient' = [d \in Client |->
                      IF d \in others THEN Append(toClient[d], Change(m.req, Present(new))) ELSE toClient[d]]
          ELSE /\ toClient' = [toClient EXCEPT ![c] = Append(@, Reply(m.req, Present(new), FALSE))]
               /\ UNCHANGED <<handlers, unacked>>
       /\ UNCHANGED <<connections, callVars, unanswered, replies, known, lost, stale>>

HandleAck(c) ==
    /\ Handles(c, {"ack"})
    /\ unacked' = [unacked EXCEPT ![Head(toBroker[c]).req] = @ \ {c}]
    /\ toBroker' = [toBroker EXCEPT ![c] = Tail(@)]
    /\ UNCHANGED <<fields, exists, handlers, connections, toClient, callVars, unanswered, replies, known, lost, stale>>

\* All acknowledgements are there: reply with the fields as they are now.
FinishHandler(r) ==
    /\ r \in handlers
    /\ unacked[r] = {}
    /\ handlers' = handlers \ {r}
    /\ toClient' = IF r[1] \in connections
                   THEN [toClient EXCEPT ![r[1]] = Append(@, Reply(r, Present(fields), FALSE))]
                   ELSE toClient
    /\ UNCHANGED <<fields, exists, unacked, connections, toBroker, callVars, unanswered, replies, known, lost, stale>>

HandleAll(c) ==
    LET r == Head(toBroker[c]).req
    IN /\ Handles(c, {"all"})
       /\ toBroker' = [toBroker EXCEPT ![c] = Tail(@)]
       /\ toClient' = [toClient EXCEPT ![c] = Append(@, Reply(r, Present(fields), TRUE))]
       /\ UNCHANGED <<stateVars, connections, callVars, unanswered, replies, known, lost, stale>>

\* How many counts of field f at the broker are those of client c: one if it
\* has announced the field, corrected by what is still on its way.
OnItsWay(q, type, f) == Cardinality({k \in DOMAIN q : q[k].type = type /\ f \in q[k].fields})
CountOf(c, f) == (IF published[c][f] > 0 THEN 1 ELSE 0)
                     - OnItsWay(toBroker[c], "publish", f) + OnItsWay(toBroker[c], "unsubscribe", f)

\* A connection breaks.  close() takes nothing back of what it has announced
\* and resolves none of the acknowledgements it owes.
CloseConnection(c) ==
    /\ c \in connections
    /\ Cardinality(Client \ connections) < MaxCloses
    /\ connections' = connections \ {c}
    /\ toBroker' = [toBroker EXCEPT ![c] = <<>>]
    /\ toClient' = [toClient EXCEPT ![c] = <<>>]
    /\ lost' = [f \in Field |-> lost[f] + CountOf(c, f)]
    /\ UNCHANGED <<stateVars, callVars, unanswered, replies, known, stale>>

-----------------------------------------------------------------------------
ClientStep(c) == ReceiveChange(c) \/ ReceiveReply(c) \/ Store(c)
BrokerStep(c) == HandleAnnouncement(c) \/ HandleAck(c) \/ HandleAll(c)

FieldsNext ==
    \/ \E c \in Client : \/ \E fs \in (SUBSET Field) \ {{}} : Publish(c, fs)
                         \/ \E k \in DOMAIN subs[c] : Unsubscribe(c, k)
                         \/ Load(c) \/ ClientStep(c) \/ BrokerStep(c) \/ CloseConnection(c)
    \/ \E r \in Requests : FinishHandler(r)

FieldsSpec == FieldsInit /\ [][FieldsNext]_fieldsVars

\* Messages arrive and what is due runs; nobody has to call anything.  (There
\* are finitely many requests, so each handler that may finish does.)
FieldsFairSpec ==
    /\ FieldsSpec
    /\ \A c \in Client : WF_fieldsVars(ClientStep(c)) /\ WF_fieldsVars(BrokerStep(c))
    /\ WF_fieldsVars(\E r \in Requests : FinishHandler(r))

-----------------------------------------------------------------------------
(* Properties                                                              *)

\* The two levels of counting agree: the broker counts a field once for every
\* connected client that has announced it and not taken it back, and for
\* those that left without taking it back.  So no client's unsubscribe()
\* removes a field another client still has.
CountsAgree == \A f \in Field :
    /\ \A c \in connections : CountOf(c, f) \in {0, 1}
    /\ fields[f] = lost[f] + Cardinality({c \in connections : CountOf(c, f) = 1})

\* The broker and its clients keep well-formed counts that agree.
Consistent == FieldsTypeOK /\ CountsAgree

\* `start streaming all changes to the entity-fields directly to our
\* entityFields map` (client.ts:150-153): a client that has loaded them and
\* has no message or request under way knows exactly the broker's fields.  Not
\* one whose last message was a change, handed over while an answer was still to
\* be stored: the older answer replaces it.
KnownFresh == \A c \in connections \ stale :
    (/\ loaded[c] = "yes" /\ toClient[c] = <<>> /\ replies[c] = <<>>
     /\ \A r \in handlers : r[1] # c)
        => known[c] = Present(fields)

\* publishEntityFields(), its unsubscribe() and getEntityFields() return
\* unless some connection breaks while they wait.
Answered == \A r \in Requests : r \in unanswered ~> r \notin unanswered \/ connections # Client
=============================================================================
