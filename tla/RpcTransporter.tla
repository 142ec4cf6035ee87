--------------------------- MODULE RpcTransporter ---------------------------
(***************************************************************************)
(* packages/rpc/src/client/client.ts: RpcClientTransporter, and the calls  *)
(* of RpcBaseClient that wait for its connection, over the sockets of      *)
(* client-websocket.ts and a server that answers, refuses or goes away.    *)
(*                                                                         *)
(* A handler of a socket and the continuations of the promises it settles  *)
(* run before the next event: one action each.  connect() sleeps before it *)
(* looks again when it has waited for the attempt of somebody else.        *)
(***************************************************************************)
EXTENDS Integers

CONSTANTS Calls,        \* how many messages sendMessage() is asked to send
          None

ASSUME CallsAssumption == Calls \in Nat
ASSUME NoneAssumption == None \notin Int

\* Numbered in the order they are made.
Call == 1 .. Calls

\* A call makes one connection attempt at most, and each has its own socket.
Socket == 1 .. Calls

VARIABLES socket,       \* the state of each socket
          auth,         \* of each open socket: the answer to onHandshake, onAuthenticate
          attempt,      \* of each socket: the promise of its doConnect()
          t,            \* the fields of the transporter
          call,         \* where each call is, its socket or attempt, and its connectionId
          crossed       \* history: an event of an old socket reached the transporter, or
                        \* disconnect() was called during an attempt

vars == <<socket, auth, attempt, t, call, crossed>>

TypeOK ==
    /\ socket \in [Socket -> {"unused", "connecting", "failed", "open", "closing", "closed"}]
    /\ auth \in [Socket -> {"no", "asked", "yes", "refused"}]
    /\ attempt \in [Socket -> {"none", "pending", "resolved", "rejected"}]
    /\ t \in [transportConnection : Socket \cup {None}, writer : Socket \cup {None},
              connected : BOOLEAN, connection : BOOLEAN,
              connectionId : 0 .. Calls, connectionPromise : Socket \cup {None}]
    /\ call \in [Call -> [at : {"new", "connecting", "waiting", "sleeping", "sent", "answered",
                               "continued", "dropped", "failed"},
                          on : Socket \cup {None}, id : 0 .. Calls]]
    /\ crossed \in BOOLEAN
    /\ \A s \in Socket : /\ socket[s] = "unused" <=> attempt[s] = "none"
                         /\ auth[s] = "asked" => attempt[s] = "pending"

Init ==
    /\ socket = [s \in Socket |-> "unused"]
    /\ auth = [s \in Socket |-> "no"]
    /\ attempt = [s \in Socket |-> "none"]
    /\ t = [transportConnection |-> None, writer |-> None, connected |-> FALSE,
            connection |-> FALSE, connectionId |-> 0, connectionPromise |-> None]
    /\ call = [c \in Call |-> [at |-> "new", on |-> None, id |-> 0]]
    /\ crossed = FALSE

-----------------------------------------------------------------------------
(* The transporter                                                         *)

\* Mutant: only the promise is cleared.
OnDisconnect_Promise == [t EXCEPT !.connectionPromise = None]

\* onDisconnect(), whatever socket the event came from.
OnDisconnect ==
    IF t.connected
    THEN [t EXCEPT !.connectionPromise = None, !.connected = FALSE, !.connection = FALSE,
                   !.connectionId = @ + 1]
    ELSE [t EXCEPT !.connectionPromise = None]

\* The transporter is busy with another socket than s.
Crosses(s) == \/ t.connectionPromise \notin {None, s}
              \/ t.connected /\ t.writer # s

\* Mutant: doConnect() forgets the old transport, and leaves it open.
Closing_Not == socket

\* transportConnection.close(): onclose comes later.
Closing == [s \in Socket |-> IF s = t.transportConnection /\ socket[s] = "open"
                             THEN "closing" ELSE socket[s]]

\* Mutant: who has connected leaves its promise where it is.
Settled_Kept(u) == u

\* `finally { delete this.connectionPromise }` of connect(), who made the attempt.
Settled(u) == [u EXCEPT !.connectionPromise = None]

\* What the callers of connect() do when the attempt of s is settled: the one
\* that made it sends, the others sleep; or all of them fail.
Resolve(s, w) ==
    call' = [c \in Call |->
               IF call[c].on = s /\ call[c].at = "connecting"
               THEN [call[c] EXCEPT !.at = "sent", !.on = w]
               ELSE IF call[c].on = s /\ call[c].at = "waiting"
               THEN [call[c] EXCEPT !.at = "sleeping"]
               ELSE call[c]]

\* Nothing more happens to it.
Ended(how) == [at |-> how, on |-> None, id |-> 0]

Reject(s) ==
    IF attempt[s] = "pending"
    THEN /\ attempt' = [attempt EXCEPT ![s] = "rejected"]
         /\ call' = [c \in Call |-> IF call[c].on = s /\ call[c].at \in {"connecting", "waiting"}
                                    THEN Ended("failed") ELSE call[c]]
    ELSE UNCHANGED <<attempt, call>>

-----------------------------------------------------------------------------
(* The events of a socket                                                  *)

\* Mutant: connected as soon as the socket is open.
Taken_Connected(s) == [t EXCEPT !.transportConnection = s, !.writer = s, !.connected = TRUE]

Taken(s) == [t EXCEPT !.transportConnection = s, !.writer = s, !.connected = FALSE]

\* onConnected: the new socket takes over, and onHandshake() or
\* onAuthenticate() ask on it.
Open(s) ==
    /\ socket[s] = "connecting"
    /\ socket' = [socket EXCEPT ![s] = "open"]
    /\ auth' = [auth EXCEPT ![s] = "asked"]
    /\ t' = Taken(s)
    /\ UNCHANGED <<attempt, call, crossed>>

\* A socket that is closing still delivers what is on its way.
Delivers(s) == socket[s] \in {"open", "closing"}

\* The server has accepted: the rest of onConnected, and of connect().
Authenticated(s) ==
    /\ Delivers(s) /\ auth[s] = "asked"
    /\ auth' = [auth EXCEPT ![s] = "yes"]
    /\ attempt' = [attempt EXCEPT ![s] = "resolved"]
    /\ t' = Settled([t EXCEPT !.connected = TRUE, !.connection = TRUE])
    /\ Resolve(s, t.writer)
    /\ UNCHANGED <<socket, crossed>>

\* It refused: the socket stays open.
Refused(s) ==
    /\ Delivers(s) /\ auth[s] = "asked"
    /\ auth' = [auth EXCEPT ![s] = "refused"]
    /\ t' = Settled([t EXCEPT !.connected = FALSE])
    /\ Reject(s)
    /\ UNCHANGED <<socket, crossed>>

\* onError, before onClose.
Error(s) ==
    /\ socket[s] \in {"connecting", "open", "closing"}
    /\ socket' = [socket EXCEPT ![s] = "failed"]
    /\ t' = OnDisconnect
    /\ Reject(s)
    /\ crossed' = (crossed \/ Crosses(s))
    /\ auth' = [auth EXCEPT ![s] = "no"]

\* onClose: nothing settles the attempt.
Close(s) ==
    /\ socket[s] \in {"failed", "open", "closing"}
    /\ socket' = [socket EXCEPT ![s] = "closed"]
    /\ t' = OnDisconnect
    /\ crossed' = (crossed \/ Crosses(s))
    /\ auth' = [auth EXCEPT ![s] = "no"]
    /\ UNCHANGED <<attempt, call>>

\* The reply of the server to a call, on the socket it came from.
Answer(c) ==
    /\ call[c].at = "sent" /\ Delivers(call[c].on)
    /\ call' = [call EXCEPT ![c].at = "answered"]
    /\ UNCHANGED <<socket, auth, attempt, t, crossed>>

-----------------------------------------------------------------------------
(* The client                                                              *)

\* disconnect()
Disconnect ==
    /\ socket' = Closing
    /\ t' = [OnDisconnect EXCEPT !.transportConnection = None]
    /\ crossed' = (crossed \/ \E s \in Socket : attempt[s] = "pending" /\ socket[s] \in {"connecting", "open"})
    /\ UNCHANGED <<auth, attempt, call>>

\* connect() for call c: wait for an attempt, go on, or doConnect().
Connect(c, id) ==
    \/ /\ t.connectionPromise # None
       /\ call' = [call EXCEPT ![c] = [at |-> "waiting", on |-> t.connectionPromise, id |-> id]]
       /\ UNCHANGED <<socket, attempt, t>>
    \/ /\ t.connectionPromise = None /\ t.connected
       /\ call' = [call EXCEPT ![c] = [at |-> "sent", on |-> t.writer, id |-> id]]
       /\ UNCHANGED <<socket, attempt, t>>
    \/ /\ t.connectionPromise = None /\ ~t.connected
       /\ LET s == CHOOSE s \in Socket : socket[s] = "unused" /\ (s = 1 \/ socket[s - 1] # "unused")
          IN  /\ socket' = [Closing EXCEPT ![s] = "connecting"]
              /\ attempt' = [attempt EXCEPT ![s] = "pending"]
              /\ t' = [t EXCEPT !.transportConnection = None, !.connectionPromise = s]
              /\ call' = [call EXCEPT ![c] = [at |-> "connecting", on |-> s, id |-> id]]

\* sendMessage(): at once when connected, or after connect().
SendMessage(c) ==
    /\ call[c].at = "new" /\ \A d \in Call : d < c => call[d].at # "new"
    /\ IF t.connected
       THEN /\ call' = [call EXCEPT ![c] = [at |-> "sent", on |-> t.writer, id |-> t.connectionId]]
            /\ UNCHANGED <<socket, attempt, t>>
       ELSE Connect(c, t.connectionId)
    /\ UNCHANGED <<auth, crossed>>

\* connect() looks again; the call keeps the connectionId it has read before.
WakeUp(c) ==
    /\ call[c].at = "sleeping"
    /\ Connect(c, call[c].id)
    /\ UNCHANGED <<auth, crossed>>

\* Mutant: the conversation goes on over any connection.
SameConnection_Any(c) == TRUE

SameConnection(c) == call[c].id = t.connectionId

\* The continuation of a call's subject: dropped when the connection is not
\* the one it began with.
Continue(c) ==
    /\ call[c].at = "answered"
    /\ call' = [call EXCEPT ![c] = Ended(IF SameConnection(c) THEN "continued" ELSE "dropped")]
    /\ UNCHANGED <<socket, auth, attempt, t, crossed>>

-----------------------------------------------------------------------------
Network(s) == Open(s) \/ Authenticated(s) \/ Refused(s) \/ Error(s)

Next == \/ \E s \in Socket : Network(s) \/ Close(s)
        \/ \E c \in Call : SendMessage(c) \/ WakeUp(c) \/ Answer(c) \/ Continue(c)
        \/ Disconnect

\* A socket opens or fails; a server answers or the socket closes; timers fire.
Fairness == /\ \A s \in Socket : WF_vars(socket[s] = "connecting" /\ Network(s))
                              /\ WF_vars(auth[s] = "asked" /\ (Network(s) \/ Close(s)))
            /\ \A c \in Call : WF_vars(WakeUp(c))

Spec == Init /\ [][Next]_vars /\ Fairness

-----------------------------------------------------------------------------
(* Properties, the first ones for as long as no old socket has interfered  *)

\* isConnected(): `True when fully connected (after successful handshake and
\* authentication)`; and then disconnect() closes this connection, and those
\* who observe `connection` know of it.
ConnectedIsAuthenticated ==
    t.connected => t.writer # None /\ auth[t.writer] = "yes" /\ socket[t.writer] = "open"

ConnectedUntilCrossed ==
    ~crossed => /\ ConnectedIsAuthenticated
                /\ t.connected => t.transportConnection = t.writer /\ t.connection

\* No call reaches a server that has not accepted the client, whoever made
\* the connection and whoever waited for it.
AuthenticatedFirst ==
    [][\A c \in Call : ~crossed /\ call[c].at # "sent" /\ call'[c].at = "sent"
                           => auth'[call'[c].on] = "yes"]_vars

\* No second connection is made while one is there or on its way.
OneSocket ==
    ~crossed => \A s1, s2 \in Socket : {socket[s1], socket[s2]} \subseteq {"connecting", "open"} => s1 = s2

\* What continues a conversation reaches the server that has begun it.
ConversationStays ==
    [][\A c \in Call : ~crossed /\ call[c].at = "answered" /\ call'[c].at = "continued"
                           => call[c].on = t.writer]_vars

\* A call that waits for a connection is sent or fails; it hangs only when the
\* socket of the attempt closed before the server had answered.
Hangs(c) == \E s \in Socket : s = call[c].on /\ attempt[s] = "pending" /\ socket[s] = "closed"

CallsLeave ==
    \A c \in Call : call[c].at \in {"connecting", "waiting", "sleeping"}
                        ~> call[c].at \in {"sent", "failed"} \/ Hangs(c)
=============================================================================
