------------------------ MODULE RpcTransporterProofs ------------------------
(***************************************************************************)
(* Proofs about RpcTransporter, for any number of calls: its types, and    *)
(* what holds for as long as no event of an old socket has interfered.     *)
(*                                                                         *)
(* Two counts bound the numbers.  A call that makes a connection attempt   *)
(* leaves new, waiting and sleeping for ever, so that there is a socket    *)
(* for each attempt; an attempt is resolved once, so that connectionId     *)
(* counts at most the resolved ones.  While nothing has crossed, at most   *)
(* one socket is connecting or open, and it is the one the fields of the   *)
(* transporter speak of.                                                   *)
(***************************************************************************)
EXTENDS RpcTransporter, FiniteSetTheorems, TLAPS

Used == {s \in Socket : socket[s] # "unused"}
Resolved == {s \in Socket : attempt[s] = "resolved"}

\* The calls that can make no attempt any more.
Left == {c \in Call : call[c].at \notin {"new", "waiting", "sleeping"}}

\* Sockets are used in their order, each by a call of its own.
SocketsForCalls == \E k \in 0 .. Calls : Used = 1 .. k /\ k <= Cardinality(Left)

\* Every connection had its attempt.
IdsCounted == IF t.connected THEN t.connectionId + 1 <= Cardinality(Resolved)
                             ELSE t.connectionId <= Cardinality(Resolved)

Earlier == \A c \in Call : call[c].id <= t.connectionId

Opening == \A s \in Socket : socket[s] = "connecting" => attempt[s] = "pending"

\* The connection that is there.
Up == t.connected =>
        /\ t.writer \in Socket /\ t.transportConnection = t.writer
        /\ t.connection /\ t.connectionPromise = None
        /\ auth[t.writer] = "yes" /\ socket[t.writer] = "open"

\* The attempt that is under way.
Pending == \A s \in Socket : t.connectionPromise = s =>
              /\ attempt[s] = "pending"
              /\ \/ socket[s] = "connecting" /\ t.transportConnection = None
                 \/ socket[s] = "open" /\ t.transportConnection = s

\* There is no other socket that matters.
NoOther == \A s \in Socket :
              /\ socket[s] = "connecting" => t.connectionPromise = s
              /\ socket[s] = "open" => t.transportConnection = s
              /\ auth[s] = "asked" => t.connectionPromise = s /\ t.writer = s /\ socket[s] = "open"
              /\ attempt[s] = "pending" /\ socket[s] = "open" => t.connectionPromise = s

\* Conversations of this connection are on it.
Current == \A c \in Call : /\ call[c].at \in {"sent", "answered"}
                           /\ call[c].id = t.connectionId
                           => t.connected /\ call[c].on = t.writer

IInv == /\ TypeOK
        /\ SocketsForCalls
        /\ IdsCounted
        /\ Earlier /\ Opening
        /\ ~crossed => Up /\ Pending /\ NoOther /\ Current

Fields == [transportConnection : Socket \cup {None}, writer : Socket \cup {None},
           connected : BOOLEAN, connection : BOOLEAN,
           connectionId : 0 .. Calls, connectionPromise : Socket \cup {None}]

CallFields == [at : {"new", "connecting", "waiting", "sleeping", "sent", "answered",
                     "continued", "dropped", "failed"},
               on : Socket \cup {None}, id : 0 .. Calls]

-----------------------------------------------------------------------------
(* Counting                                                                *)

LEMMA SubsetCount == ASSUME NEW S \in SUBSET (1 .. Calls)
                     PROVE  IsFiniteSet(S) /\ Cardinality(S) \in 0 .. Calls
<1>1. IsFiniteSet(1 .. Calls) /\ Cardinality(1 .. Calls) = Calls
  BY FS_Interval, CallsAssumption
<1>2. IsFiniteSet(S) /\ Cardinality(S) <= Calls
  BY <1>1, FS_Subset
<1>3. Cardinality(S) \in Nat
  BY <1>2, FS_CardinalityType
<1> QED
  BY <1>2, <1>3, CallsAssumption

LEMMA MoreCount == ASSUME NEW T \in SUBSET (1 .. Calls), NEW S \in SUBSET T
                   PROVE  /\ Cardinality(S) <= Cardinality(T)
                          /\ \A x \in T : x \notin S => Cardinality(S) + 1 <= Cardinality(T)
<1>1. IsFiniteSet(S) /\ IsFiniteSet(T) /\ Cardinality(S) \in Nat /\ Cardinality(T) \in Nat
  BY SubsetCount, FS_CardinalityType
<1>2. Cardinality(S) <= Cardinality(T) /\ (Cardinality(S) = Cardinality(T) => S = T)
  BY <1>1, FS_Subset
<1> QED
  BY <1>1, <1>2

\* A step that takes no socket into use and brings no call back.
LEMMA SocketsKept == ASSUME SocketsForCalls,
                            \A s \in Socket : socket'[s] = "unused" <=> socket[s] = "unused",
                            \A c \in Left : call'[c].at \notin {"new", "waiting", "sleeping"}
                     PROVE  SocketsForCalls'
<1>1. PICK k \in 0 .. Calls : Used = 1 .. k /\ k <= Cardinality(Left)
  BY DEF SocketsForCalls
<1>2. Used' = Used
  BY DEF Used
<1>3. Left \in SUBSET Left' /\ Left' \in SUBSET (1 .. Calls)
  BY DEF Left, Call
<1>4. Cardinality(Left) <= Cardinality(Left') /\ Cardinality(Left) \in Int /\ Cardinality(Left') \in Int
  BY <1>3, MoreCount, SubsetCount
<1>5. Used' = 1 .. k /\ k <= Cardinality(Left')
  BY <1>1, <1>2, <1>4
<1> QED
  BY <1>5 DEF SocketsForCalls

\* A step that makes no connection, and counts the one that ends.
LEMMA IdsKept == ASSUME TypeOK, IdsCounted, Resolved \subseteq Resolved',
                        t'.connected = TRUE => t.connected = TRUE,
                        \/ t'.connectionId = t.connectionId
                        \/ t'.connectionId = t.connectionId + 1 /\ t.connected /\ ~t'.connected
                 PROVE  IdsCounted' /\ t'.connectionId \in 0 .. Calls
<1>1. Resolved' \in SUBSET (1 .. Calls) /\ Resolved \in SUBSET Resolved'
  BY DEF Resolved, Socket
<1>2. /\ Cardinality(Resolved) <= Cardinality(Resolved')
      /\ Cardinality(Resolved) \in 0 .. Calls /\ Cardinality(Resolved') \in 0 .. Calls
  BY <1>1, MoreCount, SubsetCount
<1>3. t.connectionId \in 0 .. Calls /\ t.connected \in BOOLEAN
  BY DEF TypeOK
<1> QED
  BY <1>2, <1>3, CallsAssumption DEF IdsCounted

LEMMA OnDisconnectIs ==
  ASSUME TypeOK, IdsCounted
  PROVE  /\ OnDisconnect \in Fields
         /\ OnDisconnect.connectionPromise = None /\ OnDisconnect.connected = FALSE
         /\ OnDisconnect.writer = t.writer
         /\ OnDisconnect.transportConnection = t.transportConnection
         /\ OnDisconnect.connectionId = IF t.connected THEN t.connectionId + 1 ELSE t.connectionId
<1>1. t \in Fields
  BY DEF TypeOK, Fields, CallFields
<1>2. Resolved \in SUBSET (1 .. Calls)
  BY DEF Resolved, Socket
<1>3. Cardinality(Resolved) \in 0 .. Calls
  BY <1>2, SubsetCount
<1>4. t.connected => t.connectionId + 1 \in 0 .. Calls
  BY <1>1, <1>3, CallsAssumption DEF IdsCounted, Fields
<1> QED
  BY <1>1, <1>4 DEF OnDisconnect, Fields

-----------------------------------------------------------------------------
(* Nothing has happened yet                                                *)

LEMMA InitInv == Init => IInv
<1> SUFFICES ASSUME Init PROVE IInv
  OBVIOUS
<1>1. TypeOK
  <2> 0 \in 0 .. Calls
    BY CallsAssumption
  <2>1. t \in Fields /\ crossed \in BOOLEAN
    BY DEF Init, Fields
  <2>2. \A c \in Call : call[c] \in [at : {"new"}, on : {None}, id : 0 .. Calls]
    BY CallsAssumption DEF Init
  <2>3. call \in [Call -> CallFields]
    BY <2>2 DEF Init, CallFields
  <2> QED
    BY <2>1, <2>3 DEF Init, TypeOK, Fields, CallFields
<1>2. Left = {} /\ Used = {} /\ Resolved = {}
  BY DEF Init, Left, Used, Resolved
<1>3. SocketsForCalls
  <2>1. 0 \in 0 .. Calls /\ 1 .. 0 = {}
    BY CallsAssumption
  <2> QED
    BY <1>2, <2>1, FS_EmptySet DEF SocketsForCalls
<1>4. IdsCounted
  BY <1>2, FS_EmptySet DEF IdsCounted, Init
<1>5. Earlier /\ Opening /\ Up /\ Pending /\ NoOther /\ Current
  BY NoneAssumption DEF Init, Earlier, Opening, Up, Pending, NoOther, Current, Socket
<1> QED
  BY <1>1, <1>3, <1>4, <1>5 DEF IInv

-----------------------------------------------------------------------------
(* The events of a socket                                                  *)

LEMMA OpenInv == ASSUME IInv, NEW s \in Socket, Open(s) PROVE IInv'
<1>1. /\ socket[s] = "connecting" /\ socket' = [socket EXCEPT ![s] = "open"]
      /\ auth' = [auth EXCEPT ![s] = "asked"]
      /\ UNCHANGED <<attempt, call, crossed>>
      /\ t' = [t EXCEPT !.transportConnection = s, !.writer = s, !.connected = FALSE]
  BY DEF Open, Taken
<1>2. /\ t' \in Fields /\ t'.transportConnection = s /\ t'.writer = s /\ t'.connected = FALSE
      /\ t'.connectionPromise = t.connectionPromise /\ t'.connectionId = t.connectionId
  BY <1>1 DEF IInv, TypeOK, Fields
<1>3. TypeOK /\ attempt[s] # "none"
  BY <1>1 DEF IInv, TypeOK
<1>4. TypeOK'
  <2>1. /\ socket' \in [Socket -> {"unused", "connecting", "failed", "open", "closing", "closed"}]
        /\ auth' \in [Socket -> {"no", "asked", "yes", "refused"}]
    BY <1>1, <1>3 DEF TypeOK
  <2>2. attempt[s] = "pending"
    BY <1>1 DEF IInv, Opening
  <2> QED
    BY <1>1, <1>2, <1>3, <2>1, <2>2 DEF TypeOK, Fields, CallFields
<1>5. SocketsForCalls'
  BY <1>1, <1>3, SocketsKept DEF IInv, TypeOK, Left
<1>6. IdsCounted'
  BY <1>1, <1>2, IdsKept DEF IInv, Resolved
<1>7. Earlier' /\ Opening'
  BY <1>1, <1>2 DEF IInv, Earlier, Opening
<1>8. ASSUME ~crossed'
      PROVE  Up' /\ Pending' /\ NoOther' /\ Current'
  <2>1. Up /\ Pending /\ NoOther /\ Current /\ t.connectionPromise = s
    BY <1>1, <1>8 DEF IInv, NoOther
  <2>2. ~t.connected /\ attempt[s] = "pending" /\ s # None
    BY <1>1, <2>1, NoneAssumption DEF Up, Pending, Socket
  <2>3. \A r \in Socket : r # s => socket[r] \notin {"connecting", "open"} /\ auth[r] # "asked"
    BY <1>1, <2>1, <2>2, NoneAssumption DEF Pending, NoOther, Socket
  <2>4. Up' /\ Pending' /\ NoOther'
    BY <1>1, <1>2, <1>3, <2>1, <2>2, <2>3 DEF Up, Pending, NoOther, TypeOK
  <2>5. Current'
    BY <1>1, <1>2, <2>1, <2>2 DEF Current
  <2> QED
    BY <2>4, <2>5
<1> QED
  BY <1>4, <1>5, <1>6, <1>7, <1>8 DEF IInv

LEMMA AuthenticatedInv == ASSUME IInv, NEW s \in Socket, Authenticated(s) PROVE IInv'
<1>1. /\ Delivers(s) /\ auth[s] = "asked"
      /\ auth' = [auth EXCEPT ![s] = "yes"]
      /\ attempt' = [attempt EXCEPT ![s] = "resolved"]
      /\ t' = [t EXCEPT !.connected = TRUE, !.connection = TRUE, !.connectionPromise = None]
      /\ Resolve(s, t.writer)
      /\ UNCHANGED <<socket, crossed>>
  BY DEF Authenticated, Settled
<1>2. /\ t' \in Fields /\ t'.transportConnection = t.transportConnection /\ t'.writer = t.writer
      /\ t'.connected = TRUE /\ t'.connection = TRUE
      /\ t'.connectionPromise = None /\ t'.connectionId = t.connectionId
  BY <1>1 DEF IInv, TypeOK, Fields
<1>3. /\ TypeOK /\ attempt[s] = "pending" /\ t.writer \in Socket \cup {None}
      /\ t.connectionId \in 0 .. Calls
  BY <1>1 DEF IInv, TypeOK
<1>4. \A c \in Call :
         /\ call'[c] \in CallFields
         /\ call'[c].id = call[c].id
         /\ call'[c].at \in {"sent", "answered"} =>
               \/ call'[c] = call[c]
               \/ call'[c].on = t.writer
         /\ c \in Left => call'[c].at \notin {"new", "waiting", "sleeping"}
  <2> TAKE c \in Call
  <2>1. call[c] \in CallFields
    BY <1>3 DEF TypeOK, CallFields
  <2>2. CASE call[c].on = s /\ call[c].at = "connecting"
    <3>1. call'[c] = [call[c] EXCEPT !.at = "sent", !.on = t.writer]
      BY <1>1, <2>2 DEF Resolve
    <3> QED
      BY <1>3, <2>1, <3>1 DEF CallFields
  <2>3. CASE call[c].on = s /\ call[c].at = "waiting"
    <3>1. call'[c] = [call[c] EXCEPT !.at = "sleeping"]
      BY <1>1, <2>3 DEF Resolve
    <3> QED
      BY <2>1, <2>3, <3>1 DEF CallFields, Left
  <2>4. CASE ~(call[c].on = s /\ call[c].at \in {"connecting", "waiting"})
    <3>1. call'[c] = call[c]
      BY <1>1, <2>4 DEF Resolve
    <3> QED
      BY <2>1, <3>1 DEF Left
  <2> QED
    BY <2>2, <2>3, <2>4
<1>5. TypeOK'
  <2>1. call' \in [Call -> CallFields]
    BY <1>1, <1>4 DEF Resolve
  <2> QED
    BY <1>1, <1>2, <1>3, <2>1 DEF TypeOK, Fields, CallFields
<1>6. SocketsForCalls'
  BY <1>1, <1>4, SocketsKept DEF IInv, Left
<1>7. IdsCounted'
  <2>1. /\ Resolved' \in SUBSET (1 .. Calls) /\ Resolved \in SUBSET Resolved'
        /\ s \in Resolved' /\ s \notin Resolved
    BY <1>1, <1>3 DEF Resolved, Socket, TypeOK
  <2>2. /\ Cardinality(Resolved) + 1 <= Cardinality(Resolved')
        /\ Cardinality(Resolved) \in Int /\ Cardinality(Resolved') \in Int
    BY <2>1, MoreCount, SubsetCount
  <2>3. t.connectionId <= Cardinality(Resolved)
    BY <1>3, <2>2 DEF IInv, IdsCounted
  <2> QED
    BY <1>2, <1>3, <2>2, <2>3 DEF IdsCounted
<1>8. Earlier' /\ Opening'
  <2>1. Earlier'
    BY <1>2, <1>4 DEF IInv, Earlier
  <2>2. socket[s] # "connecting"
    BY <1>1 DEF Delivers
  <2>3. Opening'
    BY <1>1, <2>2 DEF IInv, Opening, TypeOK
  <2> QED
    BY <2>1, <2>3
<1>9. ASSUME ~crossed'
      PROVE  Up' /\ Pending' /\ NoOther' /\ Current'
  <2>1. /\ Up /\ Pending /\ NoOther /\ Current
        /\ t.connectionPromise = s /\ t.writer = s /\ socket[s] = "open"
    BY <1>1, <1>9 DEF IInv, NoOther
  <2>2. t.transportConnection = s /\ s # None /\ ~t.connected
    BY <1>3, <2>1, NoneAssumption DEF Up, Pending, Socket
  <2>3. \A r \in Socket : r # s => socket[r] \notin {"connecting", "open"} /\ auth[r] # "asked"
    BY <2>1, <2>2 DEF NoOther
  <2>4. Up' /\ Pending' /\ NoOther'
    BY <1>1, <1>2, <1>3, <2>1, <2>2, <2>3, NoneAssumption DEF Up, Pending, NoOther, TypeOK, Socket
  <2>5. Current'
    BY <1>2, <1>4, <2>1, <2>2 DEF Current
  <2> QED
    BY <2>4, <2>5
<1> QED
  BY <1>5, <1>6, <1>7, <1>8, <1>9 DEF IInv

\* Reject() settles at most this attempt, and ends the calls that wait for it.
LEMMA RejectIs ==
  ASSUME TypeOK, NEW s \in Socket, Reject(s)
  PROVE  /\ attempt' \in [Socket -> {"none", "pending", "resolved", "rejected"}]
         /\ attempt'[s] # "pending" /\ (attempt'[s] = "none" <=> attempt[s] = "none")
         /\ \A r \in Socket : r # s => attempt'[r] = attempt[r]
         /\ Resolved' = Resolved
         /\ call' \in [Call -> CallFields]
         /\ \A c \in Call : call'[c] = call[c] \/ call'[c] = Ended("failed")
<1>1. CASE attempt[s] = "pending"
  <2>1. /\ attempt' = [attempt EXCEPT ![s] = "rejected"]
        /\ call' = [c \in Call |-> IF call[c].on = s /\ call[c].at \in {"connecting", "waiting"}
                                   THEN Ended("failed") ELSE call[c]]
    BY <1>1 DEF Reject
  <2>2. Ended("failed") \in CallFields
    <3>1. 0 \in 0 .. Calls
      BY CallsAssumption
    <3> QED
      BY <3>1 DEF Ended, CallFields
  <2>3. call' \in [Call -> CallFields] /\ \A c \in Call : call'[c] = call[c] \/ call'[c] = Ended("failed")
    BY <2>1, <2>2 DEF TypeOK, CallFields
  <2> QED
    BY <1>1, <2>1, <2>3 DEF TypeOK, Resolved
<1>2. CASE attempt[s] # "pending"
  BY <1>2 DEF Reject, TypeOK, CallFields, Resolved
<1> QED
  BY <1>1, <1>2

\* What remains to be said of the calls when they only fail.
LEMMA CallsFail ==
  ASSUME IInv, \A c \in Call : call'[c] = call[c] \/ call'[c] = Ended("failed"),
         t'.connectionId \in 0 .. Calls, t.connectionId <= t'.connectionId
  PROVE  /\ Earlier'
         /\ \A c \in Left : call'[c].at \notin {"new", "waiting", "sleeping"}
         /\ \A c \in Call : call'[c].at \in {"sent", "answered"} => call'[c] = call[c]
<1>1. \A c \in Call : call[c].id \in 0 .. Calls /\ call[c].id <= t.connectionId
  BY DEF IInv, TypeOK, Earlier
<1>2. t.connectionId \in 0 .. Calls
  BY DEF IInv, TypeOK
<1>3. \A c \in Call : call'[c].id <= t'.connectionId
  BY <1>1, <1>2, CallsAssumption DEF Ended
<1> QED
  BY <1>3 DEF Earlier, Ended, Left

LEMMA RefusedInv == ASSUME IInv, NEW s \in Socket, Refused(s) PROVE IInv'
<1>1. /\ Delivers(s) /\ auth[s] = "asked" /\ auth' = [auth EXCEPT ![s] = "refused"]
      /\ t' = [t EXCEPT !.connected = FALSE, !.connectionPromise = None]
      /\ Reject(s) /\ UNCHANGED <<socket, crossed>>
  BY DEF Refused, Settled
<1>2. /\ t' \in Fields /\ t'.transportConnection = t.transportConnection /\ t'.writer = t.writer
      /\ t'.connected = FALSE
      /\ t'.connectionPromise = None /\ t'.connectionId = t.connectionId
      /\ t.connectionId \in 0 .. Calls
  BY <1>1 DEF IInv, TypeOK, Fields
<1>3. TypeOK
  BY DEF IInv
<1>4. /\ attempt' \in [Socket -> {"none", "pending", "resolved", "rejected"}]
      /\ attempt'[s] # "pending" /\ (attempt'[s] = "none" <=> attempt[s] = "none")
      /\ \A r \in Socket : r # s => attempt'[r] = attempt[r]
      /\ Resolved' = Resolved
      /\ call' \in [Call -> CallFields]
      /\ \A c \in Call : call'[c] = call[c] \/ call'[c] = Ended("failed")
  BY <1>1, <1>3, RejectIs
<1>5. /\ Earlier'
      /\ \A c \in Left : call'[c].at \notin {"new", "waiting", "sleeping"}
      /\ \A c \in Call : call'[c].at \in {"sent", "answered"} => call'[c] = call[c]
  <2>1. t.connectionId <= t'.connectionId
    BY <1>2
  <2> QED
    BY <1>2, <1>4, <2>1, CallsFail
<1>6. TypeOK'
  BY <1>1, <1>2, <1>3, <1>4 DEF TypeOK, Fields, CallFields
<1>7. SocketsForCalls'
  BY <1>1, <1>5, SocketsKept DEF IInv
<1>8. IdsCounted'
  BY <1>2, <1>3, <1>4, IdsKept DEF IInv
<1>9. Opening'
  BY <1>1, <1>4 DEF IInv, Opening, Delivers
<1>10. ASSUME ~crossed'
       PROVE  Up' /\ Pending' /\ NoOther' /\ Current'
  <2>1. /\ Up /\ Pending /\ NoOther /\ Current
        /\ t.connectionPromise = s /\ t.writer = s /\ socket[s] = "open"
    BY <1>1, <1>10 DEF IInv, NoOther
  <2>2. t.transportConnection = s /\ s # None /\ ~t.connected
    BY <1>3, <2>1, NoneAssumption DEF Up, Pending, Socket
  <2>3. \A r \in Socket : r # s => socket[r] \notin {"connecting", "open"} /\ auth[r] # "asked"
    BY <2>1, <2>2 DEF NoOther
  <2>4. Up' /\ Pending' /\ NoOther'
    BY <1>1, <1>2, <1>3, <1>4, <2>1, <2>2, <2>3, NoneAssumption DEF Up, Pending, NoOther, TypeOK, Socket
  <2>5. Current'
    BY <1>2, <1>5, <2>1, <2>2 DEF Current
  <2> QED
    BY <2>4, <2>5
<1> QED
  BY <1>5, <1>6, <1>7, <1>8, <1>9, <1>10 DEF IInv

\* What an error and a close event have in common: nothing of the socket is
\* left, and the transporter has seen onDisconnect().
LEMMA GoneInv ==
  ASSUME IInv, NEW s \in Socket, NEW end \in {"failed", "closed"},
         socket[s] # "unused", socket' = [socket EXCEPT ![s] = end],
         t' = OnDisconnect, auth' = [auth EXCEPT ![s] = "no"],
         crossed' = (crossed \/ Crosses(s)),
         attempt' \in [Socket -> {"none", "pending", "resolved", "rejected"}],
         attempt'[s] = "none" <=> attempt[s] = "none",
         \A r \in Socket : r # s => attempt'[r] = attempt[r],
         Resolved' = Resolved, call' \in [Call -> CallFields],
         \A c \in Call : call'[c] = call[c] \/ call'[c] = Ended("failed")
  PROVE  IInv'
<1>1. TypeOK /\ IdsCounted
  BY DEF IInv
<1>2. /\ t' \in Fields /\ t'.transportConnection = t.transportConnection /\ t'.writer = t.writer
      /\ t'.connected = FALSE /\ t'.connectionPromise = None
      /\ t'.connectionId = IF t.connected THEN t.connectionId + 1 ELSE t.connectionId
      /\ t.connectionId \in 0 .. Calls /\ t'.connectionId \in 0 .. Calls
      /\ t.connected \in BOOLEAN
  BY <1>1, OnDisconnectIs DEF TypeOK, Fields
<1>3. /\ Earlier'
      /\ \A c \in Left : call'[c].at \notin {"new", "waiting", "sleeping"}
      /\ \A c \in Call : call'[c].at \in {"sent", "answered"} => call'[c] = call[c]
  <2>1. t.connectionId <= t'.connectionId
    BY <1>2, CallsAssumption
  <2> QED
    BY <1>2, <2>1, CallsFail
<1>4. TypeOK'
  <2>1. /\ socket' \in [Socket -> {"unused", "connecting", "failed", "open", "closing", "closed"}]
        /\ auth' \in [Socket -> {"no", "asked", "yes", "refused"}]
        /\ crossed' \in BOOLEAN
    BY <1>1 DEF TypeOK, Crosses
  <2>2. \A r \in Socket : /\ socket'[r] = "unused" <=> attempt'[r] = "none"
                          /\ auth'[r] = "asked" => attempt'[r] = "pending"
    BY <1>1 DEF TypeOK
  <2> QED
    BY <1>2, <2>1, <2>2 DEF TypeOK, Fields, CallFields
<1>5. SocketsForCalls'
  <2>1. \A r \in Socket : socket'[r] = "unused" <=> socket[r] = "unused"
    BY <1>1 DEF TypeOK
  <2> QED
    BY <1>3, <2>1, SocketsKept DEF IInv
<1>6. IdsCounted'
  BY <1>1, <1>2, IdsKept
<1>7. Opening'
  BY <1>1 DEF IInv, Opening, TypeOK
<1>8. ASSUME ~crossed'
      PROVE  Up' /\ Pending' /\ NoOther' /\ Current'
  <2>1. /\ Up /\ Pending /\ NoOther /\ Current
        /\ t.connectionPromise \in {None, s}
    BY <1>8 DEF IInv, Crosses
  <2>2. \A r \in Socket : r # s => /\ socket[r] # "connecting" /\ auth[r] # "asked"
                                   /\ socket[r] = "open" => attempt[r] # "pending"
    BY <2>1, NoneAssumption DEF NoOther, Socket
  <2>3. Up' /\ Pending' /\ NoOther'
    BY <1>1, <1>2, <2>1, <2>2, NoneAssumption DEF Up, Pending, NoOther, TypeOK, Socket
  <2>4. Current'
    <3>1. ASSUME NEW c \in Call, call'[c].at \in {"sent", "answered"}, call'[c].id = t'.connectionId
          PROVE  FALSE
      <4>1. call[c] = call'[c] /\ call[c].id <= t.connectionId /\ call[c].id \in Int
        BY <1>1, <1>3, <3>1 DEF IInv, Earlier, TypeOK
      <4>2. call[c].id = t.connectionId /\ ~t.connected
        BY <1>2, <3>1, <4>1
      <4> QED
        BY <2>1, <3>1, <4>1, <4>2 DEF Current
    <3> QED
      BY <3>1 DEF Current
  <2> QED
    BY <2>3, <2>4
<1> QED
  BY <1>3, <1>4, <1>5, <1>6, <1>7, <1>8 DEF IInv

LEMMA ErrorInv == ASSUME IInv, NEW s \in Socket, Error(s) PROVE IInv'
<1>1. TypeOK /\ Reject(s)
  BY DEF IInv, Error
<1>2. /\ attempt' \in [Socket -> {"none", "pending", "resolved", "rejected"}]
      /\ attempt'[s] = "none" <=> attempt[s] = "none"
      /\ \A r \in Socket : r # s => attempt'[r] = attempt[r]
      /\ Resolved' = Resolved /\ call' \in [Call -> CallFields]
      /\ \A c \in Call : call'[c] = call[c] \/ call'[c] = Ended("failed")
  BY <1>1, RejectIs
<1>3. /\ socket[s] # "unused" /\ socket' = [socket EXCEPT ![s] = "failed"] /\ t' = OnDisconnect
      /\ auth' = [auth EXCEPT ![s] = "no"] /\ crossed' = (crossed \/ Crosses(s))
  BY DEF Error
<1> QED
  BY <1>2, <1>3, GoneInv

LEMMA CloseInv == ASSUME IInv, NEW s \in Socket, Close(s) PROVE IInv'
<1>1. /\ socket[s] # "unused" /\ socket' = [socket EXCEPT ![s] = "closed"] /\ t' = OnDisconnect
      /\ auth' = [auth EXCEPT ![s] = "no"] /\ crossed' = (crossed \/ Crosses(s))
      /\ UNCHANGED <<attempt, call>>
  BY DEF Close
<1>2. /\ attempt' \in [Socket -> {"none", "pending", "resolved", "rejected"}]
      /\ Resolved' = Resolved /\ call' \in [Call -> CallFields]
  BY <1>1 DEF IInv, TypeOK, CallFields, Resolved
<1> QED
  BY <1>1, <1>2, GoneInv

-----------------------------------------------------------------------------
(* The client                                                              *)

\* A step of one call alone.
LEMMA CallMovesInv ==
  ASSUME IInv, NEW c \in Call, NEW v \in CallFields, call' = [call EXCEPT ![c] = v],
         v.id <= t.connectionId,
         c \in Left => v.at \notin {"new", "waiting", "sleeping"},
         v.at \in {"sent", "answered"} =>
            \/ call[c].at = "sent" /\ v.on = call[c].on /\ v.id = call[c].id
            \/ t.connected /\ v.on = t.writer,
         UNCHANGED <<socket, auth, attempt, t, crossed>>
  PROVE  IInv'
<1>1. TypeOK /\ t.connectionId \in 0 .. Calls
  BY DEF IInv, TypeOK
<1>2. TypeOK'
  BY <1>1 DEF TypeOK, CallFields
<1>3. SocketsForCalls'
  BY <1>1, SocketsKept DEF IInv, Left, TypeOK
<1>4. IdsCounted' /\ Opening'
  BY DEF IInv, IdsCounted, Opening, Resolved
<1>5. Earlier'
  BY <1>1 DEF IInv, Earlier, TypeOK
<1>6. ASSUME ~crossed'
      PROVE  Up' /\ Pending' /\ NoOther' /\ Current'
  <2>1. Up /\ Pending /\ NoOther /\ Current
    BY <1>6 DEF IInv
  <2>2. Up' /\ Pending' /\ NoOther'
    BY <2>1 DEF Up, Pending, NoOther
  <2>3. Current'
    BY <1>1, <2>1 DEF Current, TypeOK
  <2> QED
    BY <2>2, <2>3
<1> QED
  BY <1>2, <1>3, <1>4, <1>5, <1>6 DEF IInv

LEMMA AnswerInv == ASSUME IInv, NEW c \in Call, Answer(c) PROVE IInv'
<1> DEFINE v == [call[c] EXCEPT !.at = "answered"]
<1>1. call[c] \in CallFields /\ call[c].at = "sent"
  BY DEF IInv, TypeOK, CallFields, Answer
<1>2. /\ v \in CallFields /\ v.at = "answered" /\ c \in Left
      /\ v.id = call[c].id /\ v.on = call[c].on /\ v.id <= t.connectionId
  BY <1>1 DEF CallFields, Left, IInv, Earlier
<1>3. call' = [call EXCEPT ![c] = v] /\ UNCHANGED <<socket, auth, attempt, t, crossed>>
  BY DEF Answer
<1> HIDE DEF v
<1> QED
  BY <1>1, <1>2, <1>3, CallMovesInv

LEMMA ContinueInv == ASSUME IInv, NEW c \in Call, Continue(c) PROVE IInv'
<1> DEFINE v == Ended(IF SameConnection(c) THEN "continued" ELSE "dropped")
<1>1. call[c].at = "answered" /\ c \in Left
  BY DEF Continue, Left
<1>2. 0 \in 0 .. Calls
  BY CallsAssumption
<1>3. v \in CallFields /\ v.at \in {"continued", "dropped"} /\ v.id = 0
  BY <1>2 DEF CallFields, Ended
<1>4. call' = [call EXCEPT ![c] = v] /\ UNCHANGED <<socket, auth, attempt, t, crossed>>
  BY DEF Continue
<1> HIDE DEF v
<1>5. v.id <= t.connectionId
  BY <1>3, CallsAssumption DEF IInv, TypeOK
<1> QED
  BY <1>1, <1>3, <1>4, <1>5, CallMovesInv

LEMMA DisconnectInv == ASSUME IInv, Disconnect PROVE IInv'
<1>1. /\ socket' = Closing /\ t' = [OnDisconnect EXCEPT !.transportConnection = None]
      /\ crossed' = (crossed \/ \E s \in Socket : attempt[s] = "pending" /\ socket[s] \in {"connecting", "open"})
      /\ UNCHANGED <<auth, attempt, call>>
  BY DEF Disconnect
<1>2. TypeOK /\ IdsCounted
  BY DEF IInv
<1>3. /\ t' \in Fields /\ t'.transportConnection = None /\ t'.writer = t.writer
      /\ t'.connected = FALSE /\ t'.connectionPromise = None
      /\ t'.connectionId = IF t.connected THEN t.connectionId + 1 ELSE t.connectionId
      /\ t.connectionId \in 0 .. Calls /\ t'.connectionId \in 0 .. Calls
      /\ t.connected \in BOOLEAN
  BY <1>1, <1>2, OnDisconnectIs DEF TypeOK, Fields
<1>4. \A s \in Socket : socket'[s] = IF s = t.transportConnection /\ socket[s] = "open"
                                     THEN "closing" ELSE socket[s]
  BY <1>1 DEF Closing
<1>5. /\ Earlier'
      /\ \A c \in Left : call'[c].at \notin {"new", "waiting", "sleeping"}
  <2>1. t.connectionId <= t'.connectionId
    BY <1>3, CallsAssumption
  <2> QED
    BY <1>1, <1>3, <2>1, CallsFail
<1>6. TypeOK'
  BY <1>1, <1>2, <1>3, <1>4 DEF TypeOK, Fields, Closing
<1>7. SocketsForCalls'
  BY <1>4, <1>5, SocketsKept DEF IInv
<1>8. IdsCounted'
  BY <1>1, <1>2, <1>3, IdsKept DEF Resolved
<1>9. Opening'
  BY <1>1, <1>4 DEF IInv, Opening
<1>10. ASSUME ~crossed'
       PROVE  Up' /\ Pending' /\ NoOther' /\ Current'
  <2>1. /\ Up /\ Pending /\ NoOther /\ Current /\ Opening
        /\ \A s \in Socket : attempt[s] = "pending" => socket[s] \notin {"connecting", "open"}
    BY <1>1, <1>10 DEF IInv
  <2>2. \A s \in Socket : /\ socket[s] # "connecting" /\ auth[s] # "asked"
                          /\ socket'[s] \notin {"connecting", "open"}
    BY <1>2, <1>4, <2>1 DEF NoOther, Opening, TypeOK
  <2>3. Up' /\ Pending' /\ NoOther'
    BY <1>1, <1>3, <2>2, NoneAssumption DEF Up, Pending, NoOther, Socket
  <2>4. Current'
    <3>1. ASSUME NEW c \in Call, call[c].at \in {"sent", "answered"}, call[c].id = t'.connectionId
          PROVE  FALSE
      <4>1. call[c].id <= t.connectionId /\ call[c].id \in Int
        BY <1>2 DEF IInv, Earlier, TypeOK
      <4>2. call[c].id = t.connectionId /\ ~t.connected
        BY <1>3, <3>1, <4>1
      <4> QED
        BY <2>1, <3>1, <4>2 DEF Current
    <3> QED
      BY <1>1, <3>1 DEF Current
  <2> QED
    BY <2>3, <2>4
<1> QED
  BY <1>5, <1>6, <1>7, <1>8, <1>9, <1>10 DEF IInv

\* A call that has made no attempt finds a socket for one.
LEMMA SocketLeft ==
  ASSUME IInv, NEW c \in Call, c \notin Left
  PROVE  \E k \in 0 .. Calls : /\ Used = 1 .. k /\ k + 1 <= Calls /\ k <= Cardinality(Left)
                               /\ (CHOOSE s \in Socket : socket[s] = "unused"
                                      /\ (s = 1 \/ socket[s - 1] # "unused")) = k + 1
<1>1. PICK k \in 0 .. Calls : Used = 1 .. k /\ k <= Cardinality(Left)
  BY DEF IInv, SocketsForCalls
<1>2. Left \in SUBSET Call /\ Call \in SUBSET (1 .. Calls)
  BY DEF Left, Call
<1>3. Cardinality(Left) + 1 <= Cardinality(Call)
  BY <1>2, MoreCount
<1>4. /\ Cardinality(Left) \in Int /\ Cardinality(Call) <= Calls /\ Cardinality(Call) \in Int
  BY <1>2, SubsetCount
<1>5. k \in Int /\ 0 <= k /\ k + 1 <= Calls
  BY <1>1, <1>3, <1>4, CallsAssumption
<1>6. \A s \in Socket : socket[s] = "unused" <=> s > k
  BY <1>1, <1>5, CallsAssumption DEF Used, Socket
<1>7. k + 1 \in Socket /\ (k = 0 \/ k \in Socket)
  BY <1>5, CallsAssumption DEF Socket
<1>8. socket[k + 1] = "unused" /\ (k + 1 = 1 \/ socket[(k + 1) - 1] # "unused")
  BY <1>5, <1>6, <1>7
<1>9. ASSUME NEW s \in Socket, socket[s] = "unused", s = 1 \/ socket[s - 1] # "unused"
      PROVE  s = k + 1
  <2>1. s \in Int /\ 1 <= s /\ s <= Calls /\ s > k
    BY <1>5, <1>6, <1>9, CallsAssumption DEF Socket
  <2>2. CASE s = 1
    BY <1>5, <2>1, <2>2
  <2>3. CASE s # 1
    <3>1. s - 1 \in Socket
      BY <2>1, <2>3, CallsAssumption DEF Socket
    <3>2. ~(s - 1 > k)
      BY <1>6, <1>9, <2>3, <3>1
    <3> QED
      BY <1>5, <2>1, <3>2
  <2> QED
    BY <2>2, <2>3
<1>10. (CHOOSE s \in Socket : socket[s] = "unused" /\ (s = 1 \/ socket[s - 1] # "unused")) = k + 1
  BY <1>7, <1>8, <1>9
<1> QED
  BY <1>1, <1>5, <1>10

\* connect() of a call that has made no attempt yet.
LEMMA ConnectInv ==
  ASSUME IInv, NEW c \in Call, call[c].at \in {"new", "sleeping"},
         NEW id \in 0 .. Calls, id <= t.connectionId,
         Connect(c, id), UNCHANGED <<auth, crossed>>
  PROVE  IInv'
<1>1. TypeOK /\ c \notin Left
  BY DEF IInv, Left
<1>2. ASSUME NEW where \in {"waiting", "sent", "connecting"}, NEW on \in Socket \cup {None}
      PROVE  [at |-> where, on |-> on, id |-> id] \in CallFields
  BY DEF CallFields
<1>3. CASE t.connectionPromise # None /\ UNCHANGED <<socket, attempt, t>>
           /\ call' = [call EXCEPT ![c] = [at |-> "waiting", on |-> t.connectionPromise, id |-> id]]
  <2>1. t.connectionPromise \in Socket \cup {None}
    BY <1>1 DEF TypeOK
  <2> DEFINE v == [at |-> "waiting", on |-> t.connectionPromise, id |-> id]
  <2>2. call' = [call EXCEPT ![c] = v] /\ v \in CallFields
    BY <1>2, <1>3, <2>1
  <2>3. v.at = "waiting" /\ v.id = id
    OBVIOUS
  <2> HIDE DEF v
  <2> QED
    BY <1>1, <1>3, <2>2, <2>3, CallMovesInv
<1>4. CASE t.connected /\ UNCHANGED <<socket, attempt, t>>
           /\ call' = [call EXCEPT ![c] = [at |-> "sent", on |-> t.writer, id |-> id]]
  <2>1. t.writer \in Socket \cup {None}
    BY <1>1 DEF TypeOK
  <2> DEFINE v == [at |-> "sent", on |-> t.writer, id |-> id]
  <2>2. call' = [call EXCEPT ![c] = v] /\ v \in CallFields
    BY <1>2, <1>4, <2>1
  <2>3. v.at = "sent" /\ v.id = id /\ v.on = t.writer
    OBVIOUS
  <2> HIDE DEF v
  <2> QED
    BY <1>1, <1>4, <2>2, <2>3, CallMovesInv
<1>5. CASE ~(\/ t.connectionPromise # None
             \/ t.connected)
  <2>1. PICK k \in 0 .. Calls :
           /\ Used = 1 .. k /\ k + 1 <= Calls /\ k <= Cardinality(Left)
           /\ (CHOOSE s \in Socket : socket[s] = "unused"
                 /\ (s = 1 \/ socket[s - 1] # "unused")) = k + 1
    BY <1>1, SocketLeft
  <2> DEFINE s == k + 1
  <2>2. s \in Socket /\ k \in Int
    BY <2>1, CallsAssumption DEF Socket
  <2>3. /\ socket' = [Closing EXCEPT ![s] = "connecting"]
        /\ attempt' = [attempt EXCEPT ![s] = "pending"]
        /\ t' = [t EXCEPT !.transportConnection = None, !.connectionPromise = s]
        /\ call' = [call EXCEPT ![c] = [at |-> "connecting", on |-> s, id |-> id]]
    BY <1>5, <2>1 DEF Connect
  <2>4. socket[s] = "unused" /\ attempt[s] = "none"
    BY <1>1, <2>1, <2>2 DEF Used, TypeOK
  <2> HIDE DEF s
  <2>5. /\ t' \in Fields /\ t'.transportConnection = None /\ t'.writer = t.writer
        /\ t'.connected = FALSE /\ t.connected = FALSE
        /\ t'.connectionPromise = s /\ t'.connectionId = t.connectionId
        /\ t.connectionPromise = None /\ t.connectionId \in 0 .. Calls
    BY <1>1, <1>5, <2>2, <2>3 DEF TypeOK, Fields
  <2>6. /\ socket'[s] = "connecting"
        /\ \A r \in Socket : r # s =>
             socket'[r] = IF r = t.transportConnection /\ socket[r] = "open"
                          THEN "closing" ELSE socket[r]
    BY <2>2, <2>3 DEF Closing
  <2>7. call' = [call EXCEPT ![c] = [at |-> "connecting", on |-> s, id |-> id]]
        /\ [at |-> "connecting", on |-> s, id |-> id] \in CallFields
    BY <1>2, <2>2, <2>3
  <2>8. TypeOK'
    <3>1. /\ socket' \in [Socket -> {"unused", "connecting", "failed", "open", "closing", "closed"}]
          /\ attempt' \in [Socket -> {"none", "pending", "resolved", "rejected"}]
      BY <1>1, <2>2, <2>3 DEF Closing, TypeOK
    <3>2. \A r \in Socket : /\ socket'[r] = "unused" <=> attempt'[r] = "none"
                            /\ auth'[r] = "asked" => attempt'[r] = "pending"
      BY <1>1, <2>2, <2>3, <2>6 DEF TypeOK
    <3>3. call' \in [Call -> CallFields]
      BY <1>1, <2>7 DEF TypeOK, CallFields
    <3> QED
      BY <1>1, <2>5, <3>1, <3>2, <3>3 DEF TypeOK, Fields, CallFields
  <2>9. SocketsForCalls'
    <3>1. Used' = Used \cup {s}
      BY <2>2, <2>6 DEF Used
    <3>2. Used' = 1 .. s /\ s \in 0 .. Calls
      BY <2>1, <2>2, <3>1, CallsAssumption DEF s
    <3>3. Left' \in SUBSET (1 .. Calls) /\ Left \in SUBSET Left' /\ c \in Left'
      BY <1>1, <2>7 DEF Left, Call, TypeOK
    <3>4. /\ Cardinality(Left) + 1 <= Cardinality(Left')
          /\ Cardinality(Left) \in Int /\ Cardinality(Left') \in Int
      BY <1>1, <3>3, MoreCount, SubsetCount
    <3>5. s <= Cardinality(Left')
      BY <2>1, <2>2, <3>4 DEF s
    <3> QED
      BY <3>2, <3>5 DEF SocketsForCalls
  <2>10. IdsCounted'
    <3>1. Resolved \subseteq Resolved'
      BY <1>1, <2>3, <2>4 DEF Resolved, TypeOK
    <3> QED
      BY <1>1, <2>5, <3>1, IdsKept DEF IInv
  <2>11. Earlier' /\ Opening'
    BY <1>1, <2>2, <2>3, <2>5, <2>6, <2>7 DEF IInv, Earlier, Opening, TypeOK
  <2>12. ASSUME ~crossed'
         PROVE  Up' /\ Pending' /\ NoOther' /\ Current'
    <3>1. Up /\ Pending /\ NoOther /\ Current
      BY <2>12 DEF IInv
    <3>2. \A r \in Socket : auth[r] # "asked" /\ socket[r] # "connecting"
      BY <2>5, <3>1, NoneAssumption DEF NoOther, Socket
    <3>3. \A r \in Socket : r # s => socket'[r] \notin {"connecting", "open"}
      BY <2>6, <3>1, <3>2 DEF NoOther
    <3>4. Up' /\ Pending' /\ NoOther'
      BY <1>1, <2>2, <2>3, <2>5, <2>6, <3>2, <3>3, NoneAssumption DEF Up, Pending, NoOther, Socket, TypeOK
    <3>5. Current'
      BY <1>1, <2>5, <2>7, <3>1 DEF Current, TypeOK
    <3> QED
      BY <3>4, <3>5
  <2> QED
    BY <2>8, <2>9, <2>10, <2>11, <2>12 DEF IInv
<1> QED
  BY <1>3, <1>4, <1>5 DEF Connect

LEMMA SendMessageInv == ASSUME IInv, NEW c \in Call, SendMessage(c) PROVE IInv'
<1>1. /\ TypeOK /\ call[c].at = "new" /\ t.connectionId \in 0 .. Calls
      /\ t.connectionId <= t.connectionId /\ UNCHANGED <<auth, crossed>>
  BY CallsAssumption DEF IInv, TypeOK, SendMessage
<1>2. CASE t.connected
  <2> DEFINE v == [at |-> "sent", on |-> t.writer, id |-> t.connectionId]
  <2>1. call' = [call EXCEPT ![c] = v] /\ v \in CallFields
    BY <1>1, <1>2 DEF SendMessage, TypeOK, CallFields
  <2>2. v.id = t.connectionId /\ v.at = "sent" /\ v.on = t.writer
    OBVIOUS
  <2>3. UNCHANGED <<socket, attempt, t>>
    BY <1>2 DEF SendMessage
  <2> HIDE DEF v
  <2> QED
    BY <1>1, <1>2, <2>1, <2>2, <2>3, CallMovesInv
<1>3. CASE ~t.connected
  BY <1>1, <1>3, ConnectInv DEF SendMessage
<1> QED
  BY <1>2, <1>3

LEMMA WakeUpInv == ASSUME IInv, NEW c \in Call, WakeUp(c) PROVE IInv'
<1>1. /\ call[c].at = "sleeping" /\ call[c].id \in 0 .. Calls /\ call[c].id <= t.connectionId
      /\ Connect(c, call[c].id) /\ UNCHANGED <<auth, crossed>>
  BY DEF WakeUp, IInv, TypeOK, Earlier
<1> QED
  BY <1>1, ConnectInv

-----------------------------------------------------------------------------
LEMMA StepInv == IInv /\ [Next]_vars => IInv'
<1> SUFFICES ASSUME IInv, [Next]_vars PROVE IInv'
  OBVIOUS
<1>1. ASSUME NEW s \in Socket, Network(s) \/ Close(s) PROVE IInv'
  BY <1>1, OpenInv, AuthenticatedInv, RefusedInv, ErrorInv, CloseInv DEF Network
<1>2. ASSUME NEW c \in Call, SendMessage(c) \/ WakeUp(c) \/ Answer(c) \/ Continue(c) PROVE IInv'
  BY <1>2, SendMessageInv, WakeUpInv, AnswerInv, ContinueInv
<1>3. CASE Disconnect
  BY <1>3, DisconnectInv
<1>4. CASE UNCHANGED vars
  <2>1. TypeOK' /\ SocketsForCalls' /\ IdsCounted'
    BY <1>4 DEF vars, IInv, TypeOK, SocketsForCalls, Used, Left, IdsCounted, Resolved
  <2>2. Earlier' /\ Opening'
    BY <1>4 DEF vars, IInv, Earlier, Opening
  <2>3. ~crossed' => Up' /\ Pending' /\ NoOther' /\ Current'
    BY <1>4 DEF vars, IInv, Up, Pending, NoOther, Current
  <2> QED
    BY <2>1, <2>2, <2>3 DEF IInv
<1> QED
  BY <1>1, <1>2, <1>3, <1>4 DEF Next

\* The transporter stays in what IInv describes, for any number of calls.
THEOREM Invariance == Spec => []IInv
<1> QED
  BY InitInv, StepInv, PTL DEF Spec

\* The fields, sockets and calls keep their types; connectionId counts at most
\* the connections that were made.
THEOREM TransporterTypes == Spec => []TypeOK
<1>1. IInv => TypeOK
  BY DEF IInv
<1> QED
  BY <1>1, Invariance, PTL

\* isConnected() tells the truth until an old socket has interfered.
THEOREM Connected == Spec => []ConnectedUntilCrossed
<1>1. IInv => ConnectedUntilCrossed
  BY NoneAssumption DEF IInv, Up, ConnectedUntilCrossed, ConnectedIsAuthenticated, Socket
<1> QED
  BY <1>1, Invariance, PTL

\* Until then there is one socket, connecting or open, at most.
THEOREM SingleSocket == Spec => []OneSocket
<1>1. IInv => OneSocket
  <2> SUFFICES ASSUME IInv, ~crossed, NEW r \in Socket, NEW s \in Socket,
                      {socket[r], socket[s]} \subseteq {"connecting", "open"}
               PROVE  r = s
    BY DEF OneSocket
  <2>1. Pending /\ NoOther /\ r # None /\ s # None
    BY NoneAssumption DEF IInv, Socket
  <2>2. CASE t.connectionPromise \in {r, s}
    BY <2>1, <2>2 DEF Pending, NoOther
  <2>3. CASE t.connectionPromise \notin {r, s}
    BY <2>1, <2>3 DEF NoOther
  <2> QED
    BY <2>2, <2>3
<1> QED
  BY <1>1, Invariance, PTL

\* Who is sent now is sent on a connection the server has accepted.
THEOREM SentAuthenticated == Spec => AuthenticatedFirst
<1> DEFINE Step == \A c \in Call : ~crossed /\ call[c].at # "sent" /\ call'[c].at = "sent"
                                   => auth'[call'[c].on] = "yes"
<1>1. ASSUME IInv, Next PROVE Step
  <2> SUFFICES ASSUME NEW c \in Call, ~crossed, call[c].at # "sent", call'[c].at = "sent"
               PROVE  auth'[call'[c].on] = "yes"
    OBVIOUS
  <2>1. TypeOK /\ Up /\ NoOther
    BY <1>1 DEF IInv
  <2>2. ASSUME NEW s \in Socket, Network(s) \/ Close(s)
        PROVE  auth'[call'[c].on] = "yes"
    <3>1. CASE Authenticated(s)
      <4>1. auth[s] = "asked" /\ auth' = [auth EXCEPT ![s] = "yes"] /\ call'[c].on = t.writer
        BY <2>1, <3>1 DEF Authenticated, Resolve, TypeOK
      <4>2. t.writer = s
        BY <2>1, <4>1 DEF NoOther
      <4> QED
        BY <2>1, <4>1, <4>2 DEF TypeOK
    <3>2. CASE Open(s) \/ Close(s)
      BY <3>2 DEF Open, Close
    <3>3. CASE Refused(s) \/ Error(s)
      <4>1. Reject(s)
        BY <3>3 DEF Refused, Error
      <4>2. call'[c] = call[c] \/ call'[c] = Ended("failed")
        BY <2>1, <4>1, RejectIs
      <4> QED
        BY <4>2 DEF Ended
    <3> QED
      BY <2>2, <3>1, <3>2, <3>3 DEF Network
  <2>3. ASSUME NEW d \in Call, SendMessage(d) \/ WakeUp(d)
        PROVE  auth'[call'[c].on] = "yes"
    <3>1. UNCHANGED auth
      BY <2>3 DEF SendMessage, WakeUp
    <3>2. t.connected /\ call'[c].on = t.writer
      BY <2>1, <2>3 DEF SendMessage, WakeUp, Connect, TypeOK
    <3> QED
      BY <2>1, <3>1, <3>2 DEF Up
  <2>4. ASSUME NEW d \in Call, Answer(d) \/ Continue(d)
        PROVE  FALSE
    BY <2>1, <2>4 DEF Answer, Continue, Ended, TypeOK
  <2>5. CASE Disconnect
    BY <2>5 DEF Disconnect
  <2> QED
    BY <1>1, <2>2, <2>3, <2>4, <2>5 DEF Next
<1>2. UNCHANGED vars => Step
  BY DEF vars
<1>3. IInv /\ [Next]_vars => [Step]_vars
  BY <1>1, <1>2
<1> QED
  BY <1>3, Invariance, PTL DEF Spec, AuthenticatedFirst

\* ConversationStays: until an event of an old socket interferes, what continues a
\* conversation goes to the server that began it.
THEOREM Stays == Spec => ConversationStays
<1> DEFINE Step == \A c \in Call : ~crossed /\ call[c].at = "answered" /\ call'[c].at = "continued"
                                   => call[c].on = t.writer
<1>1. ASSUME IInv, Next PROVE Step
  <2> SUFFICES ASSUME NEW c \in Call, ~crossed, call[c].at = "answered", call'[c].at = "continued"
               PROVE  call[c].on = t.writer
    OBVIOUS
  <2>1. TypeOK /\ Current
    BY <1>1 DEF IInv
  <2>2. ASSUME NEW s \in Socket, Network(s) \/ Close(s) PROVE FALSE
    <3>1. CASE Authenticated(s)
      BY <2>1, <3>1 DEF Authenticated, Resolve, TypeOK
    <3>2. CASE Open(s) \/ Close(s)
      BY <3>2 DEF Open, Close
    <3>3. CASE Refused(s) \/ Error(s)
      <4>1. Reject(s)
        BY <3>3 DEF Refused, Error
      <4>2. call'[c] = call[c] \/ call'[c] = Ended("failed")
        BY <2>1, <4>1, RejectIs
      <4> QED
        BY <4>2 DEF Ended
    <3> QED
      BY <2>2, <3>1, <3>2, <3>3 DEF Network
  <2>3. ASSUME NEW d \in Call, SendMessage(d) \/ WakeUp(d) \/ Answer(d) PROVE FALSE
    BY <2>1, <2>3 DEF SendMessage, WakeUp, Connect, Answer, TypeOK
  <2>4. ASSUME NEW d \in Call, Continue(d) PROVE call[c].on = t.writer
    <3>1. d = c /\ SameConnection(c)
      BY <2>1, <2>4 DEF Continue, Ended, TypeOK
    <3> QED
      BY <2>1, <3>1 DEF SameConnection, Current
  <2>5. CASE Disconnect
    BY <2>5 DEF Disconnect
  <2> QED
    BY <1>1, <2>2, <2>3, <2>4, <2>5 DEF Next
<1>2. UNCHANGED vars => Step
  BY DEF vars
<1>3. IInv /\ [Next]_vars => [Step]_vars
  BY <1>1, <1>2
<1> QED
  BY <1>3, Invariance, PTL DEF Spec, ConversationStays

=============================================================================
