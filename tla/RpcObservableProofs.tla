------------------------- MODULE RpcObservableProofs -------------------------
(***************************************************************************)
(* Machine-checked proofs about RpcObservable, for any number of           *)
(* subscriptions and values.                                               *)
(*                                                                         *)
(* What the properties say holds when the queues are empty, or at the      *)
(* moment a message arrives; it is inductive only together with what waits *)
(* in the two queues.  IInv says of each stream which of its values are    *)
(* under way and in which order (Flow), which requests are on their way to *)
(* a server that can still answer them (Requests, Orderly, Subject), and   *)
(* why an error was ever written (NoReason).                               *)
(***************************************************************************)
EXTENDS RpcObservable, QueueLemmas

\* The messages of the two directions.
ToClientMsg == [type : {"type", "next", "completed", "failed", "error"}, id : 0 .. Streams, v : 0 .. MaxNext]
ToServerMsg == [type : {"subscribe", "unsubscribe", "disconnect", "complete"}, id : Stream, v : {0}]

\* A message of one of these types for stream i waits in q.
Has(q, types, i) == \E k \in DOMAIN q : q[k].type \in types /\ q[k].id = i

\* The announcement of the result is not (or no more) in q.
Untyped(q) == \A k \in DOMAIN q : q[k].type # "type"

\* Messages are well-formed, and a closed connection carries none.
Queues ==
    /\ toClient \in Seq(ToClientMsg)
    /\ toServer \in Seq(ToServerMsg)
    /\ ~open => toClient = <<>> /\ toServer = <<>>
    /\ \A k \in DOMAIN toClient : toClient[k].type \in Ended \cup {"next"} => toClient[k].id \in Stream

\* How far the action is on both sides: nothing is subscribed before the method
\* has returned, nothing is asked for before its announcement, which comes once.
Phases ==
    /\ method = "running" =>
          /\ toClient = <<>> /\ ~kept /\ early = [values |-> 0, end |-> "none"]
          /\ \A i \in Stream : subs[i] = "none" /\ sent[i] = 0
    /\ method = "late" => ~open
    /\ known = "nothing" =>
          /\ toServer = <<>> /\ ~disconnected
          /\ \A i \in Stream : client[i] = "none" /\ got[i] = 0
    /\ known # "nothing" => Untyped(toClient)
    /\ \A j, k \in DOMAIN toClient : toClient[j].type = "type" /\ toClient[k].type = "type" => j = k
    /\ open /\ method = "returned" /\ known = "nothing" /\ ~released => ~Untyped(toClient)
    /\ again => disconnected
    /\ disconnected => kind = "observable"

\* A subject has the one stream; an observable none nobody has subscribed.
Kinds ==
    /\ kind # "observable" =>
          /\ \A i \in Stream \ {1} : subs[i] = "none" /\ client[i] = "none" /\ sent[i] = 0
          /\ known # "nothing" => client[1] # "none"
          /\ early.values <= sent[1]
          /\ \A k \in DOMAIN toServer : toServer[k].type = "complete"
    /\ kind = "observable" =>
          /\ early = [values |-> 0, end |-> "none"]
          /\ \A i \in Stream : client[i] = "none" => subs[i] = "none" /\ sent[i] = 0
          /\ \A k \in DOMAIN toServer : toServer[k].type # "complete"

\* Position k is behind the announcement of the type.
Current(q, k) == \A j \in DOMAIN q : q[j].type = "type" => j < k

\* ... and is a value of stream i.
IsNext(q, k, i) == q[k].type = "next" /\ q[k].id = i /\ Current(q, k)

\* The values of stream i in q are lo + 1, ..., hi, each once and in order.
Flow(q, i, lo, hi) ==
    /\ \A j, k \in DOMAIN q : j < k /\ IsNext(q, j, i) /\ IsNext(q, k, i) => q[j].v < q[k].v
    /\ \A k \in DOMAIN q : IsNext(q, k, i) => lo < q[k].v /\ q[k].v <= hi
    /\ \A v \in lo + 1 .. hi : \E k \in DOMAIN q : IsNext(q, k, i) /\ q[k].v = v

\* What the client has of stream i; of a subject that is not announced yet it
\* will take the value that came first.
Base(i) == IF kind # "observable" /\ known = "nothing" /\ i = 1 THEN early.values ELSE Had(i)

\* No value is lost, doubled or overtaken on the way to who may listen.
Values == open /\ ~released =>
    \A i \in Stream : client[i] \in {"none", "active"} => Flow(toClient, i, Base(i), sent[i])

\* An end in the queue is the server's, and behind all values of its stream.
Ends ==
    /\ \A k \in DOMAIN toClient : toClient[k].type \in Ended =>
          /\ subs[toClient[k].id] \notin {"none", "active"}
          /\ \A j \in DOMAIN toClient : toClient[j].type = "next" /\ toClient[j].id = toClient[k].id => j < k
    /\ kind # "observable" => \A j, k \in DOMAIN toClient : toClient[j].type \in Ended /\ toClient[k].type \in Ended => j = k
    /\ \A i \in Stream : client[i] \in Ended /\ ~disconnected =>
          subs[i] \notin {"none", "active"} /\ Had(i) = sent[i]

\* The only reasons for an error of the server.
NoReason == again \/ (kind # "observable" /\ client[1] = "unsubscribed")

Errors ==
    (released \/ \E k \in DOMAIN toClient : toClient[k].type = "error") => NoReason

\* The requests for an observable: each but disconnect() at most once, and each
\* fits what both sides know of its stream.
Requests ==
    kind = "observable" =>
    /\ \A j, k \in DOMAIN toServer :
          toServer[j].type # "disconnect" /\ toServer[j].type = toServer[k].type /\ toServer[j].id = toServer[k].id => j = k
    /\ \A k \in DOMAIN toServer :
          LET m == toServer[k]
          IN  /\ m.type = "subscribe" => client[m.id] # "none" /\ subs[m.id] = "none"
              /\ m.type = "unsubscribe" => client[m.id] \notin {"none", "active"}
              /\ m.type = "disconnect" => m.id = 1 /\ disconnected

\* Without a subscribe() during or after disconnect(), and with one disconnect()
\* at most, each request will find what it is about, and each side hears of what
\* the other one has ended.
Orderly ==
    kind = "observable" /\ open /\ ~again =>
    /\ \A k \in DOMAIN toServer : toServer[k].type = "unsubscribe" =>
          \/ Subscribed(toServer[k].id)
          \/ \E j \in DOMAIN toServer : j < k /\ toServer[j].type = "subscribe" /\ toServer[j].id = toServer[k].id
    /\ \A k \in DOMAIN toServer : toServer[k].type = "disconnect" => k = Len(toServer)
    /\ disconnected => \A i \in Stream : client[i] # "active"
    /\ ~kept /\ method = "returned" => toServer = <<>> /\ disconnected
    /\ \A i \in Stream : client[i] = "active" => Subscribed(i) \/ Has(toServer, {"subscribe"}, i)
    /\ \A i \in Stream : client[i] # "active" /\ (Subscribed(i) \/ Has(toServer, {"subscribe"}, i)) => Has(toServer, {"unsubscribe"}, i)
    /\ \A i \in Stream : client[i] = "active" /\ subs[i] \in Ended => Has(toClient, Ended, i)

\* The same for the one stream of a subject.
Subject ==
    kind # "observable" /\ open /\ method = "returned" =>
    /\ client[1] \in {"none", "active"} => kept /\ toServer = <<>>
    /\ client[1] \in Ended =>
          /\ ~Has(toClient, Ended, 1) /\ Len(toServer) <= 1
          /\ ~kept => toServer = <<>>
    /\ client[1] = "unsubscribed" =>
          /\ Len(toServer) <= IF Has(toClient, Ended, 1) \/ subs[1] = "active" THEN 1 ELSE 2
          /\ toServer # <<>> \/ subs[1] # "active"
    /\ ~kept => subs[1] # "active"
    /\ early.end = "none" /\ client[1] \in {"none", "active"} => subs[1] = "active" \/ Has(toClient, Ended, 1)
    /\ early.end = "none" => \A j, k \in DOMAIN toClient : toClient[j].type = "type" /\ toClient[k].type \in Ended => j < k

\* The inductive invariant.
IInv == /\ ObservableTypeOK /\ Queues /\ Phases /\ Kinds /\ Values /\ Ends /\ Errors
        /\ Requests /\ Orderly /\ Subject /\ NoneAfterClose

\* What a message in a queue looks like.
LEMMA MsgAt ==
  ASSUME NEW q \in Seq(ToClientMsg), NEW k \in DOMAIN q
  PROVE  /\ q[k] \in ToClientMsg /\ k \in Nat \ {0}
         /\ q[k].type \in {"type", "next", "completed", "failed", "error"}
         /\ q[k].id \in Int /\ q[k].v \in Int
<1>1. q[k] \in ToClientMsg /\ k \in Nat \ {0}
  OBVIOUS
<1> QED
  BY <1>1, ObservableAssumption DEF ToClientMsg

\* An empty queue: nothing is missing of what was sent.
LEMMA FlowEmpty ==
  ASSUME NEW i, NEW lo \in Nat
  PROVE  Flow(<<>>, i, lo, lo)
BY DEF Flow, IsNext, Current

\* shift() of anything but a value behind the announcement.
LEMMA FlowTail ==
  ASSUME NEW q \in Seq(ToClientMsg), q # <<>>, NEW i, NEW lo \in Nat, NEW hi \in Nat,
         Flow(q, i, lo, hi), ~IsNext(q, 1, i)
  PROVE  Flow(Tail(q), i, lo, hi)
<1> DEFINE t == Tail(q)
<1>1. /\ t \in Seq(ToClientMsg) /\ Len(q) \in Nat \ {0}
      /\ DOMAIN q = 1 .. Len(q) /\ DOMAIN t = 1 .. Len(q) - 1
      /\ \A k \in 1 .. Len(q) - 1 : t[k] = q[k + 1]
  BY TailAt
<1> HIDE DEF t
<1>2. \A k \in 1 .. Len(q) : q[k].v \in Int
  BY <1>1, MsgAt
<1>3. \A k \in DOMAIN t : k \in Int /\ k + 1 \in DOMAIN q /\ t[k] = q[k + 1]
  BY <1>1
<1>4. \A k \in DOMAIN q : k # 1 => k - 1 \in DOMAIN t /\ t[k - 1] = q[k]
  BY <1>1
<1>5. \A k \in DOMAIN t : IsNext(t, k, i) <=> IsNext(q, k + 1, i)
  <2> SUFFICES ASSUME NEW k \in DOMAIN t
               PROVE  Current(t, k) <=> Current(q, k + 1)
    BY <1>3 DEF IsNext
  <2>1. Current(q, k + 1) => Current(t, k)
    BY <1>1, <1>3 DEF Current
  <2>2. Current(t, k) => Current(q, k + 1)
    <3> SUFFICES ASSUME Current(t, k), NEW j \in DOMAIN q, q[j].type = "type"
                 PROVE  j < k + 1
      BY DEF Current
    <3>1. CASE j = 1
      BY <1>1, <3>1
    <3>2. CASE j # 1
      BY <1>1, <1>4, <3>2 DEF Current
    <3> QED
      BY <3>1, <3>2
  <2> QED
    BY <2>1, <2>2
<1>6. ASSUME NEW j \in DOMAIN t, NEW k \in DOMAIN t, j < k, IsNext(t, j, i), IsNext(t, k, i)
      PROVE  t[j].v < t[k].v
  <2>1. j + 1 < k + 1 /\ IsNext(q, j + 1, i) /\ IsNext(q, k + 1, i)
    BY <1>3, <1>5, <1>6
  <2> QED
    BY <1>3, <2>1 DEF Flow
<1>7. ASSUME NEW k \in DOMAIN t, IsNext(t, k, i)
      PROVE  lo < t[k].v /\ t[k].v <= hi
  BY <1>3, <1>5, <1>7 DEF Flow
<1>8. ASSUME NEW v \in lo + 1 .. hi
      PROVE  \E k \in DOMAIN t : IsNext(t, k, i) /\ t[k].v = v
  <2>1. PICK k \in DOMAIN q : IsNext(q, k, i) /\ q[k].v = v
    BY DEF Flow
  <2>2. k # 1
    BY <2>1
  <2>3. k - 1 \in DOMAIN t /\ t[k - 1] = q[k] /\ (k - 1) + 1 = k
    BY <1>1, <1>4, <2>2
  <2> QED
    BY <1>5, <2>1, <2>3
<1> QED
  BY <1>6, <1>7, <1>8 DEF Flow, t

\* shift() of a value behind the announcement: it is the next one.
LEMMA FlowTailNext ==
  ASSUME NEW q \in Seq(ToClientMsg), q # <<>>, NEW i, NEW lo \in Nat, NEW hi \in Nat,
         Flow(q, i, lo, hi), IsNext(q, 1, i)
  PROVE  Head(q).v = lo + 1 /\ lo + 1 <= hi /\ Flow(Tail(q), i, lo + 1, hi)
<1> DEFINE t == Tail(q)
<1>1. /\ t \in Seq(ToClientMsg) /\ Len(q) \in Nat \ {0} /\ Head(q) = q[1]
      /\ DOMAIN q = 1 .. Len(q) /\ DOMAIN t = 1 .. Len(q) - 1
      /\ \A k \in 1 .. Len(q) - 1 : t[k] = q[k + 1]
  BY TailAt
<1> HIDE DEF t
<1>2. \A k \in 1 .. Len(q) : q[k].v \in Int
  BY <1>1, MsgAt
<1>3. \A k \in DOMAIN t : k \in Int /\ k + 1 \in DOMAIN q /\ t[k] = q[k + 1] /\ 1 < k + 1
  BY <1>1
<1>4. \A k \in DOMAIN q : k # 1 => k - 1 \in DOMAIN t /\ t[k - 1] = q[k]
  BY <1>1
<1>5. \A k \in DOMAIN t : IsNext(t, k, i) <=> IsNext(q, k + 1, i)
  <2> SUFFICES ASSUME NEW k \in DOMAIN t
               PROVE  Current(t, k) <=> Current(q, k + 1)
    BY <1>3 DEF IsNext
  <2> QED
    BY <1>1, <1>3, <1>4 DEF Current, IsNext
<1>6. 1 \in DOMAIN q /\ lo < q[1].v /\ q[1].v <= hi
  BY <1>1 DEF Flow
<1>7. q[1].v = lo + 1
  <2>1. lo + 1 \in lo + 1 .. hi
    BY <1>1, <1>2, <1>6
  <2>2. PICK k \in DOMAIN q : IsNext(q, k, i) /\ q[k].v = lo + 1
    BY <2>1 DEF Flow
  <2>3. k = 1 \/ 1 < k
    BY <1>1
  <2>4. CASE 1 < k
    <3>1. q[1].v < q[k].v
      BY <1>6, <2>2, <2>4 DEF Flow
    <3> QED
      BY <1>1, <1>2, <1>6, <2>2, <3>1
  <2> QED
    BY <2>2, <2>3, <2>4
<1>8. ASSUME NEW j \in DOMAIN t, NEW k \in DOMAIN t, j < k, IsNext(t, j, i), IsNext(t, k, i)
      PROVE  t[j].v < t[k].v
  BY <1>1, <1>3, <1>5, <1>8 DEF Flow
<1>9. ASSUME NEW k \in DOMAIN t, IsNext(t, k, i)
      PROVE  lo + 1 < t[k].v /\ t[k].v <= hi
  <2>1. q[1].v < q[k + 1].v /\ q[k + 1].v <= hi
    BY <1>3, <1>5, <1>6, <1>9 DEF Flow
  <2> QED
    BY <1>3, <1>7, <2>1
<1>10. ASSUME NEW v \in (lo + 1) + 1 .. hi
       PROVE  \E k \in DOMAIN t : IsNext(t, k, i) /\ t[k].v = v
  <2>1. v \in lo + 1 .. hi /\ v # lo + 1
    OBVIOUS
  <2>2. PICK k \in DOMAIN q : IsNext(q, k, i) /\ q[k].v = v
    BY <2>1 DEF Flow
  <2>3. k - 1 \in DOMAIN t /\ t[k - 1] = q[k] /\ (k - 1) + 1 = k
    BY <1>1, <1>4, <1>7, <2>1, <2>2
  <2> QED
    BY <1>5, <2>2, <2>3
<1>11. lo + 1 <= hi
  BY <1>6, <1>7
<1> QED
  BY <1>1, <1>7, <1>8, <1>9, <1>10, <1>11 DEF Flow, t

\* A message is written that is neither a value of stream i nor an announcement.
LEMMA FlowPush ==
  ASSUME NEW q \in Seq(ToClientMsg), NEW m \in ToClientMsg, NEW i, NEW lo \in Nat, NEW hi \in Nat,
         Flow(q, i, lo, hi), m.type # "type", ~(m.type = "next" /\ m.id = i)
  PROVE  Flow(q \o <<m>>, i, lo, hi)
<1> DEFINE t == q \o <<m>>
<1>1. /\ t \in Seq(ToClientMsg) /\ Len(q) \in Nat
      /\ DOMAIN q = 1 .. Len(q) /\ DOMAIN t = 1 .. Len(q) + 1
      /\ \A k \in 1 .. Len(q) : t[k] = q[k]
      /\ t[Len(q) + 1] = m
  BY PushAt
<1> HIDE DEF t
<1>2. \A k \in DOMAIN q : k \in DOMAIN t /\ t[k] = q[k]
  BY <1>1
<1>3. \A k \in DOMAIN t : k \in DOMAIN q \/ t[k] = m
  BY <1>1
<1>4. \A k \in DOMAIN q : IsNext(t, k, i) <=> IsNext(q, k, i)
  BY <1>2, <1>3 DEF IsNext, Current
<1>5. \A k \in DOMAIN t : IsNext(t, k, i) => k \in DOMAIN q
  BY <1>3 DEF IsNext
<1> QED
  BY <1>2, <1>4, <1>5 DEF Flow, t

\* The next value of stream i is written.
LEMMA FlowPushNext ==
  ASSUME NEW q \in Seq(ToClientMsg), NEW m \in ToClientMsg, NEW i, NEW lo \in Nat, NEW hi \in Nat,
         Flow(q, i, lo, hi), m.type = "next", m.id = i, m.v = hi + 1, lo <= hi
  PROVE  Flow(q \o <<m>>, i, lo, hi + 1)
<1> DEFINE t == q \o <<m>>
<1>1. /\ t \in Seq(ToClientMsg) /\ Len(q) \in Nat
      /\ DOMAIN q = 1 .. Len(q) /\ DOMAIN t = 1 .. Len(q) + 1
      /\ \A k \in 1 .. Len(q) : t[k] = q[k]
      /\ t[Len(q) + 1] = m
  BY PushAt
<1> HIDE DEF t
<1>2. \A k \in DOMAIN q : k \in DOMAIN t /\ t[k] = q[k] /\ k < Len(q) + 1 /\ q[k].v \in Int
  BY <1>1, MsgAt
<1>3. \A k \in DOMAIN t : k \in DOMAIN q \/ k = Len(q) + 1
  BY <1>1
<1>4. \A k \in DOMAIN q : IsNext(t, k, i) <=> IsNext(q, k, i)
  BY <1>1, <1>2, <1>3 DEF IsNext, Current
<1>5. Len(q) + 1 \in DOMAIN t /\ IsNext(t, Len(q) + 1, i)
  BY <1>1, <1>2, <1>3 DEF IsNext, Current
<1>6. ASSUME NEW j \in DOMAIN t, NEW k \in DOMAIN t, j < k, IsNext(t, j, i), IsNext(t, k, i)
      PROVE  t[j].v < t[k].v
  <2>1. j \in DOMAIN q
    BY <1>1, <1>3, <1>6
  <2>2. CASE k \in DOMAIN q
    BY <1>2, <1>4, <1>6, <2>1, <2>2 DEF Flow
  <2>3. CASE k = Len(q) + 1
    <3>1. q[j].v <= hi
      BY <1>4, <1>6, <2>1 DEF Flow
    <3> QED
      BY <1>1, <1>2, <2>1, <2>3, <3>1
  <2> QED
    BY <1>3, <2>2, <2>3
<1>7. ASSUME NEW k \in DOMAIN t, IsNext(t, k, i)
      PROVE  lo < t[k].v /\ t[k].v <= hi + 1
  <2>1. CASE k \in DOMAIN q
    <3>1. lo < q[k].v /\ q[k].v <= hi
      BY <1>4, <1>7, <2>1 DEF Flow
    <3> QED
      BY <1>2, <2>1, <3>1
  <2> QED
    BY <1>1, <1>3, <2>1
<1>8. ASSUME NEW v \in lo + 1 .. hi + 1
      PROVE  \E k \in DOMAIN t : IsNext(t, k, i) /\ t[k].v = v
  <2>1. CASE v = hi + 1
    BY <1>1, <1>5, <2>1
  <2>2. CASE v # hi + 1
    <3>1. v \in lo + 1 .. hi
      BY <2>2
    <3>2. PICK k \in DOMAIN q : IsNext(q, k, i) /\ q[k].v = v
      BY <3>1 DEF Flow
    <3> QED
      BY <1>2, <1>4, <3>2
  <2> QED
    BY <2>1, <2>2
<1> QED
  BY <1>6, <1>7, <1>8 DEF Flow, t

\* Behind the last value of the stream there is nothing to wait for.
LEMMA FlowDone ==
  ASSUME NEW q \in Seq(ToClientMsg), NEW i, NEW lo \in Nat, NEW hi \in Nat,
         Flow(q, i, lo, hi), \A k \in DOMAIN q : ~IsNext(q, k, i)
  PROVE  hi <= lo
BY DEF Flow

\* Which messages wait after shift(),
LEMMA HasTail ==
  ASSUME NEW S, NEW q \in Seq(S), q # <<>>, NEW types, NEW i
  PROVE  Has(q, types, i) <=> (q[1].type \in types /\ q[1].id = i) \/ Has(Tail(q), types, i)
<1> DEFINE t == Tail(q)
<1>1. /\ DOMAIN q = 1 .. Len(q) /\ DOMAIN t = 1 .. Len(q) - 1 /\ Len(q) \in Nat \ {0}
      /\ \A k \in 1 .. Len(q) - 1 : t[k] = q[k + 1]
  BY TailAt
<1> HIDE DEF t
<1>2. ASSUME Has(q, types, i), ~(q[1].type \in types /\ q[1].id = i)
      PROVE  Has(t, types, i)
  <2>1. PICK k \in DOMAIN q : q[k].type \in types /\ q[k].id = i
    BY <1>2 DEF Has
  <2>2. k # 1
    BY <1>2, <2>1
  <2>3. k - 1 \in DOMAIN t /\ t[k - 1] = q[(k - 1) + 1] /\ (k - 1) + 1 = k
    BY <1>1, <2>2
  <2> QED
    BY <2>1, <2>3 DEF Has
<1>3. ASSUME Has(t, types, i)
      PROVE  Has(q, types, i)
  <2>1. PICK k \in DOMAIN t : t[k].type \in types /\ t[k].id = i
    BY <1>3 DEF Has
  <2>2. k + 1 \in DOMAIN q /\ t[k] = q[k + 1]
    BY <1>1
  <2> QED
    BY <2>1, <2>2 DEF Has
<1>4. 1 \in DOMAIN q
  BY <1>1
<1> QED
  BY <1>2, <1>3, <1>4 DEF Has, t

\* ... and after push().
LEMMA HasPush ==
  ASSUME NEW S, NEW q \in Seq(S), NEW m \in S, NEW types, NEW i
  PROVE  Has(q \o <<m>>, types, i) <=> (m.type \in types /\ m.id = i) \/ Has(q, types, i)
<1> DEFINE t == q \o <<m>>
<1>1. /\ DOMAIN q = 1 .. Len(q) /\ DOMAIN t = 1 .. Len(q) + 1 /\ Len(q) \in Nat
      /\ \A k \in 1 .. Len(q) : t[k] = q[k]
      /\ t[Len(q) + 1] = m
  BY PushAt
<1> HIDE DEF t
<1>2. /\ \A k \in DOMAIN q : k \in DOMAIN t /\ t[k] = q[k]
      /\ \A k \in DOMAIN t : k \in DOMAIN q \/ t[k] = m
      /\ Len(q) + 1 \in DOMAIN t
  BY <1>1
<1> QED
  BY <1>1, <1>2 DEF Has, t

\* What a message to the server looks like.
LEMMA RequestAt ==
  ASSUME NEW q \in Seq(ToServerMsg), NEW k \in DOMAIN q
  PROVE  /\ q[k].type \in {"subscribe", "unsubscribe", "disconnect", "complete"}
         /\ q[k].id \in Stream /\ k \in Nat \ {0}
<1>1. q[k] \in ToServerMsg /\ k \in Nat \ {0}
  OBVIOUS
<1> QED
  BY <1>1 DEF ToServerMsg

\* What the invariant says of the types of the variables.
LEMMA Typed ==
  ASSUME IInv
  PROVE  /\ Stream \subseteq Nat \ {0} /\ 1 \in Stream /\ Streams \in Nat \ {0}
         /\ got \in [Stream -> 0 .. MaxNext] /\ sent \in [Stream -> 0 .. MaxNext]
         /\ client \in [Stream -> {"none", "active", "unsubscribed"} \cup Ended]
         /\ subs \in [Stream -> {"none", "active", "removed"} \cup Ended]
         /\ \A j \in Stream : got[j] \in Nat /\ sent[j] \in Nat /\ got[j] <= sent[j] /\ Base(j) \in Nat
         /\ \A j \in Stream : Had(j) \in Nat /\ Had(j) <= sent[j]
         /\ toClient \in Seq(ToClientMsg) /\ toServer \in Seq(ToServerMsg)
<1>1. /\ got \in [Stream -> 0 .. MaxNext] /\ sent \in [Stream -> 0 .. MaxNext]
      /\ early.values \in Nat /\ \A j \in Stream : got[j] <= sent[j]
      /\ client \in [Stream -> {"none", "active", "unsubscribed"} \cup Ended]
      /\ subs \in [Stream -> {"none", "active", "removed"} \cup Ended]
  BY DEF IInv, ObservableTypeOK
<1>2. \A j \in Stream : got[j] \in Nat /\ sent[j] \in Nat /\ Base(j) \in Nat
  BY <1>1, ObservableAssumption DEF Base, Had
<1>3. \A j \in Stream : Had(j) \in Nat /\ Had(j) <= sent[j]
  BY <1>1, <1>2 DEF IInv, Kinds, Had
<1> QED
  BY <1>1, <1>2, <1>3, ObservableAssumption DEF IInv, Queues, Stream

\* The client is told of an error, or nobody listens for an answer any more.
LEMMA OnErrorInv ==
  ASSUME IInv, OnError
  PROVE  IInv'
<1>1. /\ toClient' = Tail(toClient) /\ toClient' \in Seq(ToClientMsg)
      /\ DOMAIN toClient = 1 .. Len(toClient) /\ DOMAIN toClient' = 1 .. Len(toClient) - 1
      /\ Len(toClient) \in Nat \ {0} /\ Head(toClient) = toClient[1] /\ 1 \in DOMAIN toClient
      /\ \A k \in DOMAIN toClient' : k \in Nat /\ k + 1 \in DOMAIN toClient /\ toClient'[k] = toClient[k + 1]
      /\ \A k \in DOMAIN toClient : k # 1 => k - 1 \in DOMAIN toClient' /\ toClient'[k - 1] = toClient[k]
  BY TailAt DEF IInv, Queues, OnError
<1>2. NoReason
  BY <1>1 DEF IInv, Errors, OnError
<1>3. Has(toClient', Ended, 1) => Has(toClient, Ended, 1)
  BY <1>1, HasTail DEF IInv, Queues, OnError
<1>20. ObservableTypeOK'
  BY <1>1 DEF IInv, ObservableTypeOK, OnError, server, browser
<1>21. Queues'
  BY <1>1 DEF IInv, Queues, OnError, server, browser
<1>22. Phases'
  BY <1>1 DEF IInv, Phases, Untyped, OnError, server, browser
<1>23. Kinds'
  BY <1>1 DEF IInv, Kinds, OnError, server, browser
<1>24. Values'
  BY <1>1 DEF IInv, Values, OnError, server, browser
<1>25. Ends'
  BY <1>1 DEF IInv, Ends, Had, OnError, server, browser
<1>26. Errors'
  BY <1>1, <1>2 DEF IInv, Errors, NoReason, OnError, server, browser
<1>27. Requests'
  BY <1>1 DEF IInv, Requests, OnError, server, browser
<1>28. Orderly'
  BY <1>2 DEF Orderly, NoReason, OnError, server, browser
<1>29. Subject'
  <2> SUFFICES ASSUME kind # "observable", open, method = "returned"
               PROVE  Subject'
    BY DEF Subject, OnError, server, browser
  <2>1. client[1] = "unsubscribed"
    BY <1>2 DEF IInv, Phases, NoReason
  <2>2. Len(toServer) \in Nat
    BY LenProperties DEF IInv, Queues
  <2>3. UNCHANGED <<kind, open, method, client, kept, toServer, subs, early>>
    BY DEF OnError, server, browser
  <2> QED
    BY <1>1, <1>3, <2>1, <2>2, <2>3 DEF IInv, Subject, Ended
<1>30. NoneAfterClose'
  BY <1>1 DEF IInv, NoneAfterClose, OnError, server, browser
<1> QED
  BY <1>20, <1>21, <1>22, <1>23, <1>24, <1>25, <1>26, <1>27, <1>28, <1>29, <1>30 DEF IInv


\* A value is delivered.
LEMMA OnNextInv ==
  ASSUME IInv, OnNext
  PROVE  IInv' /\ \A j \in Stream : got'[j] \in {got[j], Had(j) + 1}
<1>1. /\ toClient' = Tail(toClient) /\ toClient' \in Seq(ToClientMsg)
      /\ DOMAIN toClient = 1 .. Len(toClient) /\ DOMAIN toClient' = 1 .. Len(toClient) - 1
      /\ Len(toClient) \in Nat \ {0} /\ Head(toClient) = toClient[1] /\ 1 \in DOMAIN toClient
      /\ \A k \in DOMAIN toClient' : k \in Nat /\ k + 1 \in DOMAIN toClient /\ toClient'[k] = toClient[k + 1]
      /\ \A k \in DOMAIN toClient : k # 1 => k - 1 \in DOMAIN toClient' /\ toClient'[k - 1] = toClient[k]
  BY TailAt DEF IInv, Queues, OnNext, Receiving
<1>2. toClient[1].type = "next" /\ ~released /\ open /\ toClient # <<>> /\ toClient \in Seq(ToClientMsg)
  BY <1>1 DEF IInv, Queues, OnNext, Receiving
<1>3. \A i \in Stream : Has(toClient', Ended, i) <=> Has(toClient, Ended, i)
  BY <1>1, <1>2, HasTail DEF Ended
<1>4. PICK i \in Stream : i = toClient[1].id
  BY <1>1, <1>2 DEF IInv, Queues
<1>5. /\ i \in Nat /\ 1 \in Stream /\ early.values \in Nat
      /\ got \in [Stream -> 0 .. MaxNext] /\ sent \in [Stream -> 0 .. MaxNext]
      /\ \A j \in Stream : got[j] \in Nat /\ sent[j] \in Nat /\ got[j] <= sent[j] /\ Base(j) \in Nat /\ Had(j) \in Nat
  <2>1. early.values \in Nat
    BY DEF IInv, ObservableTypeOK
  <2> QED
    BY <2>1, Typed
<1>6. got' = IF client[i] = "active" THEN [got EXCEPT ![i] = toClient[1].v] ELSE got
  BY <1>1, <1>4 DEF OnNext
<1>7. \A j \in Stream : client[j] \in {"none", "active"} => Flow(toClient, j, Base(j), sent[j])
  BY <1>2 DEF IInv, Values
<1>8. client[i] = "active" =>
          /\ toClient[1].v = Had(i) + 1 /\ Had(i) + 1 <= sent[i]
          /\ Flow(toClient', i, Had(i) + 1, sent[i])
  <2> SUFFICES ASSUME client[i] = "active"
               PROVE  /\ toClient[1].v = Had(i) + 1 /\ Had(i) + 1 <= sent[i]
                      /\ Flow(toClient', i, Had(i) + 1, sent[i])
    OBVIOUS
  <2>1. known # "nothing"
    BY DEF IInv, Phases
  <2>2. IsNext(toClient, 1, i)
    BY <1>2, <1>4, <2>1 DEF IInv, Phases, Untyped, IsNext, Current
  <2>3. Flow(toClient, i, Had(i), sent[i])
    BY <1>7, <2>1 DEF Base
  <2> QED
    BY <1>1, <1>2, <1>5, <2>2, <2>3, FlowTailNext
<1>9. ASSUME NEW j \in Stream, client[j] \in {"none", "active"}, ~(j = i /\ client[i] = "active")
      PROVE  Flow(toClient', j, Base(j), sent[j])
  <2>1. ~IsNext(toClient, 1, j)
    <3>1. CASE j # i
      BY <1>4, <3>1 DEF IsNext
    <3>2. CASE j = i /\ known = "nothing" /\ kind # "observable" /\ i = 1
      <4>1. ~Untyped(toClient)
        BY <1>2, <3>2 DEF IInv, Phases, Queues, ObservableTypeOK
      <4> QED
        BY <1>1, <4>1 DEF IsNext, Current, Untyped
    <3>3. CASE j = i /\ ~(known = "nothing" /\ kind # "observable" /\ i = 1)
      <4>1. client[i] = "none"
        BY <1>9, <3>3
      <4>2. sent[i] = 0 /\ Base(i) = got[i]
        BY <3>3, <4>1 DEF IInv, Kinds, Base, Had, ObservableTypeOK
      <4> QED
        BY <1>1, <1>5, <1>7, <3>3, <4>1, <4>2, MsgAt DEF Flow, IInv, Queues
    <3> QED
      BY <3>1, <3>2, <3>3
  <2> QED
    BY <1>1, <1>2, <1>5, <1>7, <1>9, <2>1, FlowTail
<1>10. UNCHANGED <<server, known, released, client, disconnected, again, open, toServer>>
  BY DEF OnNext
<1>11. /\ got' \in [Stream -> 0 .. MaxNext]
       /\ \A j \in Stream : got'[j] <= sent[j] /\ got'[j] \in {got[j], Had(j) + 1}
       /\ \A j \in Stream : client[j] # "active" => got'[j] = got[j]
  <2>1. CASE client[i] = "active"
    <3>1. got' = [got EXCEPT ![i] = Had(i) + 1]
      BY <1>6, <1>8, <2>1
    <3>2. Had(i) + 1 \in 0 .. MaxNext /\ \A j \in Stream : got'[j] = IF j = i THEN Had(j) + 1 ELSE got[j]
      BY <1>5, <1>8, <2>1, <3>1, ObservableAssumption
    <3> QED
      BY <1>5, <1>8, <2>1, <3>1, <3>2
  <2>2. CASE client[i] # "active"
    BY <1>5, <1>6, <2>2
  <2> QED
    BY <2>1, <2>2
<1>20. ObservableTypeOK'
  BY <1>10, <1>11 DEF IInv, ObservableTypeOK, server
<1>21. Queues'
  BY <1>1, <1>10 DEF IInv, Queues, server
<1>22. Phases'
  <2>1. ~Untyped(toClient) <=> ~Untyped(toClient')
    BY <1>1, <1>2 DEF Untyped
  <2>2. \A j, k \in DOMAIN toClient' : toClient'[j].type = "type" /\ toClient'[k].type = "type" => j = k
    BY <1>1 DEF IInv, Phases
  <2>3. method # "running"
    BY <1>1, <1>2 DEF IInv, Phases
  <2> QED
    BY <1>10, <1>11, <2>1, <2>2, <2>3 DEF IInv, Phases, server
<1>23. Kinds'
  BY <1>10 DEF IInv, Kinds, server
<1>24. Values'
  <2> SUFFICES ASSUME NEW j \in Stream, client[j] \in {"none", "active"}
               PROVE  Flow(toClient, j, Base(j), sent[j])'
    BY <1>10 DEF Values, server
  <2>1. CASE j = i /\ client[i] = "active"
    <3>1. known' # "nothing" /\ got'[j] = Had(i) + 1 /\ sent' = sent
      BY <1>5, <1>6, <1>8, <1>10, <2>1 DEF IInv, Phases, server
    <3>2. Had(j)' = Had(i) + 1
      BY <1>5, <2>1, <3>1 DEF Had
    <3> QED
      BY <1>8, <2>1, <3>1, <3>2 DEF Base
  <2>2. CASE ~(j = i /\ client[i] = "active")
    <3>1. got'[j] = got[j] /\ UNCHANGED <<sent, known, kind, early>>
      BY <1>5, <1>6, <1>10, <2>2 DEF server
    <3> QED
      BY <1>9, <2>2, <3>1 DEF Base, Had
  <2> QED
    BY <2>1, <2>2
<1>25. Ends'
  BY <1>1, <1>2, <1>10, <1>11 DEF IInv, Ends, Had, Ended, server
<1>26. Errors'
  BY <1>1, <1>10 DEF IInv, Errors, NoReason, server
<1>27. Requests'
  BY <1>10 DEF IInv, Requests, server
<1>28. Orderly'
  BY <1>3, <1>10 DEF IInv, Orderly, Subscribed, server
<1>29. Subject'
  BY <1>1, <1>2, <1>3, <1>5, <1>10 DEF IInv, Subject, server
<1>30. NoneAfterClose'
  BY <1>10 DEF IInv, NoneAfterClose, server
<1> QED
  BY <1>11, <1>20, <1>21, <1>22, <1>23, <1>24, <1>25, <1>26, <1>27, <1>28, <1>29, <1>30 DEF IInv


\* The client is told what the result is.
LEMMA OnTypeInv ==
  ASSUME IInv, OnType
  PROVE  IInv' /\ \A j \in Stream : got'[j] \in {got[j], Had(j) + 1}
<1>1. /\ toClient' = Tail(toClient) /\ toClient' \in Seq(ToClientMsg)
      /\ DOMAIN toClient = 1 .. Len(toClient) /\ DOMAIN toClient' = 1 .. Len(toClient) - 1
      /\ Len(toClient) \in Nat \ {0} /\ Head(toClient) = toClient[1] /\ 1 \in DOMAIN toClient
      /\ \A k \in DOMAIN toClient' : k \in Nat /\ k + 1 \in DOMAIN toClient /\ toClient'[k] = toClient[k + 1]
      /\ \A k \in DOMAIN toClient : k # 1 => k - 1 \in DOMAIN toClient' /\ toClient'[k - 1] = toClient[k]
  BY TailAt DEF IInv, Queues, OnType, Receiving
<1>2. toClient[1].type = "type" /\ ~released /\ open /\ toClient # <<>> /\ toClient \in Seq(ToClientMsg)
  BY <1>1 DEF IInv, Queues, OnType, Receiving
<1>3. \A i \in Stream : Has(toClient', Ended, i) <=> Has(toClient, Ended, i)
  BY <1>1, <1>2, HasTail DEF Ended
<1>4. known = "nothing" /\ method = "returned"
  BY <1>1, <1>2 DEF IInv, Phases, Untyped, ObservableTypeOK
<1>5. /\ 1 \in Stream /\ early.values \in 0 .. 1 /\ 1 \in 0 .. MaxNext /\ early.values \in 0 .. MaxNext
      /\ got \in [Stream -> 0 .. MaxNext] /\ sent \in [Stream -> 0 .. MaxNext]
      /\ client \in [Stream -> {"none", "active", "unsubscribed"} \cup Ended]
      /\ \A j \in Stream : got[j] = 0 /\ client[j] = "none" /\ sent[j] \in Nat /\ Base(j) \in Nat
  BY <1>4, ObservableAssumption DEF IInv, ObservableTypeOK, Phases, Stream, Base, Had
<1>6. UNCHANGED <<server, released, disconnected, again, open, toServer>> /\ known' = kind
  BY DEF OnType
<1>7. /\ client' = IF kind # "observable" THEN [client EXCEPT ![1] = "active"] ELSE client
      /\ got' = IF kind = "behavior" THEN [got EXCEPT ![1] = early.values] ELSE got
  BY DEF OnType, FirstValue
<1>8. /\ client' \in [Stream -> {"none", "active", "unsubscribed"} \cup Ended]
      /\ got' \in [Stream -> 0 .. MaxNext]
      /\ \A j \in Stream : Base(j)' = Base(j) /\ got'[j] <= sent[j] /\ got'[j] \in {got[j], Had(j) + 1}
      /\ \A j \in Stream : client'[j] = IF kind # "observable" /\ j = 1 THEN "active" ELSE "none"
  <2>1. kind \in {"observable", "subject", "behavior"} /\ early' = early /\ kind' = kind /\ known' # "nothing"
    BY <1>6 DEF IInv, ObservableTypeOK, server
  <2>2. \A j \in Stream : got'[j] = IF kind = "behavior" /\ j = 1 THEN early.values ELSE 0
    BY <1>5, <1>7
  <2>3. \A j \in Stream : Base(j)' = Base(j)
    BY <1>4, <1>5, <2>1, <2>2 DEF Base, Had
  <2>4. \A j \in Stream : got'[j] <= sent[j] /\ got'[j] \in {got[j], Had(j) + 1}
    BY <1>5, <2>1, <2>2 DEF Had, IInv, Kinds
  <2> QED
    BY <1>5, <1>7, <2>3, <2>4
<1>9. Untyped(toClient')
  BY <1>1, <1>2 DEF IInv, Phases, Untyped
<1>10. toServer = <<>>
  BY <1>4 DEF IInv, Phases
<1>20. ObservableTypeOK'
  BY <1>4, <1>6, <1>8 DEF IInv, ObservableTypeOK, server
<1>21. Queues'
  BY <1>1, <1>6 DEF IInv, Queues, server
<1>22. Phases'
  BY <1>1, <1>2, <1>4, <1>6, <1>8, <1>9 DEF IInv, Phases, Untyped, ObservableTypeOK, server
<1>23. Kinds'
  BY <1>4, <1>5, <1>6, <1>8 DEF IInv, Kinds, server
<1>24. Values'
  <2> SUFFICES ASSUME NEW j \in Stream
               PROVE  Flow(toClient', j, Base(j)', sent[j])
    BY <1>6 DEF Values, server
  <2>1. Flow(toClient, j, Base(j), sent[j])
    BY <1>2, <1>5 DEF IInv, Values
  <2>2. ~IsNext(toClient, 1, j)
    BY <1>2 DEF IsNext
  <2> QED
    BY <1>1, <1>2, <1>5, <1>8, <2>1, <2>2, FlowTail
<1>25. Ends'
  BY <1>1, <1>2, <1>6, <1>8 DEF IInv, Ends, Had, Ended, server
<1>26. Errors'
  BY <1>1, <1>4, <1>5, <1>6 DEF IInv, Errors, NoReason, server
<1>27. Requests'
  BY <1>6, <1>10 DEF Requests, server
<1>28. Orderly'
  BY <1>3, <1>4, <1>6, <1>8, <1>10 DEF IInv, Orderly, Phases, Subscribed, Has, server
<1>29. Subject'
  BY <1>1, <1>2, <1>3, <1>5, <1>6, <1>8, <1>10 DEF IInv, Subject, Ended, server
<1>30. NoneAfterClose'
  BY <1>6 DEF IInv, NoneAfterClose, server
<1> QED
  BY <1>8, <1>20, <1>21, <1>22, <1>23, <1>24, <1>25, <1>26, <1>27, <1>28, <1>29, <1>30 DEF IInv


\* What a step that shifts toClient and may push one message to toServer does
\* to the two queues.
LEMMA ClientTail ==
  ASSUME toClient \in Seq(ToClientMsg), toClient # <<>>, toClient' = Tail(toClient)
  PROVE  /\ toClient' \in Seq(ToClientMsg)
         /\ DOMAIN toClient = 1 .. Len(toClient) /\ DOMAIN toClient' = 1 .. Len(toClient) - 1
         /\ Len(toClient) \in Nat \ {0} /\ Head(toClient) = toClient[1] /\ 1 \in DOMAIN toClient
         /\ \A k \in DOMAIN toClient' : k \in Nat /\ k + 1 \in DOMAIN toClient /\ toClient'[k] = toClient[k + 1]
         /\ \A k \in DOMAIN toClient : k # 1 => k - 1 \in DOMAIN toClient' /\ toClient'[k - 1] = toClient[k]
         /\ \A types, i : Has(toClient, types, i) <=>
                (toClient[1].type \in types /\ toClient[1].id = i) \/ Has(toClient', types, i)
<1>1. \A types, i : Has(toClient, types, i) <=>
                (toClient[1].type \in types /\ toClient[1].id = i) \/ Has(toClient', types, i)
  BY HasTail
<1> QED
  BY <1>1, TailAt

\* What a step that writes one message to the server does to toServer,
LEMMA ServerPush ==
  ASSUME toServer \in Seq(ToServerMsg), NEW m \in ToServerMsg, toServer' = toServer \o <<m>>
  PROVE  /\ toServer' \in Seq(ToServerMsg) /\ toServer' # <<>>
         /\ Len(toServer) \in Nat /\ Len(toServer') = Len(toServer) + 1
         /\ DOMAIN toServer = 1 .. Len(toServer) /\ DOMAIN toServer' = 1 .. Len(toServer) + 1
         /\ \A k \in DOMAIN toServer : k \in DOMAIN toServer' /\ toServer'[k] = toServer[k] /\ k < Len(toServer) + 1
         /\ Len(toServer) + 1 \in DOMAIN toServer' /\ toServer'[Len(toServer) + 1] = m
         /\ \A k \in DOMAIN toServer' : k \in DOMAIN toServer \/ k = Len(toServer) + 1
         /\ \A types, i : Has(toServer', types, i) <=> (m.type \in types /\ m.id = i) \/ Has(toServer, types, i)
<1>1. /\ toServer' \in Seq(ToServerMsg) /\ Len(toServer) \in Nat /\ Len(toServer') = Len(toServer) + 1
      /\ DOMAIN toServer = 1 .. Len(toServer) /\ DOMAIN toServer' = 1 .. Len(toServer) + 1
      /\ \A k \in 1 .. Len(toServer) : toServer'[k] = toServer[k]
      /\ toServer'[Len(toServer) + 1] = m
  BY PushAt
<1>2. \A types, i : Has(toServer', types, i) <=> (m.type \in types /\ m.id = i) \/ Has(toServer, types, i)
  BY HasPush
<1> QED
  BY <1>1, <1>2, EmptySeq

\* ... and one that writes to the client to toClient.
LEMMA ClientPush ==
  ASSUME toClient \in Seq(ToClientMsg), NEW m \in ToClientMsg, toClient' = toClient \o <<m>>
  PROVE  /\ toClient' \in Seq(ToClientMsg) /\ toClient' # <<>>
         /\ Len(toClient) \in Nat /\ Len(toClient') = Len(toClient) + 1
         /\ DOMAIN toClient = 1 .. Len(toClient) /\ DOMAIN toClient' = 1 .. Len(toClient) + 1
         /\ \A k \in DOMAIN toClient : k \in DOMAIN toClient' /\ toClient'[k] = toClient[k] /\ k < Len(toClient) + 1
         /\ Len(toClient) + 1 \in DOMAIN toClient' /\ toClient'[Len(toClient) + 1] = m
         /\ \A k \in DOMAIN toClient' : k \in DOMAIN toClient \/ k = Len(toClient) + 1
         /\ \A types, i : Has(toClient', types, i) <=> (m.type \in types /\ m.id = i) \/ Has(toClient, types, i)
<1>1. /\ toClient' \in Seq(ToClientMsg) /\ Len(toClient) \in Nat /\ Len(toClient') = Len(toClient) + 1
      /\ DOMAIN toClient = 1 .. Len(toClient) /\ DOMAIN toClient' = 1 .. Len(toClient) + 1
      /\ \A k \in 1 .. Len(toClient) : toClient'[k] = toClient[k]
      /\ toClient'[Len(toClient) + 1] = m
  BY PushAt
<1>2. \A types, i : Has(toClient', types, i) <=> (m.type \in types /\ m.id = i) \/ Has(toClient, types, i)
  BY HasPush
<1> QED
  BY <1>1, <1>2, EmptySeq

\* The end of a stream arrives at an observer that listens.
LEMMA OnEndActiveInv ==
  ASSUME IInv, OnEnd, client[Head(toClient).id] = "active"
  PROVE  IInv'
<1>1. toClient[1].type \in Ended /\ ~released /\ open /\ toClient # <<>> /\ toClient' = Tail(toClient)
      /\ toClient \in Seq(ToClientMsg) /\ toServer \in Seq(ToServerMsg)
  BY TailAt DEF IInv, Queues, OnEnd, Receiving
<1>2. /\ toClient' \in Seq(ToClientMsg)
      /\ DOMAIN toClient = 1 .. Len(toClient) /\ DOMAIN toClient' = 1 .. Len(toClient) - 1
      /\ Len(toClient) \in Nat \ {0} /\ Head(toClient) = toClient[1] /\ 1 \in DOMAIN toClient
      /\ \A k \in DOMAIN toClient' : k \in Nat /\ k + 1 \in DOMAIN toClient /\ toClient'[k] = toClient[k + 1]
      /\ \A k \in DOMAIN toClient : k # 1 => k - 1 \in DOMAIN toClient' /\ toClient'[k - 1] = toClient[k]
      /\ \A types, i : Has(toClient, types, i) <=>
             (toClient[1].type \in types /\ toClient[1].id = i) \/ Has(toClient', types, i)
  BY <1>1, ClientTail
<1>3. PICK i \in Stream : i = toClient[1].id
  BY <1>1, <1>2 DEF IInv, Queues
<1>4. PICK how \in Ended : how = toClient[1].type
  BY <1>1
<1>5. /\ i \in Nat /\ 1 \in Stream
      /\ got \in [Stream -> 0 .. MaxNext] /\ sent \in [Stream -> 0 .. MaxNext]
      /\ client \in [Stream -> {"none", "active", "unsubscribed"} \cup Ended]
      /\ \A j \in Stream : got[j] \in Nat /\ sent[j] \in Nat /\ got[j] <= sent[j] /\ Base(j) \in Nat
      /\ Had(i) \in Nat /\ Had(i) <= sent[i]
  BY Typed
<1>6. client[i] = "active"
  BY <1>2, <1>3
<1>7. known = kind /\ known # "nothing" /\ method = "returned" /\ (kind # "observable" => i = 1)
  BY <1>1, <1>5, <1>6 DEF IInv, Phases, Kinds, ObservableTypeOK
<1>8. client' = [client EXCEPT ![i] = how] /\ Send(GivesBack(i, how))
  BY <1>2, <1>3, <1>4, <1>6 DEF OnEnd, Finished
<1>9. UNCHANGED <<server, known, released, got, disconnected, again, open>>
  BY DEF OnEnd
<1>10. client' \in [Stream -> {"none", "active", "unsubscribed"} \cup Ended]
  BY <1>5, <1>8
<1>11. \A j \in Stream : client'[j] = IF j = i THEN how ELSE client[j]
  BY <1>5, <1>8
<1>12. how \notin {"none", "active", "unsubscribed"}
  BY DEF Ended
<1>13. \A j \in Stream : client[j] \in {"none", "active"} => Flow(toClient, j, Base(j), sent[j])
  BY <1>1 DEF IInv, Values
<1>14. Had(i) = sent[i]
  <2>1. \A k \in DOMAIN toClient : ~IsNext(toClient, k, i)
    BY <1>1, <1>2, <1>3, MsgAt DEF IInv, Ends, Had, IsNext
  <2>2. Flow(toClient, i, Had(i), sent[i])
    BY <1>6, <1>7, <1>13 DEF Base
  <2>3. sent[i] <= Had(i)
    BY <1>1, <1>5, <2>1, <2>2, FlowDone
  <2> QED
    BY <1>5, <2>3
<1>15. subs[i] \notin {"none", "active"}
  BY <1>1, <1>2, <1>3 DEF IInv, Ends, Had
<1>16. ASSUME kind = "observable"
       PROVE  Requests' /\ Queues' /\ Phases' /\ Kinds' /\ Orderly' /\ Subject'
  <2> DEFINE m == Msg("unsubscribe", i, 0)
  <2>1. m \in ToServerMsg /\ m.type = "unsubscribe" /\ m.id = i /\ toServer' = toServer \o <<m>>
    BY <1>1, <1>7, <1>8, <1>16 DEF Send, GivesBack, Msg, ToServerMsg
  <2> HIDE DEF m
  <2>2. /\ toServer' \in Seq(ToServerMsg) /\ toServer' # <<>>
        /\ Len(toServer) \in Nat /\ Len(toServer') = Len(toServer) + 1
        /\ DOMAIN toServer = 1 .. Len(toServer) /\ DOMAIN toServer' = 1 .. Len(toServer) + 1
        /\ \A k \in DOMAIN toServer : k \in DOMAIN toServer' /\ toServer'[k] = toServer[k] /\ k < Len(toServer) + 1
        /\ Len(toServer) + 1 \in DOMAIN toServer' /\ toServer'[Len(toServer) + 1] = m
        /\ \A k \in DOMAIN toServer' : k \in DOMAIN toServer \/ k = Len(toServer) + 1
        /\ \A types, j : Has(toServer', types, j) <=> (m.type \in types /\ m.id = j) \/ Has(toServer, types, j)
    BY <1>1, <2>1, ServerPush
  <2>3. \A k \in DOMAIN toServer : toServer[k].type = "unsubscribe" => toServer[k].id # i
    BY <1>6, <1>16 DEF IInv, Requests
  <2>4. \A j, k \in DOMAIN toServer' : toServer'[j].type # "disconnect" /\ toServer'[j].type = toServer'[k].type /\ toServer'[j].id = toServer'[k].id => j = k
    BY <1>16, <2>1, <2>2, <2>3 DEF IInv, Requests
  <2>5. \A k \in DOMAIN toServer' :
          /\ toServer'[k].type = "subscribe" => client'[toServer'[k].id] # "none" /\ subs[toServer'[k].id] = "none"
          /\ toServer'[k].type = "unsubscribe" => client'[toServer'[k].id] \notin {"none", "active"}
          /\ toServer'[k].type = "disconnect" => toServer'[k].id = 1 /\ disconnected
    <3> TAKE k \in DOMAIN toServer'
    <3>1. CASE k = Len(toServer) + 1
      BY <1>11, <1>12, <2>1, <2>2, <3>1
    <3>2. CASE k \in DOMAIN toServer
      <4>1. toServer[k].id \in Stream
        BY <1>1, <3>2, RequestAt
      <4> QED
        BY <1>11, <1>12, <1>16, <2>2, <3>2, <4>1 DEF IInv, Requests
    <3> QED
      BY <2>2, <3>1, <3>2
  <2>20. Requests'
    BY <1>9, <2>4, <2>5 DEF Requests, server
  <2>21. Queues'
    BY <1>1, <1>2, <1>9, <2>2 DEF IInv, Queues, server
  <2>22. Phases'
    BY <1>1, <1>2, <1>7, <1>9, <1>11, <1>12 DEF IInv, Phases, Untyped, server
  <2>23. Kinds'
    BY <1>9, <1>11, <1>12, <1>16, <2>1, <2>2, <1>6 DEF IInv, Kinds, server
  <2>24. Subject'
    BY <1>9, <1>16 DEF Subject, server
  <2>25. Orderly'
    <3> SUFFICES ASSUME ~again
                 PROVE  Orderly'
      BY <1>9 DEF Orderly
    <3>1. ~disconnected /\ kept
      BY <1>1, <1>6, <1>7, <1>16 DEF IInv, Orderly
    <3>2. Subscribed(i) \/ Has(toServer, {"subscribe"}, i)
      BY <1>1, <1>6, <1>16 DEF IInv, Orderly
    <3>3. \A k \in DOMAIN toServer : toServer[k].type # "disconnect"
      BY <1>16, <3>1 DEF IInv, Requests
    <3>4. ASSUME NEW k \in DOMAIN toServer', toServer'[k].type = "unsubscribe"
          PROVE  \/ Subscribed(toServer'[k].id)
                 \/ \E j \in DOMAIN toServer' : j < k /\ toServer'[j].type = "subscribe" /\ toServer'[j].id = toServer'[k].id
      <4>1. CASE k \in DOMAIN toServer
        BY <1>1, <1>16, <2>2, <3>4, <4>1 DEF IInv, Orderly
      <4>2. CASE k = Len(toServer) + 1
        BY <2>1, <2>2, <3>2, <4>2 DEF Has
      <4> QED
        BY <2>2, <4>1, <4>2
    <3>5. \A k \in DOMAIN toServer' : toServer'[k].type # "disconnect"
      BY <2>1, <2>2, <3>3
    <3>6. \A j \in Stream : client'[j] = "active" => Subscribed(j) \/ Has(toServer', {"subscribe"}, j)
      BY <1>1, <1>11, <1>12, <1>16, <2>2 DEF IInv, Orderly
    <3>7. \A j \in Stream : client'[j] # "active" /\ (Subscribed(j) \/ Has(toServer', {"subscribe"}, j))
                                => Has(toServer', {"unsubscribe"}, j)
      BY <1>1, <1>11, <1>12, <1>16, <2>1, <2>2 DEF IInv, Orderly
    <3>8. \A j \in Stream : client'[j] = "active" /\ subs[j] \in Ended => Has(toClient', Ended, j)
      BY <1>1, <1>2, <1>3, <1>11, <1>12, <1>16 DEF IInv, Orderly
    <3> QED
      BY <1>9, <3>1, <3>4, <3>5, <3>6, <3>7, <3>8 DEF Orderly, Subscribed, server
  <2> QED
    BY <2>20, <2>21, <2>22, <2>23, <2>24, <2>25
<1>17. ASSUME kind # "observable"
       PROVE  Requests' /\ Queues' /\ Phases' /\ Kinds' /\ Orderly' /\ Subject'
  <2>1. i = 1 /\ kept /\ toServer = <<>> /\ Len(toServer) = 0
    BY <1>1, <1>6, <1>7, <1>17, EmptySeq DEF IInv, Subject
  <2>2. /\ toServer' \in Seq(ToServerMsg) /\ Len(toServer') <= 1
        /\ \A k \in DOMAIN toServer' : toServer'[k].type = "complete"
    <3> DEFINE m == Msg("complete", i, 0)
    <3>1. m \in ToServerMsg /\ m.type = "complete"
      BY DEF Msg, ToServerMsg
    <3>2. toServer' = toServer \/ toServer' = toServer \o <<m>>
      BY <1>1, <1>7, <1>8, <1>17, <2>1 DEF Send, GivesBack
    <3> HIDE DEF m
    <3>3. CASE toServer' = toServer
      BY <2>1, <3>3, <1>1
    <3>4. CASE toServer' = toServer \o <<m>>
      BY <1>1, <2>1, <3>1, <3>4, ServerPush
    <3> QED
      BY <3>2, <3>3, <3>4
  <2>20. Requests'
    BY <1>9, <1>17 DEF Requests, server
  <2>21. Queues'
    BY <1>1, <1>2, <1>9, <2>2 DEF IInv, Queues, server
  <2>22. Phases'
    BY <1>1, <1>2, <1>7, <1>9, <1>11, <1>12 DEF IInv, Phases, Untyped, server
  <2>23. Kinds'
    BY <1>9, <1>11, <1>12, <1>17, <2>1, <2>2 DEF IInv, Kinds, server
  <2>24. Orderly'
    BY <1>9, <1>17 DEF Orderly, server
  <2>25. Subject'
    <3>1. ~Has(toClient', Ended, 1)
      BY <1>1, <1>2, <1>17 DEF IInv, Ends, Had, Has
    <3>2. client'[1] \in Ended /\ client'[1] \notin {"none", "active", "unsubscribed"}
      BY <1>11, <1>12, <2>1
    <3> QED
      BY <1>2, <1>9, <1>15, <2>1, <2>2, <3>1, <3>2, <1>1, <1>7 DEF IInv, Subject, server
  <2> QED
    BY <2>20, <2>21, <2>22, <2>23, <2>24, <2>25
<1>18. Requests' /\ Queues' /\ Phases' /\ Kinds' /\ Orderly' /\ Subject'
  BY <1>16, <1>17 DEF IInv, ObservableTypeOK
<1>20. ObservableTypeOK'
  BY <1>9, <1>10, <1>18 DEF IInv, ObservableTypeOK, server
<1>24. Values'
  <2> SUFFICES ASSUME NEW j \in Stream, client[j] \in {"none", "active"}, j # i
               PROVE  Flow(toClient', j, Base(j), sent[j])
    BY <1>9, <1>11, <1>12 DEF Values, Base, Had, server
  <2>1. ~IsNext(toClient, 1, j)
    BY <1>1 DEF IsNext, Ended
  <2> QED
    BY <1>1, <1>5, <1>13, <2>1, FlowTail
<1>25. Ends'
  <2>1. \A k \in DOMAIN toClient' : toClient'[k].type \in Ended =>
            /\ subs[toClient'[k].id] \notin {"none", "active"}
            /\ \A j \in DOMAIN toClient' : toClient'[j].type = "next" /\ toClient'[j].id = toClient'[k].id => j < k
    <3> SUFFICES ASSUME NEW k \in DOMAIN toClient', toClient'[k].type \in Ended
                 PROVE  /\ subs[toClient'[k].id] \notin {"none", "active"}
                        /\ \A j \in DOMAIN toClient' :
                               toClient'[j].type = "next" /\ toClient'[j].id = toClient'[k].id => j < k
      OBVIOUS
    <3>1. k + 1 \in DOMAIN toClient /\ toClient'[k] = toClient[k + 1]
      BY <1>2
    <3>2. \A j \in DOMAIN toClient : toClient[j].type = "next" /\ toClient[j].id = toClient[k + 1].id => j < k + 1
      BY <3>1 DEF IInv, Ends, Had
    <3>3. subs[toClient[k + 1].id] \notin {"none", "active"}
      BY <3>1 DEF IInv, Ends, Had
    <3>4. ASSUME NEW j \in DOMAIN toClient', toClient'[j].type = "next", toClient'[j].id = toClient'[k].id
          PROVE  j < k
      <4>1. j + 1 \in DOMAIN toClient /\ toClient'[j] = toClient[j + 1] /\ j \in Nat /\ k \in Nat
        BY <1>2
      <4>2. j + 1 < k + 1
        BY <3>1, <3>2, <3>4, <4>1
      <4> QED
        BY <4>1, <4>2
    <3> QED
      BY <3>1, <3>3, <3>4
  <2>2. kind # "observable" => \A j, k \in DOMAIN toClient' : toClient'[j].type \in Ended /\ toClient'[k].type \in Ended => j = k
    BY <1>2 DEF IInv, Ends, Had
  <2>3. \A j \in Stream : client'[j] \in Ended /\ ~disconnected =>
            subs[j] \notin {"none", "active"} /\ Had(j) = sent[j]
    BY <1>11, <1>14, <1>15 DEF IInv, Ends
  <2> QED
    BY <1>9, <2>1, <2>2, <2>3 DEF Ends, Had, server
<1>26. Errors'
  <2>1. NoReason => NoReason'
    BY <1>6, <1>7, <1>9, <1>11 DEF NoReason, server
  <2> QED
    BY <1>2, <1>9, <2>1 DEF IInv, Errors
<1>30. NoneAfterClose'
  BY <1>9 DEF IInv, NoneAfterClose, server
<1> QED
  BY <1>18, <1>20, <1>24, <1>25, <1>26, <1>30 DEF IInv

\* The end of a stream arrives where nobody listens: before the type of the
\* result is known, or when the client has unsubscribed.
LEMMA OnEndLateInv ==
  ASSUME IInv, OnEnd, client[Head(toClient).id] # "active"
  PROVE  IInv'
<1>1. toClient[1].type \in Ended /\ ~released /\ open /\ toClient # <<>> /\ toClient' = Tail(toClient)
      /\ toClient \in Seq(ToClientMsg) /\ toServer \in Seq(ToServerMsg)
  BY TailAt DEF IInv, Queues, OnEnd, Receiving
<1>2. /\ toClient' \in Seq(ToClientMsg)
      /\ DOMAIN toClient = 1 .. Len(toClient) /\ DOMAIN toClient' = 1 .. Len(toClient) - 1
      /\ Len(toClient) \in Nat \ {0} /\ Head(toClient) = toClient[1] /\ 1 \in DOMAIN toClient
      /\ \A k \in DOMAIN toClient' : k \in Nat /\ k + 1 \in DOMAIN toClient /\ toClient'[k] = toClient[k + 1]
      /\ \A k \in DOMAIN toClient : k # 1 => k - 1 \in DOMAIN toClient' /\ toClient'[k - 1] = toClient[k]
      /\ \A types, i : Has(toClient, types, i) <=>
             (toClient[1].type \in types /\ toClient[1].id = i) \/ Has(toClient', types, i)
  BY <1>1, ClientTail
<1>3. PICK i \in Stream : i = toClient[1].id
  BY <1>1, <1>2 DEF IInv, Queues
<1>4. PICK how \in Ended : how = toClient[1].type
  BY <1>1
<1>5. UNCHANGED <<server, known, released, got, client, disconnected, again, open>>
  BY <1>2 DEF OnEnd
<1>6. client[i] # "active" /\ method = "returned"
  BY <1>1, <1>2, <1>3 DEF IInv, Phases, ObservableTypeOK
<1>7. \/ toServer' = toServer
      \/ known \in {"subject", "behavior"} /\ how = "completed" /\ toServer' = toServer \o <<Msg("complete", i, 0)>>
  BY <1>1, <1>2, <1>3, <1>4, <1>6 DEF OnEnd, Send, GivesBack
<1>8. Phases' /\ NoneAfterClose'
  <2>1. \A j, k \in DOMAIN toClient' : toClient'[j].type = "type" /\ toClient'[k].type = "type" => j = k
    BY <1>2 DEF IInv, Phases
  <2>2. Untyped(toClient) <=> Untyped(toClient')
    <3>1. toClient[1].type # "type"
      BY <1>1 DEF Ended
    <3>2. /\ \A k \in DOMAIN toClient' : k + 1 \in DOMAIN toClient /\ toClient'[k] = toClient[k + 1]
          /\ \A k \in DOMAIN toClient : k # 1 => k - 1 \in DOMAIN toClient' /\ toClient'[k - 1] = toClient[k]
      BY <1>2
    <3>3. ASSUME Untyped(toClient)
          PROVE  Untyped(toClient')
      BY <3>2, <3>3 DEF Untyped
    <3>4. ASSUME Untyped(toClient')
          PROVE  Untyped(toClient)
      <4> SUFFICES ASSUME NEW k \in DOMAIN toClient
                   PROVE  toClient[k].type # "type"
        BY DEF Untyped
      <4>1. CASE k = 1
        BY <3>1, <4>1
      <4>2. CASE k # 1
        BY <3>2, <3>4, <4>2 DEF Untyped
      <4> QED
        BY <4>1, <4>2
    <3> QED
      BY <3>3, <3>4
  <2>3. known = "nothing" => toServer' = <<>>
    BY <1>7 DEF IInv, Phases
  <2> QED
    BY <1>5, <1>6, <2>1, <2>2, <2>3 DEF IInv, Phases, NoneAfterClose, server
<1>9. Values'
  <2> SUFFICES ASSUME NEW j \in Stream, client[j] \in {"none", "active"}
               PROVE  Flow(toClient', j, Base(j), sent[j])
    BY <1>5 DEF Values, Base, Had, server
  <2>1. ~IsNext(toClient, 1, j)
    BY <1>1 DEF IsNext, Ended
  <2>2. Flow(toClient, j, Base(j), sent[j]) /\ Base(j) \in Nat /\ sent[j] \in Nat
    BY <1>1, Typed DEF IInv, Values
  <2> QED
    BY <1>1, <2>1, <2>2, FlowTail
<1>10. Ends'
  <2>1. ASSUME NEW k \in DOMAIN toClient', toClient'[k].type \in Ended
        PROVE  /\ subs[toClient'[k].id] \notin {"none", "active"}
               /\ \A j \in DOMAIN toClient' : toClient'[j].type = "next" /\ toClient'[j].id = toClient'[k].id => j < k
    <3>1. k + 1 \in DOMAIN toClient /\ toClient'[k] = toClient[k + 1] /\ k \in Nat
      BY <1>2
    <3>2. \A j \in DOMAIN toClient : toClient[j].type = "next" /\ toClient[j].id = toClient[k + 1].id => j < k + 1
      BY <2>1, <3>1 DEF IInv, Ends, Had
    <3>3. subs[toClient[k + 1].id] \notin {"none", "active"}
      BY <2>1, <3>1 DEF IInv, Ends, Had
    <3>4. ASSUME NEW j \in DOMAIN toClient', toClient'[j].type = "next", toClient'[j].id = toClient'[k].id
          PROVE  j < k
      <4>1. j + 1 \in DOMAIN toClient /\ toClient'[j] = toClient[j + 1] /\ j \in Nat
        BY <1>2
      <4>2. j + 1 < k + 1
        BY <3>1, <3>2, <3>4, <4>1
      <4> QED
        BY <3>1, <4>1, <4>2
    <3> QED
      BY <3>1, <3>3, <3>4
  <2>2. kind # "observable" => \A j, k \in DOMAIN toClient' : toClient'[j].type \in Ended /\ toClient'[k].type \in Ended => j = k
    BY <1>2 DEF IInv, Ends, Had
  <2> QED
    BY <1>5, <2>1, <2>2 DEF IInv, Ends, Had, server
<1>11. Errors'
  BY <1>2, <1>5 DEF IInv, Errors, NoReason, server
<1>12. CASE kind = "observable"
  <2>1. toServer' = toServer
    BY <1>7, <1>12 DEF IInv, ObservableTypeOK
  <2>2. Requests' /\ Kinds' /\ Subject'
    BY <1>5, <1>12, <2>1 DEF IInv, Requests, Kinds, Subject, server
  <2>3. Orderly'
    BY <1>2, <1>3, <1>5, <1>6, <2>1 DEF IInv, Orderly, Subscribed, server
  <2>4. ObservableTypeOK' /\ Queues'
    BY <1>2, <1>5, <2>1 DEF IInv, ObservableTypeOK, Queues, server
  <2> QED
    BY <1>8, <1>9, <1>10, <1>11, <2>2, <2>3, <2>4 DEF IInv
<1>13. CASE kind # "observable"
  <2>1. /\ i = 1 /\ Has(toClient, Ended, 1) /\ ~Has(toClient', Ended, 1) /\ subs[1] # "active"
        /\ \A k \in DOMAIN toClient' : toClient'[k].type \notin Ended
    <3>1. i = 1
      BY <1>1, <1>2, <1>3, <1>13 DEF IInv, Kinds, Ends, Had
    <3>2. Has(toClient, Ended, 1)
      BY <1>1, <1>2, <1>3, <3>1
    <3>3. \A k \in DOMAIN toClient : toClient[k].type \in Ended => k = 1
      BY <1>1, <1>2, <1>13 DEF IInv, Ends, Had
    <3>4. \A k \in DOMAIN toClient' : toClient'[k].type \notin Ended
      <4> TAKE k \in DOMAIN toClient'
      <4>1. k + 1 \in DOMAIN toClient /\ toClient'[k] = toClient[k + 1] /\ k + 1 # 1
        BY <1>2
      <4> QED
        BY <3>3, <4>1
    <3>5. subs[1] # "active"
      BY <1>1, <1>2, <1>3, <3>1 DEF IInv, Ends, Had
    <3> QED
      BY <3>1, <3>2, <3>4, <3>5 DEF Has
  <2>2. client[1] \in {"none", "unsubscribed"}
    BY <1>1, <1>6, <1>13, <2>1, Typed DEF IInv, Subject
  <2>3. CASE client[1] = "none"
    <3>1. known = "nothing" /\ toServer' = toServer /\ toServer = <<>>
      BY <1>7, <1>13, <2>3 DEF IInv, Kinds, Phases
    <3>2. early.end # "none"
      <4>1. PICK j \in DOMAIN toClient : toClient[j].type = "type"
        BY <1>1, <1>6, <3>1 DEF IInv, Phases, Untyped
      <4>2. ~(j < 1)
        BY <1>2
      <4> QED
        BY <1>1, <1>2, <1>6, <1>13, <4>1, <4>2 DEF IInv, Subject
    <3>3. Subject'
      BY <1>1, <1>5, <1>6, <1>13, <2>3, <3>1, <3>2 DEF IInv, Subject, Ended, server
    <3>4. Requests' /\ Kinds' /\ Orderly'
      BY <1>5, <1>13, <3>1 DEF IInv, Requests, Kinds, Orderly, server
    <3>5. ObservableTypeOK' /\ Queues'
      BY <1>2, <1>5, <3>1 DEF IInv, ObservableTypeOK, Queues, server
    <3> QED
      BY <1>8, <1>9, <1>10, <1>11, <3>3, <3>4, <3>5 DEF IInv
  <2>4. CASE client[1] = "unsubscribed"
    <3>1. Len(toServer) <= 1 /\ Len(toServer) \in Nat
      BY <1>1, <1>6, <1>13, <2>1, <2>4, LenProperties DEF IInv, Subject
    <3>2. /\ toServer' \in Seq(ToServerMsg) /\ Len(toServer') <= 2
          /\ \A k \in DOMAIN toServer' : toServer'[k].type = "complete"
      <4> DEFINE m == Msg("complete", i, 0)
      <4>1. m \in ToServerMsg /\ m.type = "complete"
        BY DEF Msg, ToServerMsg
      <4>2. \A k \in DOMAIN toServer : toServer[k].type = "complete"
        BY <1>13 DEF IInv, Kinds
      <4>3. toServer' = toServer \/ toServer' = toServer \o <<m>>
        BY <1>7
      <4> HIDE DEF m
      <4>4. CASE toServer' = toServer
        BY <1>1, <3>1, <4>2, <4>4
      <4>5. CASE toServer' = toServer \o <<m>>
        BY <1>1, <3>1, <4>1, <4>2, <4>5, ServerPush
      <4> QED
        BY <4>3, <4>4, <4>5
    <3>3. Subject'
      <4>1. early.end = "none" => \A j, k \in DOMAIN toClient' : toClient'[j].type = "type" /\ toClient'[k].type \in Ended => j < k
        BY <2>1
      <4> QED
        BY <1>1, <1>5, <1>6, <1>13, <2>1, <2>4, <3>2, <4>1 DEF IInv, Subject, Ended, server
    <3>4. Requests' /\ Kinds' /\ Orderly'
      BY <1>5, <1>13, <3>2 DEF IInv, Requests, Kinds, Orderly, server
    <3>6. ObservableTypeOK' /\ Queues'
      BY <1>1, <1>2, <1>5, <3>2 DEF IInv, ObservableTypeOK, Queues, server
    <3> QED
      BY <1>8, <1>9, <1>10, <1>11, <3>3, <3>4, <3>6 DEF IInv
  <2> QED
    BY <2>2, <2>3, <2>4
<1> QED
  BY <1>12, <1>13 DEF IInv, ObservableTypeOK


\* The connection ends.
LEMMA CloseInv ==
  ASSUME IInv, Close
  PROVE  IInv'
<1>1. /\ toServer' = <<>> /\ toClient' = <<>> /\ ~open' /\ open /\ open' \in BOOLEAN
      /\ UNCHANGED <<kind, method, early, sent, kept, known, released, client, got, disconnected, again>>
  BY DEF Close, browser
<1>2. subs \in [Stream -> {"none", "active", "removed"} \cup Ended] /\ Len(toServer') = 0 /\ Streams \in Nat
  BY <1>1, Typed
<1>3. \A i \in Stream : subs'[i] = IF subs[i] # "active" THEN subs[i] ELSE IF kind # "observable" THEN "completed" ELSE "removed"
  BY DEF Close, Closed
<1>4. subs' \in [Stream -> {"none", "active", "removed"} \cup Ended]
  BY <1>2 DEF Close, Closed, Ended
<1>5. \A i \in Stream : /\ subs'[i] # "active" /\ (subs[i] = "none" <=> subs'[i] = "none")
                        /\ (subs[i] \notin {"none", "active"} => subs'[i] \notin {"none", "active"})
  BY <1>3
<1>20. ObservableTypeOK'
  BY <1>1, <1>2, <1>4 DEF IInv, ObservableTypeOK
<1>21. Queues'
  BY <1>1 DEF Queues
<1>22. Phases'
  BY <1>1, <1>5 DEF IInv, Phases, Untyped
<1>23. Kinds'
  BY <1>1, <1>5 DEF IInv, Kinds
<1>24. Values'
  BY <1>1 DEF Values
<1>25. Ends'
  BY <1>1, <1>5 DEF IInv, Ends, Had
<1>26. Errors'
  BY <1>1 DEF IInv, Errors, NoReason
<1>27. Requests' /\ Orderly' /\ Subject'
  BY <1>1 DEF Requests, Orderly, Subject
<1>28. NoneAfterClose'
  BY <1>5 DEF NoneAfterClose
<1> QED
  BY <1>20, <1>21, <1>22, <1>23, <1>24, <1>25, <1>26, <1>27, <1>28 DEF IInv

\* A request of the client changes nothing else on its side but one observer.
LEMMA SubscribeInv ==
  ASSUME IInv, NEW i \in Stream, Subscribe(i)
  PROVE  IInv'
<1>1. /\ client \in [Stream -> {"none", "active", "unsubscribed"} \cup Ended]
      /\ toServer \in Seq(ToServerMsg) /\ toClient \in Seq(ToClientMsg)
  BY Typed
<1>2. /\ known = "observable" /\ kind = "observable" /\ client[i] = "none" /\ method # "running"
      /\ client' = [client EXCEPT ![i] = "active"] /\ again' = (again \/ disconnected)
      /\ UNCHANGED <<server, known, released, got, disconnected, open, toClient>>
  BY DEF Subscribe, Unused, IInv, ObservableTypeOK
<1>3. /\ client' \in [Stream -> {"none", "active", "unsubscribed"} \cup Ended]
      /\ \A j \in Stream : client'[j] = IF j = i THEN "active" ELSE client[j]
  BY <1>1, <1>2
<1>4. subs[i] = "none" /\ sent[i] = 0
  BY <1>2 DEF IInv, Kinds
<1> DEFINE m == Msg("subscribe", i, 0)
<1>5. m \in ToServerMsg /\ m.type = "subscribe" /\ m.id = i
  BY DEF Msg, ToServerMsg
<1>6. toServer' = IF open THEN toServer \o <<m>> ELSE toServer
  BY DEF Subscribe, Send
<1> HIDE DEF m
<1>7. Phases' /\ Errors' /\ Values' /\ Ends' /\ Subject' /\ NoneAfterClose'
  <2>1. Phases'
    BY <1>2, <1>3 DEF IInv, Phases, server
  <2>2. Errors'
    BY <1>2 DEF IInv, Errors, NoReason, server
  <2>3. Values'
    BY <1>2, <1>3 DEF IInv, Values, Base, Had, server
  <2>4. Ends'
    BY <1>2, <1>3 DEF IInv, Ends, Had, Ended, server
  <2> QED
    BY <1>2, <2>1, <2>2, <2>3, <2>4 DEF IInv, Subject, NoneAfterClose, server
<1>8. CASE ~open
  <2>1. toServer' = toServer /\ toServer = <<>>
    BY <1>6, <1>8 DEF IInv, Queues
  <2>2. Requests' /\ Kinds'
    BY <1>2, <1>3, <2>1 DEF IInv, Requests, Kinds, server
  <2>3. ObservableTypeOK' /\ Queues' /\ Orderly'
    BY <1>2, <1>3, <1>8, <2>1 DEF IInv, ObservableTypeOK, Queues, Orderly, server
  <2> QED
    BY <1>7, <2>2, <2>3 DEF IInv
<1>9. CASE open
  <2>1. /\ toServer' \in Seq(ToServerMsg) /\ toServer' # <<>>
        /\ Len(toServer) \in Nat /\ Len(toServer') = Len(toServer) + 1
        /\ DOMAIN toServer = 1 .. Len(toServer) /\ DOMAIN toServer' = 1 .. Len(toServer) + 1
        /\ \A k \in DOMAIN toServer : k \in DOMAIN toServer' /\ toServer'[k] = toServer[k] /\ k < Len(toServer) + 1
        /\ Len(toServer) + 1 \in DOMAIN toServer' /\ toServer'[Len(toServer) + 1] = m
        /\ \A k \in DOMAIN toServer' : k \in DOMAIN toServer \/ k = Len(toServer) + 1
        /\ \A types, j : Has(toServer', types, j) <=> (m.type \in types /\ m.id = j) \/ Has(toServer, types, j)
    BY <1>1, <1>5, <1>6, <1>9, ServerPush
  <2>2. \A k \in DOMAIN toServer : toServer[k].type = "subscribe" => toServer[k].id # i
    BY <1>2 DEF IInv, Requests
  <2>3. \A j, k \in DOMAIN toServer' : toServer'[j].type # "disconnect" /\ toServer'[j].type = toServer'[k].type /\ toServer'[j].id = toServer'[k].id => j = k
    BY <1>2, <1>5, <2>1, <2>2 DEF IInv, Requests
  <2>4. \A k \in DOMAIN toServer' :
          /\ toServer'[k].type = "subscribe" => client'[toServer'[k].id] # "none" /\ subs[toServer'[k].id] = "none"
          /\ toServer'[k].type = "unsubscribe" => client'[toServer'[k].id] \notin {"none", "active"}
          /\ toServer'[k].type = "disconnect" => toServer'[k].id = 1 /\ disconnected
    <3> TAKE k \in DOMAIN toServer'
    <3>1. CASE k = Len(toServer) + 1
      BY <1>3, <1>4, <1>5, <2>1, <3>1
    <3>2. CASE k \in DOMAIN toServer
      <4>1. toServer[k].id \in Stream
        BY <1>1, <3>2, RequestAt
      <4> QED
        BY <1>2, <1>3, <2>1, <3>2, <4>1 DEF IInv, Requests
    <3> QED
      BY <2>1, <3>1, <3>2
  <2>5. Requests'
    BY <1>2, <2>3, <2>4 DEF Requests, server
  <2>6. Kinds'
    BY <1>2, <1>3, <1>5, <2>1 DEF IInv, Kinds, server
  <2>8. ObservableTypeOK' /\ Queues'
    BY <1>2, <1>3, <1>9, <2>1 DEF IInv, ObservableTypeOK, Queues, server
  <2>9. Orderly'
    <3> SUFFICES ASSUME ~again, ~disconnected
                 PROVE  Orderly'
      BY <1>2 DEF Orderly
    <3>1. \A k \in DOMAIN toServer' : toServer'[k].type # "disconnect"
      BY <1>2, <1>5, <2>1 DEF IInv, Requests
    <3>2. ASSUME NEW k \in DOMAIN toServer', toServer'[k].type = "unsubscribe"
          PROVE  \/ Subscribed(toServer'[k].id)
                 \/ \E j \in DOMAIN toServer' : j < k /\ toServer'[j].type = "subscribe" /\ toServer'[j].id = toServer'[k].id
      BY <1>2, <1>5, <1>9, <2>1, <3>2 DEF IInv, Orderly
    <3>3. kept \/ method # "returned"
      BY <1>2, <1>9 DEF IInv, Orderly
    <3>4. \A j \in Stream : client'[j] = "active" => Subscribed(j) \/ Has(toServer', {"subscribe"}, j)
      BY <1>2, <1>3, <1>5, <1>9, <2>1 DEF IInv, Orderly
    <3>5. \A j \in Stream : client'[j] # "active" /\ (Subscribed(j) \/ Has(toServer', {"subscribe"}, j))
                                => Has(toServer', {"unsubscribe"}, j)
      BY <1>2, <1>3, <1>5, <1>9, <2>1 DEF IInv, Orderly
    <3>6. \A j \in Stream : client'[j] = "active" /\ subs[j] \in Ended => Has(toClient, Ended, j)
      BY <1>2, <1>3, <1>4, <1>9 DEF IInv, Orderly, Ended
    <3> QED
      BY <1>2, <3>1, <3>2, <3>3, <3>4, <3>5, <3>6 DEF Orderly, Subscribed, server
  <2> QED
    BY <1>7, <2>5, <2>6, <2>8, <2>9 DEF IInv
<1> QED
  BY <1>8, <1>9


\* An observer, or the subject, of the client is unsubscribed.
LEMMA UnsubscribeInv ==
  ASSUME IInv, NEW i \in Stream, Unsubscribe(i)
  PROVE  IInv'
<1>1. /\ client \in [Stream -> {"none", "active", "unsubscribed"} \cup Ended]
      /\ toServer \in Seq(ToServerMsg) /\ toClient \in Seq(ToClientMsg)
  BY Typed
<1>2. /\ client[i] = "active" /\ client' = [client EXCEPT ![i] = "unsubscribed"]
      /\ UNCHANGED <<server, known, released, got, disconnected, again, open, toClient>>
  BY DEF Unsubscribe
<1>3. /\ client' \in [Stream -> {"none", "active", "unsubscribed"} \cup Ended]
      /\ \A j \in Stream : client'[j] = IF j = i THEN "unsubscribed" ELSE client[j]
  BY <1>1, <1>2
<1>4. known # "nothing" /\ known = kind /\ method # "running" /\ (kind # "observable" => i = 1) /\ kind \in {"observable", "subject", "behavior"}
  BY <1>2 DEF IInv, Phases, Kinds, ObservableTypeOK
<1> DEFINE m == IF kind = "observable" THEN Msg("unsubscribe", i, 0) ELSE Msg("complete", i, 0)
<1>5. m \in ToServerMsg /\ m.type = (IF kind = "observable" THEN "unsubscribe" ELSE "complete") /\ m.id = i
  BY DEF Msg, ToServerMsg
<1>6. toServer' = IF open THEN toServer \o <<m>> ELSE toServer
  BY <1>4 DEF Unsubscribe, Send, GivesBack
<1> HIDE DEF m
<1>7. Phases' /\ Errors' /\ Values' /\ Ends' /\ NoneAfterClose'
  <2>1. Phases'
    BY <1>2, <1>3, <1>4 DEF IInv, Phases, server
  <2>2. Errors'
    BY <1>2, <1>3, <1>4 DEF IInv, Errors, NoReason, server
  <2>3. Values'
    BY <1>2, <1>3 DEF IInv, Values, Base, Had, server
  <2>4. Ends'
    BY <1>2, <1>3 DEF IInv, Ends, Had, Ended, server
  <2> QED
    BY <1>2, <2>1, <2>2, <2>3, <2>4 DEF IInv, NoneAfterClose, server
<1>8. CASE ~open
  <2>1. toServer' = toServer /\ toServer = <<>>
    BY <1>6, <1>8 DEF IInv, Queues
  <2>2. Requests' /\ Kinds'
    BY <1>2, <1>3, <2>1 DEF IInv, Requests, Kinds, server
  <2>3. ObservableTypeOK' /\ Queues' /\ Orderly' /\ Subject'
    BY <1>2, <1>3, <1>8, <2>1 DEF IInv, ObservableTypeOK, Queues, Orderly, Subject, server
  <2> QED
    BY <1>7, <2>2, <2>3 DEF IInv
<1>9. ASSUME open
      PROVE  /\ toServer' \in Seq(ToServerMsg) /\ toServer' # <<>>
             /\ Len(toServer) \in Nat /\ Len(toServer') = Len(toServer) + 1
             /\ DOMAIN toServer = 1 .. Len(toServer) /\ DOMAIN toServer' = 1 .. Len(toServer) + 1
             /\ \A k \in DOMAIN toServer : k \in DOMAIN toServer' /\ toServer'[k] = toServer[k] /\ k < Len(toServer) + 1
             /\ Len(toServer) + 1 \in DOMAIN toServer' /\ toServer'[Len(toServer) + 1] = m
             /\ \A k \in DOMAIN toServer' : k \in DOMAIN toServer \/ k = Len(toServer) + 1
             /\ \A types, j : Has(toServer', types, j) <=> (m.type \in types /\ m.id = j) \/ Has(toServer, types, j)
  BY <1>1, <1>5, <1>6, <1>9, ServerPush
<1>10. CASE open /\ kind = "observable"
  <2>2. \A k \in DOMAIN toServer : toServer[k].type = "unsubscribe" => toServer[k].id # i
    BY <1>2, <1>10 DEF IInv, Requests
  <2>3. \A j, k \in DOMAIN toServer' : toServer'[j].type # "disconnect" /\ toServer'[j].type = toServer'[k].type /\ toServer'[j].id = toServer'[k].id => j = k
    BY <1>2, <1>5, <1>9, <1>10, <2>2 DEF IInv, Requests
  <2>4. \A k \in DOMAIN toServer' :
          /\ toServer'[k].type = "subscribe" => client'[toServer'[k].id] # "none" /\ subs[toServer'[k].id] = "none"
          /\ toServer'[k].type = "unsubscribe" => client'[toServer'[k].id] \notin {"none", "active"}
          /\ toServer'[k].type = "disconnect" => toServer'[k].id = 1 /\ disconnected
    <3> TAKE k \in DOMAIN toServer'
    <3>1. CASE k = Len(toServer) + 1
      BY <1>3, <1>5, <1>9, <1>10, <3>1
    <3>2. CASE k \in DOMAIN toServer
      <4>1. toServer[k].id \in Stream
        BY <1>1, <3>2, RequestAt
      <4> QED
        BY <1>2, <1>3, <1>9, <1>10, <3>2, <4>1 DEF IInv, Requests
    <3> QED
      BY <1>9, <1>10, <3>1, <3>2
  <2>5. Requests'
    BY <1>2, <2>3, <2>4 DEF Requests, server
  <2>6. Kinds'
    BY <1>2, <1>3, <1>5, <1>9, <1>10 DEF IInv, Kinds, server
  <2>8. ObservableTypeOK' /\ Queues' /\ Subject'
    BY <1>2, <1>3, <1>9, <1>10 DEF IInv, ObservableTypeOK, Queues, Subject, server
  <2>9. Orderly'
    <3> SUFFICES ASSUME ~again
                 PROVE  Orderly'
      BY <1>2 DEF Orderly
    <3>1. ~disconnected /\ (kept \/ method # "returned")
      BY <1>2, <1>10 DEF IInv, Orderly
    <3>2. \A k \in DOMAIN toServer' : toServer'[k].type # "disconnect"
      BY <1>5, <1>9, <1>10, <3>1 DEF IInv, Requests
    <3>3. Subscribed(i) \/ Has(toServer, {"subscribe"}, i)
      BY <1>2, <1>10 DEF IInv, Orderly
    <3>4. ASSUME NEW k \in DOMAIN toServer', toServer'[k].type = "unsubscribe"
          PROVE  \/ Subscribed(toServer'[k].id)
                 \/ \E j \in DOMAIN toServer' : j < k /\ toServer'[j].type = "subscribe" /\ toServer'[j].id = toServer'[k].id
      <4>1. CASE k \in DOMAIN toServer
        BY <1>9, <1>10, <3>4, <4>1 DEF IInv, Orderly
      <4>2. CASE k = Len(toServer) + 1
        BY <1>5, <1>9, <1>10, <3>3, <4>2 DEF Has
      <4> QED
        BY <1>9, <1>10, <4>1, <4>2
    <3>5. \A j \in Stream : client'[j] = "active" => Subscribed(j) \/ Has(toServer', {"subscribe"}, j)
      BY <1>3, <1>9, <1>10 DEF IInv, Orderly
    <3>6. \A j \in Stream : client'[j] # "active" /\ (Subscribed(j) \/ Has(toServer', {"subscribe"}, j))
                                => Has(toServer', {"unsubscribe"}, j)
      BY <1>3, <1>5, <1>9, <1>10 DEF IInv, Orderly
    <3>7. \A j \in Stream : client'[j] = "active" /\ subs[j] \in Ended => Has(toClient, Ended, j)
      BY <1>3, <1>10 DEF IInv, Orderly
    <3> QED
      BY <1>2, <3>1, <3>2, <3>4, <3>5, <3>6, <3>7 DEF Orderly, Subscribed, server
  <2> QED
    BY <1>7, <2>5, <2>6, <2>8, <2>9 DEF IInv
<1>11. CASE open /\ kind # "observable"
  <2>1. i = 1 /\ method = "returned"
    BY <1>4, <1>11 DEF IInv, Phases, ObservableTypeOK
  <2>2. kept /\ toServer = <<>> /\ Len(toServer) = 0
    BY <1>2, <1>11, <2>1, EmptySeq DEF IInv, Subject
  <2>3. Requests' /\ Orderly'
    BY <1>2, <1>11 DEF Requests, Orderly, server
  <2>4. Kinds'
    BY <1>2, <1>3, <1>5, <1>9, <1>11 DEF IInv, Kinds, server
  <2>5. Len(toServer') = 1
    BY <1>9, <1>11, <2>2, ObservableAssumption
  <2>6. ObservableTypeOK' /\ Queues'
    BY <1>2, <1>3, <1>9, <1>11, <2>5 DEF IInv, ObservableTypeOK, Queues, server
  <2>7. Subject'
    BY <1>2, <1>3, <1>9, <1>11, <2>1, <2>2, <2>5 DEF IInv, Subject, Ended, server
  <2> QED
    BY <1>7, <2>3, <2>4, <2>6, <2>7 DEF IInv
<1> QED
  BY <1>4, <1>8, <1>10, <1>11

\* The server has produced a value.
LEMMA ProduceInv ==
  ASSUME IInv, NEW i \in Stream, Produce(i)
  PROVE  IInv'
<1>1. /\ sent \in [Stream -> 0 .. MaxNext] /\ MaxNext \in Nat
      /\ toClient \in Seq(ToClientMsg) /\ i \in 0 .. Streams
      /\ \A j \in Stream : got[j] \in Nat /\ sent[j] \in Nat /\ got[j] <= sent[j] /\ Base(j) \in Nat
  BY Typed, ObservableAssumption DEF Stream
<1>2. /\ subs[i] = "active" /\ sent[i] < MaxNext /\ sent' = [sent EXCEPT ![i] = sent[i] + 1]
      /\ UNCHANGED <<kind, method, early, subs, kept, browser, open, toServer>>
  BY DEF Produce
<1> DEFINE m == Msg("next", i, sent[i] + 1)
<1>3. m \in ToClientMsg /\ m.type = "next" /\ m.id = i /\ m.v = sent[i] + 1
  BY <1>1, <1>2 DEF Msg, ToClientMsg
<1>4. toClient' = IF open THEN toClient \o <<m>> ELSE toClient
  BY DEF Produce, Reply
<1> HIDE DEF m
<1>5. /\ sent' \in [Stream -> 0 .. MaxNext]
      /\ \A j \in Stream : sent'[j] = IF j = i THEN sent[j] + 1 ELSE sent[j]
  BY <1>1, <1>2
<1>6. method # "running" /\ (kind # "observable" => i = 1) /\ ~(client[i] \in Ended /\ ~disconnected)
  BY <1>2 DEF IInv, Phases, Kinds, Ends, Had
<1>7. ObservableTypeOK' /\ Requests' /\ NoneAfterClose'
  BY <1>1, <1>2, <1>5 DEF IInv, ObservableTypeOK, Requests, NoneAfterClose, browser
<1>8. Kinds'
  BY <1>1, <1>2, <1>5, <1>6 DEF IInv, Kinds, browser, ObservableTypeOK
<1>9. CASE ~open
  <2>1. toClient' = toClient
    BY <1>4, <1>9
  <2> QED
    BY <1>2, <1>5, <1>6, <1>7, <1>8, <1>9, <2>1
    DEF IInv, Queues, Phases, Values, Ends, Had, Errors, NoReason, Orderly, Subject, browser
<1>10. CASE open
  <2>1. /\ toClient' \in Seq(ToClientMsg) /\ Len(toClient) \in Nat
        /\ DOMAIN toClient = 1 .. Len(toClient) /\ DOMAIN toClient' = 1 .. Len(toClient) + 1
        /\ \A k \in DOMAIN toClient : k \in DOMAIN toClient' /\ toClient'[k] = toClient[k] /\ k < Len(toClient) + 1
        /\ Len(toClient) + 1 \in DOMAIN toClient' /\ toClient'[Len(toClient) + 1] = m
        /\ \A k \in DOMAIN toClient' : k \in DOMAIN toClient \/ k = Len(toClient) + 1
        /\ \A types, j : Has(toClient', types, j) <=> (m.type \in types /\ m.id = j) \/ Has(toClient, types, j)
    BY <1>1, <1>3, <1>4, <1>10, ClientPush
  <2>2. Queues'
    BY <1>2, <1>3, <1>10, <2>1 DEF IInv, Queues, browser
  <2>3. Phases'
    <3>1. Untyped(toClient') <=> Untyped(toClient)
      BY <1>3, <2>1 DEF Untyped
    <3>2. \A j, k \in DOMAIN toClient' : toClient'[j].type = "type" /\ toClient'[k].type = "type" => j = k
      BY <1>3, <2>1 DEF IInv, Phases
    <3> QED
      BY <1>2, <1>6, <3>1, <3>2 DEF IInv, Phases, browser
  <2>4. Values'
    <3> SUFFICES ASSUME NEW j \in Stream, client[j] \in {"none", "active"}, ~released
                 PROVE  Flow(toClient', j, Base(j), sent'[j])
      BY <1>2 DEF Values, Base, Had, browser
    <3>1. Flow(toClient, j, Base(j), sent[j])
      BY <1>10 DEF IInv, Values
    <3>2. CASE j # i
      BY <1>1, <1>3, <1>4, <1>5, <1>10, <3>1, <3>2, FlowPush
    <3>3. CASE j = i
      <4>1. Base(i) <= sent[i]
        BY <1>1 DEF Base, Had, IInv, Kinds
      <4> QED
        BY <1>1, <1>3, <1>4, <1>5, <1>10, <3>1, <3>3, <4>1, FlowPushNext
    <3> QED
      BY <3>2, <3>3
  <2>5. Ends'
    <3>1. \A k \in DOMAIN toClient : toClient[k].type \in Ended => toClient[k].id # i
      BY <1>2 DEF IInv, Ends, Had
    <3>2. \A k \in DOMAIN toClient' : toClient'[k].type \in Ended => k \in DOMAIN toClient
      BY <1>3, <2>1 DEF Ended
    <3> QED
      BY <1>2, <1>3, <1>5, <1>6, <2>1, <3>1, <3>2 DEF IInv, Ends, Had, browser
  <2>6. Errors'
    BY <1>2, <1>3, <2>1 DEF IInv, Errors, NoReason, browser
  <2>7. \A j : Has(toClient', Ended, j) <=> Has(toClient, Ended, j)
    BY <1>3, <2>1 DEF Ended
  <2>8. Orderly'
    BY <1>2, <2>7 DEF IInv, Orderly, Subscribed, browser
  <2>9. Subject'
    <3> SUFFICES ASSUME kind # "observable", method = "returned"
                 PROVE  Subject'
      BY <1>2 DEF Subject
    <3>1. \A k \in DOMAIN toClient' : toClient'[k].type \in Ended \cup {"type"} =>
              k \in DOMAIN toClient /\ toClient'[k] = toClient[k]
      BY <1>3, <2>1 DEF Ended
    <3>2. early.end = "none" =>
              \A j, k \in DOMAIN toClient : toClient[j].type = "type" /\ toClient[k].type \in Ended => j < k
      BY <1>10 DEF IInv, Subject
    <3>3. early.end = "none" =>
              \A j, k \in DOMAIN toClient' : toClient'[j].type = "type" /\ toClient'[k].type \in Ended => j < k
      BY <3>1, <3>2
    <3> QED
      BY <1>2, <1>10, <2>7, <3>3 DEF IInv, Subject, browser
  <2> QED
    BY <1>7, <1>8, <2>2, <2>3, <2>4, <2>5, <2>6, <2>8, <2>9 DEF IInv
<1> QED
  BY <1>9, <1>10 DEF IInv, ObservableTypeOK


\* The server has come to the end of a stream.
LEMMA EndInv ==
  ASSUME IInv, NEW i \in Stream, NEW how \in Ended, End(i, how)
  PROVE  IInv'
<1>1. /\ subs \in [Stream -> {"none", "active", "removed"} \cup Ended]
      /\ toClient \in Seq(ToClientMsg) /\ i \in 0 .. Streams /\ 0 \in 0 .. MaxNext
      /\ \A j \in Stream : sent[j] \in Nat /\ Base(j) \in Nat
  BY Typed, ObservableAssumption DEF Stream
<1>2. /\ subs[i] = "active" /\ subs' = [subs EXCEPT ![i] = how]
      /\ UNCHANGED <<kind, method, early, sent, kept, browser, open, toServer>>
  BY DEF End
<1> DEFINE m == Msg(how, i, 0)
<1>3. m \in ToClientMsg /\ m.type = how /\ m.id = i /\ how \in {"completed", "failed"}
  BY <1>1 DEF Msg, ToClientMsg, Ended
<1>4. toClient' = IF open THEN toClient \o <<m>> ELSE toClient
  BY DEF End, Reply
<1> HIDE DEF m
<1>5. /\ subs' \in [Stream -> {"none", "active", "removed"} \cup Ended]
      /\ \A j \in Stream : subs'[j] = IF j = i THEN how ELSE subs[j]
  BY <1>1, <1>2
<1>6. /\ method # "running" /\ (kind # "observable" => i = 1) /\ ~(client[i] \in Ended /\ ~disconnected)
      /\ (kind = "observable" => client[i] # "none")
  BY <1>2 DEF IInv, Phases, Kinds, Ends, Had
<1>7. ObservableTypeOK' /\ NoneAfterClose'
  BY <1>2, <1>3, <1>5 DEF IInv, ObservableTypeOK, NoneAfterClose, browser
<1>8. Kinds'
  BY <1>2, <1>5, <1>6 DEF IInv, Kinds, browser
<1>9. Requests'
  BY <1>2, <1>5, RequestAt, Typed DEF IInv, Requests, browser
<1>10. \A j \in Stream : Subscribed(j)' <=> Subscribed(j)
  BY <1>2, <1>3, <1>5 DEF Subscribed
<1>11. \A j \in Stream : subs[j] \notin {"none", "active"} => subs'[j] \notin {"none", "active"}
  BY <1>3, <1>5
<1>12. CASE ~open
  <2>1. toClient' = toClient /\ toClient = <<>>
    BY <1>4, <1>12 DEF IInv, Queues
  <2>2. Queues' /\ Phases' /\ Values' /\ Errors'
    BY <1>2, <1>5, <1>6, <1>12, <2>1 DEF IInv, Queues, Phases, Values, Errors, NoReason, browser
  <2>3. Ends' /\ Orderly' /\ Subject'
    BY <1>2, <1>11, <1>12, <2>1 DEF IInv, Ends, Had, Orderly, Subject, browser
  <2> QED
    BY <1>7, <1>8, <1>9, <2>2, <2>3 DEF IInv
<1>13. CASE open
  <2>1. /\ toClient' \in Seq(ToClientMsg) /\ Len(toClient) \in Nat
        /\ DOMAIN toClient = 1 .. Len(toClient) /\ DOMAIN toClient' = 1 .. Len(toClient) + 1
        /\ \A k \in DOMAIN toClient : k \in DOMAIN toClient' /\ toClient'[k] = toClient[k] /\ k < Len(toClient) + 1
        /\ Len(toClient) + 1 \in DOMAIN toClient' /\ toClient'[Len(toClient) + 1] = m
        /\ \A k \in DOMAIN toClient' : k \in DOMAIN toClient \/ k = Len(toClient) + 1
        /\ \A types, j : Has(toClient', types, j) <=> (m.type \in types /\ m.id = j) \/ Has(toClient, types, j)
    BY <1>1, <1>3, <1>4, <1>13, ClientPush
  <2>2. Queues'
    BY <1>2, <1>3, <1>13, <2>1 DEF IInv, Queues, browser
  <2>3. Phases'
    <3>1. Untyped(toClient') <=> Untyped(toClient)
      BY <1>3, <2>1 DEF Untyped
    <3>2. \A j, k \in DOMAIN toClient' : toClient'[j].type = "type" /\ toClient'[k].type = "type" => j = k
      BY <1>3, <2>1 DEF IInv, Phases
    <3> QED
      BY <1>2, <1>6, <3>1, <3>2 DEF IInv, Phases, browser
  <2>4. Values'
    <3> SUFFICES ASSUME NEW j \in Stream, client[j] \in {"none", "active"}, ~released
                 PROVE  Flow(toClient', j, Base(j), sent[j])
      BY <1>2 DEF Values, Base, Had, browser
    <3>1. Flow(toClient, j, Base(j), sent[j])
      BY <1>13 DEF IInv, Values
    <3> QED
      BY <1>1, <1>3, <1>4, <1>13, <3>1, FlowPush
  <2>5. \A k \in DOMAIN toClient : toClient[k].type \in Ended => toClient[k].id # i
    BY <1>2 DEF IInv, Ends, Had
  <2>6. Ends'
    <3>1. ASSUME NEW k \in DOMAIN toClient', toClient'[k].type \in Ended
          PROVE  /\ subs'[toClient'[k].id] \notin {"none", "active"}
                 /\ \A j \in DOMAIN toClient' : toClient'[j].type = "next" /\ toClient'[j].id = toClient'[k].id => j < k
      <4>1. CASE k = Len(toClient) + 1
        BY <1>3, <1>5, <2>1, <4>1
      <4>2. CASE k \in DOMAIN toClient
        <5>1. toClient'[k] = toClient[k] /\ toClient[k].id \in Stream /\ subs[toClient[k].id] \notin {"none", "active"}
          BY <2>1, <3>1, <4>2 DEF IInv, Queues, Ends, Had
        <5>2. \A j \in DOMAIN toClient' : toClient'[j].type = "next" => j \in DOMAIN toClient /\ toClient'[j] = toClient[j]
          BY <1>3, <2>1
        <5> QED
          BY <1>11, <3>1, <4>2, <5>1, <5>2 DEF IInv, Ends, Had
      <4> QED
        BY <2>1, <4>1, <4>2
    <3>2. ASSUME kind # "observable"
          PROVE  \A j, k \in DOMAIN toClient' : toClient'[j].type \in Ended /\ toClient'[k].type \in Ended => j = k
      <4>1. \A k \in DOMAIN toClient : toClient[k].type \notin Ended
        BY <1>6, <2>5, <3>2 DEF IInv, Queues, Kinds, Ends, Had
      <4> QED
        BY <2>1, <4>1
    <3>3. \A j \in Stream : client[j] \in Ended /\ ~disconnected =>
              subs'[j] \notin {"none", "active"} /\ Had(j) = sent[j]
      BY <1>11 DEF IInv, Ends, Had
    <3> QED
      BY <1>2, <3>1, <3>2, <3>3 DEF Ends, Had, browser
  <2>7. Errors'
    BY <1>2, <1>3, <2>1 DEF IInv, Errors, NoReason, browser
  <2>8. \A j \in Stream : Has(toClient', Ended, j) <=> j = i \/ Has(toClient, Ended, j)
    BY <1>3, <2>1 DEF Ended
  <2>9. Orderly'
    <3> SUFFICES ASSUME kind = "observable", ~again
                 PROVE  Orderly'
      BY <1>2 DEF Orderly, browser
    <3>1. ASSUME NEW k \in DOMAIN toServer, toServer[k].type = "unsubscribe"
          PROVE  \/ Subscribed(toServer[k].id)'
                 \/ \E j \in DOMAIN toServer : j < k /\ toServer[j].type = "subscribe" /\ toServer[j].id = toServer[k].id
      <4>1. PICK j \in Stream : j = toServer[k].id
        BY RequestAt, Typed
      <4>2. Subscribed(j)' <=> Subscribed(j)
        BY <1>10
      <4>3. \/ Subscribed(toServer[k].id)
            \/ \E l \in DOMAIN toServer : l < k /\ toServer[l].type = "subscribe" /\ toServer[l].id = toServer[k].id
        BY <1>13, <3>1 DEF IInv, Orderly
      <4> QED
        BY <1>2, <4>1, <4>2, <4>3 DEF Subscribed
    <3>2. \A j \in Stream : client[j] = "active" /\ subs'[j] \in Ended => Has(toClient', Ended, j)
      BY <1>5, <1>13, <2>8 DEF IInv, Orderly
    <3> QED
      BY <1>2, <1>10, <1>13, <3>1, <3>2 DEF IInv, Orderly, browser, Subscribed
  <2>10. Subject'
    <3> SUFFICES ASSUME kind # "observable", method = "returned"
                 PROVE  Subject'
      BY <1>2 DEF Subject
    <3>1. i = 1 /\ client[1] \notin Ended
      <4>1. ~disconnected
        BY DEF IInv, Phases
      <4> QED
        BY <1>6, <4>1
    <3>2. early.end = "none" =>
              \A j, k \in DOMAIN toClient' : toClient'[j].type = "type" /\ toClient'[k].type \in Ended => j < k
      <4>1. \A j \in DOMAIN toClient' : toClient'[j].type = "type" => j \in DOMAIN toClient /\ toClient'[j] = toClient[j]
        BY <1>3, <2>1
      <4>2. early.end = "none" =>
                \A j, k \in DOMAIN toClient : toClient[j].type = "type" /\ toClient[k].type \in Ended => j < k
        BY <1>13 DEF IInv, Subject
      <4> QED
        BY <2>1, <4>1, <4>2
    <3>3. client[1] = "unsubscribed" => Len(toServer) <= 1
      BY <1>2, <1>13, <3>1 DEF IInv, Subject
    <3>4. Has(toClient', Ended, 1) /\ subs'[1] = how /\ how # "active"
      BY <1>3, <1>5, <2>8, <3>1
    <3>5. client[1] \in {"none", "active"} => kept /\ toServer = <<>>
      BY <1>13 DEF IInv, Subject
    <3> QED
      BY <1>2, <3>1, <3>2, <3>3, <3>4, <3>5 DEF Subject, browser
  <2> QED
    BY <1>7, <1>8, <1>9, <2>2, <2>3, <2>4, <2>6, <2>7, <2>9, <2>10 DEF IInv
<1> QED
  BY <1>12, <1>13 DEF IInv, ObservableTypeOK

\* What a method that returns a subject writes: the value and the end that came
\* first, if they did, and then the announcement.
LEMMA Announced ==
  ASSUME NEW n \in 0 .. 1, NEW end \in Ended \cup {"none"}
  PROVE  LET q == [k \in 1 .. n |-> Msg("next", 1, k)]
                  \o (IF end = "none" THEN <<>> ELSE <<Msg(end, 1, 0)>>)
                  \o <<Msg("type", 1, 0)>>
         IN  /\ q \in Seq(ToClientMsg) /\ Len(q) \in Nat \ {0} /\ DOMAIN q = 1 .. Len(q)
             /\ q[Len(q)].type = "type"
             /\ \A k \in DOMAIN q : q[k].type = "type" => k = Len(q)
             /\ \A k \in DOMAIN q : q[k].id = 1 /\ q[k].type # "error"
             /\ \A k \in DOMAIN q : q[k].type = "next" => k = 1 /\ k < Len(q)
             /\ \A k \in DOMAIN q : q[k].type \in Ended => k = Len(q) - 1 /\ k > n /\ end # "none" /\ q[k].type = end
<1> DEFINE f == [k \in 1 .. n |-> Msg("next", 1, k)]
           last == Msg(end, 1, 0)
           e == IF end = "none" THEN <<>> ELSE <<last>>
           t == Msg("type", 1, 0)
           q == (f \o e) \o <<t>>
<1>1. t \in ToClientMsg /\ t.type = "type" /\ t.id = 1
  BY ObservableAssumption DEF Msg, ToClientMsg
<1>2. \A k \in 1 .. n : Msg("next", 1, k) \in ToClientMsg /\ Msg("next", 1, k).type = "next" /\ Msg("next", 1, k).id = 1
  BY ObservableAssumption DEF Msg, ToClientMsg
<1>3. /\ f \in Seq(ToClientMsg) /\ Len(f) = n /\ DOMAIN f = 1 .. n
      /\ \A k \in 1 .. n : f[k].type = "next" /\ f[k].id = 1
  <2>1. f \in [1 .. n -> ToClientMsg] /\ \A k \in 1 .. n : f[k] = Msg("next", 1, k)
    BY <1>2
  <2>2. f \in Seq(ToClientMsg) /\ Len(f) = n /\ DOMAIN f = 1 .. n
    BY <2>1, MappedAt
  <2> QED
    BY <1>2, <2>1, <2>2
<1>4. end # "none" => last \in ToClientMsg /\ last.type = end /\ last.id = 1
  BY ObservableAssumption DEF Msg, ToClientMsg, Ended
<1> HIDE DEF last, t, f
<1>5. PICK l \in 0 .. 1 :
         /\ e \in Seq(ToClientMsg) /\ Len(e) = l /\ (l = 0 <=> end = "none")
         /\ \A k \in 1 .. l : e[k].type = end /\ e[k].id = 1
  <2>1. CASE end = "none"
    BY <2>1
  <2>2. CASE end # "none"
    <3>1. last \in ToClientMsg /\ e = <<last>>
      BY <1>4, <2>2
    <3>2. e \in Seq(ToClientMsg) /\ Len(e) = 1 /\ e[1] = last
      BY <3>1
    <3> QED
      BY <1>4, <2>2, <3>2
  <2> QED
    BY <2>1, <2>2
<1> HIDE DEF e
<1> DEFINE fe == f \o e
<1>6. /\ fe \in Seq(ToClientMsg) /\ Len(fe) = n + l
      /\ \A k \in 1 .. n : fe[k] = f[k]
      /\ \A k \in n + 1 .. n + l : fe[k] = e[k - n]
  BY <1>3, <1>5, ConcatAt
<1> HIDE DEF fe
<1>7. /\ q \in Seq(ToClientMsg) /\ Len(q) = n + l + 1 /\ DOMAIN q = 1 .. n + l + 1
      /\ \A k \in 1 .. n + l : q[k] = fe[k]
      /\ q[n + l + 1] = t
  <2>1. q = fe \o <<t>>
    BY DEF fe
  <2>2. /\ fe \o <<t>> \in Seq(ToClientMsg) /\ DOMAIN (fe \o <<t>>) = 1 .. Len(fe) + 1
        /\ Len(fe \o <<t>>) = Len(fe) + 1
        /\ \A k \in 1 .. Len(fe) : (fe \o <<t>>)[k] = fe[k]
        /\ (fe \o <<t>>)[Len(fe) + 1] = t
    BY <1>1, <1>6, PushAt
  <2> HIDE DEF q
  <2> QED
    BY <1>6, <2>1, <2>2
<1> HIDE DEF q
<1>8. \A k \in 1 .. n : q[k].type = "next" /\ q[k].id = 1
  BY <1>3, <1>6, <1>7
<1>9. \A k \in n + 1 .. n + l : q[k].type = end /\ q[k].id = 1
  <2> TAKE k \in n + 1 .. n + l
  <2>1. q[k] = e[k - n] /\ k - n \in 1 .. l
    BY <1>6, <1>7
  <2> QED
    BY <1>5, <2>1
<1>10. end \in Ended => end \notin {"next", "type", "error"}
  BY DEF Ended
<1>11. ASSUME NEW k \in DOMAIN q
       PROVE  \/ k \in 1 .. n /\ q[k].type = "next" /\ q[k].id = 1
              \/ k = n + 1 /\ l = 1 /\ q[k].type = end /\ q[k].id = 1 /\ end \in Ended
              \/ k = n + l + 1 /\ q[k] = t
  <2>1. k \in 1 .. n \/ k \in n + 1 .. n + l \/ k = n + l + 1
    BY <1>7
  <2>2. k \in n + 1 .. n + l => k = n + 1 /\ l = 1
    BY <1>5
  <2> QED
    BY <1>5, <1>7, <1>8, <1>9, <2>1, <2>2
<1>12. /\ Len(q) \in Nat \ {0} /\ DOMAIN q = 1 .. Len(q) /\ q[Len(q)].type = "type"
  BY <1>1, <1>7
<1>13. \A k \in DOMAIN q : q[k].type = "type" => k = Len(q)
  BY <1>7, <1>10, <1>11
<1>14. \A k \in DOMAIN q : q[k].id = 1 /\ q[k].type # "error"
  BY <1>1, <1>10, <1>11
<1>15. \A k \in DOMAIN q : q[k].type = "next" => k = 1 /\ k < Len(q)
  BY <1>1, <1>7, <1>10, <1>11
<1>16. \A k \in DOMAIN q : q[k].type \in Ended => k = Len(q) - 1 /\ k > n /\ end # "none" /\ q[k].type = end
  BY <1>1, <1>7, <1>10, <1>11 DEF Ended
<1> QED
  BY <1>7, <1>12, <1>13, <1>14, <1>15, <1>16 DEF q, fe, e, f, last, t

\* The method has returned.
LEMMA ReturnInv ==
  ASSUME IInv, ReturnResult
  PROVE  IInv'
<1>1. /\ method = "running" /\ method' = (IF open THEN "returned" ELSE "late") /\ kept' = TRUE
      /\ UNCHANGED <<kind, browser, open, toServer>>
  BY DEF ReturnResult
<1>2. /\ known = "nothing" /\ kind \in {"observable", "subject", "behavior"} /\ open \in BOOLEAN
      /\ toClient = <<>> /\ early = [values |-> 0, end |-> "none"] /\ ~kept
      /\ \A i \in Stream : subs[i] = "none" /\ sent[i] = 0
  BY <1>1 DEF IInv, Phases, ObservableTypeOK
<1>3. /\ toServer = <<>> /\ ~disconnected /\ ~again
      /\ \A i \in Stream : client[i] = "none" /\ got[i] = 0
  BY <1>2 DEF IInv, Phases
<1>4. /\ Streams \in Nat \ {0} /\ MaxNext \in Nat \ {0} /\ 1 \in Stream
      /\ subs \in [Stream -> {"none", "active", "removed"} \cup Ended] /\ sent \in [Stream -> 0 .. MaxNext]
  BY Typed, ObservableAssumption
<1>5. ~released /\ ~NoReason
  BY <1>3, <1>4 DEF IInv, Errors, NoReason
<1>6. CASE kind = "observable"
  <2>1. UNCHANGED <<early, subs, sent>>
    BY <1>6 DEF ReturnResult
  <2> DEFINE m == Msg("type", 1, 0)
  <2>2. m \in ToClientMsg /\ m.type = "type" /\ m.id = 1
    BY <1>4 DEF Msg, ToClientMsg
  <2>3. toClient' = IF open THEN toClient \o <<m>> ELSE toClient
    BY <1>6 DEF ReturnResult, Reply
  <2> HIDE DEF m
  <2>4. /\ toClient' \in Seq(ToClientMsg) /\ (open => 1 \in DOMAIN toClient' /\ toClient'[1].type = "type")
        /\ \A k \in DOMAIN toClient' : k = 1 /\ toClient'[k].type = "type"
        /\ ~open => toClient' = <<>>
    <3>1. CASE ~open
      BY <1>2, <2>3, <3>1
    <3>2. CASE open
      <4>1. /\ toClient' \in Seq(ToClientMsg) /\ DOMAIN toClient' = 1 .. Len(toClient) + 1
            /\ toClient'[Len(toClient) + 1] = m
        BY <1>2, <2>2, <2>3, <3>2, PushAt, Typed
      <4>2. Len(toClient) = 0
        BY <1>2
      <4> QED
        BY <2>2, <3>2, <4>1, <4>2
    <3> QED
      BY <3>1, <3>2
  <2>5. ObservableTypeOK'
    BY <1>1, <1>2, <2>1 DEF IInv, ObservableTypeOK, browser
  <2>6. Queues'
    BY <1>1, <1>3, <2>4, Typed DEF IInv, Queues, Ended
  <2>7. Phases'
    BY <1>1, <1>2, <1>3, <2>1, <2>4 DEF IInv, Phases, browser, Untyped
  <2>8. Kinds' /\ Subject' /\ Requests'
    BY <1>1, <1>2, <1>3, <1>6, <2>1 DEF IInv, Kinds, Subject, Requests, browser
  <2>9. Values'
    <3> SUFFICES ASSUME NEW i \in Stream
                 PROVE  Flow(toClient', i, 0, 0)
      BY <1>1, <1>2, <1>3, <1>6, <2>1 DEF Values, Base, Had, browser
    <3>1. \A k \in DOMAIN toClient' : ~IsNext(toClient', k, i)
      BY <2>4 DEF IsNext
    <3> QED
      BY <3>1 DEF Flow
  <2>10. Ends'
    BY <1>1, <1>3, <2>1, <2>4 DEF Ends, Had, Ended, browser
  <2>11. Errors'
    BY <1>1, <1>5, <2>4 DEF Errors, NoReason, browser
  <2>12. Orderly'
    <3>1. \A i \in Stream : ~Subscribed(i) /\ ~Has(toServer, {"subscribe"}, i)
      BY <1>2, <1>3 DEF Subscribed, Has
    <3> QED
      BY <1>1, <1>3, <2>1, <3>1 DEF Orderly, browser, Subscribed
  <2>13. NoneAfterClose'
    BY <1>1 DEF NoneAfterClose
  <2> QED
    BY <2>5, <2>6, <2>7, <2>8, <2>9, <2>10, <2>11, <2>12, <2>13 DEF IInv
<1>7. CASE kind # "observable"
  <2>1. PICK n \in 0 .. 1, end \in Ended \cup {"none"} :
           /\ early' = [values |-> n, end |-> end]
           /\ sent' = [sent EXCEPT ![1] = n]
           /\ subs' = [subs EXCEPT ![1] = IF end = "none" THEN "active" ELSE end]
           /\ Reply([k \in 1 .. n |-> Msg("next", 1, k)]
                    \o (IF end = "none" THEN <<>> ELSE <<Msg(end, 1, 0)>>)
                    \o <<Msg("type", 1, 0)>>)
    BY <1>7 DEF ReturnResult
  <2> DEFINE q == [k \in 1 .. n |-> Msg("next", 1, k)]
                  \o (IF end = "none" THEN <<>> ELSE <<Msg(end, 1, 0)>>)
                  \o <<Msg("type", 1, 0)>>
  <2>2. /\ q \in Seq(ToClientMsg) /\ Len(q) \in Nat \ {0} /\ DOMAIN q = 1 .. Len(q)
        /\ q[Len(q)].type = "type"
        /\ \A k \in DOMAIN q : q[k].type = "type" => k = Len(q)
        /\ \A k \in DOMAIN q : q[k].id = 1 /\ q[k].type # "error"
        /\ \A k \in DOMAIN q : q[k].type = "next" => k = 1 /\ k < Len(q)
        /\ \A k \in DOMAIN q : q[k].type \in Ended => k = Len(q) - 1 /\ k > n /\ end # "none" /\ q[k].type = end
    BY Announced
  <2>3. toClient' = IF open THEN toClient \o q ELSE toClient
    BY <2>1 DEF Reply
  <2> HIDE DEF q
  <2>4. toClient' = IF open THEN q ELSE <<>>
    <3>1. toClient \o q = q
      <4>1. <<>> \in Seq(ToClientMsg)
        OBVIOUS
      <4>2. toClient = <<>>
        BY <1>2
      <4> QED
        BY <2>2, <4>1, <4>2, ConcatEmptySeq
    <3> QED
      BY <1>2, <2>3, <3>1
  <2>5. /\ sent' \in [Stream -> 0 .. MaxNext] /\ sent'[1] = n
        /\ \A i \in Stream \ {1} : sent'[i] = 0
    BY <1>2, <1>4, <2>1
  <2>6. /\ subs' \in [Stream -> {"none", "active", "removed"} \cup Ended]
        /\ subs'[1] = (IF end = "none" THEN "active" ELSE end)
        /\ \A i \in Stream \ {1} : subs'[i] = "none"
    BY <1>2, <1>4, <2>1
  <2>7. early'.values = n /\ early'.end = end /\ early' \in [values : 0 .. 1, end : Ended \cup {"none"}]
    BY <2>1
  <2>8. ObservableTypeOK'
    <3>1. \A i \in Stream : got[i] <= sent'[i]
      BY <1>3, <2>5
    <3> QED
      BY <1>1, <1>2, <2>5, <2>6, <2>7, <3>1 DEF IInv, ObservableTypeOK, browser
  <2>9. \A k \in DOMAIN toClient' : open /\ k \in DOMAIN q /\ toClient'[k] = q[k]
    BY <2>4
  <2>10. Queues'
    BY <1>1, <1>3, <1>4, <2>2, <2>4, Typed DEF IInv, Queues
  <2>11. Phases'
    BY <1>1, <1>2, <1>3, <2>2, <2>4 DEF IInv, Phases, browser, Untyped
  <2>12. Kinds'
    BY <1>1, <1>2, <1>3, <1>7, <2>5, <2>6, <2>7 DEF IInv, Kinds, browser
  <2>13. Requests' /\ Orderly'
    BY <1>1, <1>7 DEF Requests, Orderly, browser
  <2>14. Values'
    <3> SUFFICES ASSUME NEW i \in Stream, open
                 PROVE  Flow(q, i, Base(i)', sent'[i])
      BY <1>1, <2>4 DEF Values, browser
    <3>1. \A k \in DOMAIN q : ~IsNext(q, k, i)
      BY <2>2 DEF IsNext, Current
    <3>2. Base(i)' = sent'[i] /\ sent'[i] \in Nat
      BY <1>1, <1>2, <1>3, <1>7, <2>5, <2>7 DEF Base, Had, browser
    <3> QED
      BY <3>1, <3>2 DEF Flow
  <2>15. Ends'
    <3>1. \A k \in DOMAIN toClient' : toClient'[k].type \in Ended =>
              /\ toClient'[k].id = 1 /\ k = Len(q) - 1 /\ subs'[1] \notin {"none", "active"}
              /\ \A j \in DOMAIN toClient' : toClient'[j].type = "next" => j < k
      <4> SUFFICES ASSUME NEW k \in DOMAIN q, q[k].type \in Ended
                   PROVE  /\ q[k].id = 1 /\ k = Len(q) - 1 /\ subs'[1] \notin {"none", "active"}
                          /\ \A j \in DOMAIN q : q[j].type = "next" => j < k
        BY <2>9
      <4>1. k = Len(q) - 1 /\ end # "none" /\ q[k].type = end /\ end \in {"completed", "failed"}
        BY <2>2 DEF Ended
      <4>2. \A j \in DOMAIN q : q[j].type = "next" => j = 1 /\ j < Len(q)
        BY <2>2
      <4>3. \A j \in DOMAIN q : q[j].type = "next" => j # k
        BY <4>1
      <4>4. \A j \in DOMAIN q : q[j].type = "next" => j < k
        BY <2>2, <4>1, <4>2, <4>3
      <4> QED
        BY <2>2, <2>6, <4>1, <4>4
    <3> QED
      BY <1>1, <1>3, <3>1 DEF Ends, Had, Ended, browser
  <2>16. Errors'
    BY <1>1, <1>5, <2>2, <2>9 DEF Errors, NoReason, browser
  <2>17. Subject'
    <3>1. end = "none" => \A k \in DOMAIN toClient' : toClient'[k].type \notin Ended
      BY <2>2, <2>9
    <3> QED
      BY <1>1, <1>3, <1>4, <2>6, <2>7, <3>1 DEF Subject, Ended, browser
  <2>18. NoneAfterClose'
    BY <1>1 DEF NoneAfterClose
  <2> QED
    BY <2>8, <2>10, <2>11, <2>12, <2>13, <2>14, <2>15, <2>16, <2>17, <2>18 DEF IInv
<1> QED
  BY <1>2, <1>6, <1>7

\* What a step that shifts toServer does to it.
LEMMA ServerTail ==
  ASSUME toServer \in Seq(ToServerMsg), toServer # <<>>, toServer' = Tail(toServer)
  PROVE  /\ toServer' \in Seq(ToServerMsg) /\ Len(toServer') = Len(toServer) - 1
         /\ DOMAIN toServer = 1 .. Len(toServer) /\ DOMAIN toServer' = 1 .. Len(toServer) - 1
         /\ Len(toServer) \in Nat \ {0} /\ Head(toServer) = toServer[1] /\ 1 \in DOMAIN toServer
         /\ \A k \in DOMAIN toServer' : k \in Nat /\ k + 1 \in DOMAIN toServer /\ toServer'[k] = toServer[k + 1]
         /\ \A k \in DOMAIN toServer : k # 1 => k - 1 \in DOMAIN toServer' /\ toServer'[k - 1] = toServer[k]
         /\ \A types, i : Has(toServer, types, i) <=>
                (toServer[1].type \in types /\ toServer[1].id = i) \/ Has(toServer', types, i)
<1>1. \A types, i : Has(toServer, types, i) <=>
                (toServer[1].type \in types /\ toServer[1].id = i) \/ Has(toServer', types, i)
  BY HasTail
<1> QED
  BY <1>1, TailAt

\* The requests that are left are as they should be, whatever happens to the
\* subscription of the one that was answered.
LEMMA RequestsTail ==
  ASSUME IInv, toServer # <<>>, toServer' = Tail(toServer), UNCHANGED <<kind, client, disconnected>>,
         \A k \in DOMAIN toServer' : toServer'[k].type = "subscribe" => subs'[toServer'[k].id] = "none"
  PROVE  Requests'
<1>1. /\ \A k \in DOMAIN toServer' : k \in Nat /\ k + 1 \in DOMAIN toServer /\ toServer'[k] = toServer[k + 1]
  BY ServerTail, Typed
<1> SUFFICES ASSUME kind = "observable"
             PROVE  Requests'
  BY DEF Requests
<1>2. \A j, k \in DOMAIN toServer' : toServer'[j].type # "disconnect" /\ toServer'[j].type = toServer'[k].type /\ toServer'[j].id = toServer'[k].id => j = k
  <2> SUFFICES ASSUME NEW j \in DOMAIN toServer', NEW k \in DOMAIN toServer',
                      toServer'[j].type # "disconnect", toServer'[j].type = toServer'[k].type,
                      toServer'[j].id = toServer'[k].id
               PROVE  j = k
    OBVIOUS
  <2>1. j + 1 = k + 1
    BY <1>1 DEF IInv, Requests
  <2> QED
    BY <1>1, <2>1
<1>3. \A k \in DOMAIN toServer' :
          /\ toServer'[k].type = "subscribe" => client[toServer'[k].id] # "none" /\ subs'[toServer'[k].id] = "none"
          /\ toServer'[k].type = "unsubscribe" => client[toServer'[k].id] \notin {"none", "active"}
          /\ toServer'[k].type = "disconnect" => toServer'[k].id = 1 /\ disconnected
  BY <1>1 DEF IInv, Requests
<1> QED
  BY <1>2, <1>3 DEF Requests

\* A request for what is not there is answered with an error.
LEMMA FailedInv ==
  ASSUME IInv, toServer # <<>>, toServer' = Tail(toServer), ServerError,
         UNCHANGED <<kind, method, early, subs, sent, kept, browser, open>>,
         NoReason, kind # "observable" => ~kept
  PROVE  IInv'
<1>1. /\ toServer' \in Seq(ToServerMsg) /\ Len(toServer') = Len(toServer) - 1
      /\ Len(toServer) \in Nat \ {0}
      /\ \A k \in DOMAIN toServer' : k \in Nat /\ k + 1 \in DOMAIN toServer /\ toServer'[k] = toServer[k + 1]
  BY ServerTail, Typed
<1>2. open /\ known # "nothing" /\ method # "running"
  BY DEF IInv, Queues, Phases, ObservableTypeOK
<1> DEFINE m == Msg("error", 0, 0)
<1>3. m \in ToClientMsg /\ m.type = "error"
  BY ObservableAssumption DEF Msg, ToClientMsg
<1>4. toClient' = toClient \o <<m>> /\ toClient \in Seq(ToClientMsg)
  BY <1>2, Typed DEF ServerError, Reply
<1> HIDE DEF m
<1>5. /\ toClient' \in Seq(ToClientMsg) /\ Len(toClient) \in Nat
      /\ DOMAIN toClient = 1 .. Len(toClient)
      /\ \A k \in DOMAIN toClient : k \in DOMAIN toClient' /\ toClient'[k] = toClient[k] /\ k < Len(toClient) + 1
      /\ Len(toClient) + 1 \in DOMAIN toClient' /\ toClient'[Len(toClient) + 1] = m
      /\ \A k \in DOMAIN toClient' : k \in DOMAIN toClient \/ k = Len(toClient) + 1
      /\ \A types, j : Has(toClient', types, j) <=> (m.type \in types /\ m.id = j) \/ Has(toClient, types, j)
  BY <1>3, <1>4, ClientPush
<1>6. \A k \in DOMAIN toClient' : toClient'[k].type # "error" => k \in DOMAIN toClient /\ toClient'[k] = toClient[k]
  BY <1>3, <1>5
<1>7. ObservableTypeOK' /\ NoneAfterClose'
  BY <1>1, ObservableAssumption DEF IInv, ObservableTypeOK, NoneAfterClose, browser
<1>8. Queues'
  BY <1>1, <1>2, <1>5, <1>6 DEF IInv, Queues, Ended
<1>9. Phases'
  <2>1. Untyped(toClient') <=> Untyped(toClient)
    BY <1>5, <1>6 DEF Untyped
  <2>2. \A j, k \in DOMAIN toClient' : toClient'[j].type = "type" /\ toClient'[k].type = "type" => j = k
    BY <1>6 DEF IInv, Phases
  <2> QED
    BY <1>2, <2>1, <2>2 DEF IInv, Phases, browser
<1>10. Kinds'
  BY <1>1 DEF IInv, Kinds, browser
<1>11. Values'
  <2> SUFFICES ASSUME NEW j \in Stream, client[j] \in {"none", "active"}, ~released
               PROVE  Flow(toClient', j, Base(j), sent[j])
    BY DEF Values, Base, Had, browser
  <2>1. Flow(toClient, j, Base(j), sent[j]) /\ Base(j) \in Nat /\ sent[j] \in Nat
    BY <1>2, Typed DEF IInv, Values
  <2> QED
    BY <1>3, <1>4, <2>1, FlowPush
<1>12. Ends'
  <2>1. \A k \in DOMAIN toClient' : toClient'[k].type \in Ended \cup {"next"} => k \in DOMAIN toClient /\ toClient'[k] = toClient[k]
    BY <1>6 DEF Ended
  <2>2. \A k \in DOMAIN toClient' : toClient'[k].type \in Ended =>
          /\ subs[toClient'[k].id] \notin {"none", "active"}
          /\ \A j \in DOMAIN toClient' : toClient'[j].type = "next" /\ toClient'[j].id = toClient'[k].id => j < k
    BY <2>1 DEF IInv, Ends, Had
  <2>3. kind # "observable" => \A j, k \in DOMAIN toClient' : toClient'[j].type \in Ended /\ toClient'[k].type \in Ended => j = k
    BY <2>1 DEF IInv, Ends, Had
  <2> QED
    BY <2>2, <2>3 DEF IInv, Ends, Had, browser
<1>13. Errors'
  BY DEF Errors, NoReason, browser
<1>14. Requests'
  <2>1. \A k \in DOMAIN toServer' : toServer'[k].type = "subscribe" /\ kind = "observable" => subs[toServer'[k].id] = "none"
    BY <1>1 DEF IInv, Requests
  <2>2. CASE kind = "observable"
    BY <2>1, <2>2, RequestsTail DEF browser
  <2> QED
    BY <2>2 DEF Requests
<1>15. Orderly'
  <2>1. kind = "observable" => again
    BY DEF NoReason
  <2> QED
    BY <2>1 DEF Orderly, browser
<1>16. Subject'
  <2> SUFFICES ASSUME kind # "observable", method = "returned"
               PROVE  Subject'
    BY DEF Subject
  <2>1. client[1] = "unsubscribed" /\ ~kept
    BY DEF NoReason, IInv, Phases
  <2>2. subs[1] # "active" /\ Len(toServer) <= IF Has(toClient, Ended, 1) THEN 1 ELSE 2
    BY <1>2, <2>1 DEF IInv, Subject
  <2>3. Has(toClient', Ended, 1) <=> Has(toClient, Ended, 1)
    BY <1>3, <1>5 DEF Ended
  <2>4. early.end = "none" =>
            \A j, k \in DOMAIN toClient' : toClient'[j].type = "type" /\ toClient'[k].type \in Ended => j < k
    BY <1>2, <1>6 DEF IInv, Subject, Ended
  <2>5. Len(toServer') <= IF Has(toClient', Ended, 1) THEN 1 ELSE 2
    BY <1>1, <2>2, <2>3
  <2> QED
    BY <2>1, <2>2, <2>4, <2>5 DEF Subject, Ended, browser
<1> QED
  BY <1>7, <1>8, <1>9, <1>10, <1>11, <1>12, <1>13, <1>14, <1>15, <1>16 DEF IInv

\* ActionObservableSubscribe
LEMMA OnSubscribeInv ==
  ASSUME IInv, OnSubscribe
  PROVE  IInv'
<1>1. /\ toServer # <<>> /\ toServer' = Tail(toServer) /\ Head(toServer).type = "subscribe"
      /\ UNCHANGED <<kind, method, early, sent, kept, browser, open>>
      /\ toServer \in Seq(ToServerMsg)
      /\ subs \in [Stream -> {"none", "active", "removed"} \cup Ended]
  BY Typed DEF OnSubscribe, Received
<1>2. /\ toServer' \in Seq(ToServerMsg) /\ Len(toServer') = Len(toServer) - 1
      /\ DOMAIN toServer = 1 .. Len(toServer) /\ DOMAIN toServer' = 1 .. Len(toServer) - 1
      /\ Len(toServer) \in Nat \ {0} /\ Head(toServer) = toServer[1] /\ 1 \in DOMAIN toServer
      /\ \A k \in DOMAIN toServer' : k \in Nat /\ k + 1 \in DOMAIN toServer /\ toServer'[k] = toServer[k + 1]
      /\ \A k \in DOMAIN toServer : k # 1 => k - 1 \in DOMAIN toServer' /\ toServer'[k - 1] = toServer[k]
      /\ \A types, i : Has(toServer, types, i) <=>
             (toServer[1].type \in types /\ toServer[1].id = i) \/ Has(toServer', types, i)
  BY <1>1, ServerTail
<1>3. PICK i \in Stream : i = toServer[1].id
  BY <1>1, <1>2, RequestAt
<1>4. /\ open /\ known # "nothing" /\ method = "returned" /\ kind = "observable"
      /\ client[i] # "none" /\ subs[i] = "none"
  <2>1. open /\ known # "nothing"
    BY <1>1 DEF IInv, Queues, Phases
  <2>2. kind = "observable"
    BY <1>1, <1>2 DEF IInv, Kinds, ObservableTypeOK
  <2> QED
    BY <1>1, <1>2, <1>3, <2>1, <2>2 DEF IInv, Phases, ObservableTypeOK, Requests
<1>5. \/ kept /\ subs' = [subs EXCEPT ![i] = "active"] /\ UNCHANGED toClient
      \/ ~kept /\ ServerError /\ UNCHANGED subs
  BY <1>2, <1>3, <1>4 DEF OnSubscribe
<1>6. CASE ~kept /\ ServerError /\ UNCHANGED subs
  <2>1. again
    BY <1>1, <1>4, <1>6 DEF IInv, Orderly, ObservableTypeOK
  <2> QED
    BY <1>1, <1>4, <1>6, <2>1, FailedInv DEF NoReason
<1>7. CASE kept /\ subs' = [subs EXCEPT ![i] = "active"] /\ UNCHANGED toClient
  <2>1. /\ subs' \in [Stream -> {"none", "active", "removed"} \cup Ended]
        /\ \A j \in Stream : subs'[j] = IF j = i THEN "active" ELSE subs[j]
    BY <1>1, <1>7
  <2>2. ObservableTypeOK' /\ Queues' /\ Errors' /\ NoneAfterClose'
    BY <1>1, <1>2, <1>4, <1>7, <2>1, ObservableAssumption
    DEF IInv, ObservableTypeOK, Queues, Errors, NoReason, NoneAfterClose, browser
  <2>3. Phases' /\ Kinds'
    BY <1>1, <1>2, <1>4, <1>7, <2>1 DEF IInv, Phases, Kinds, browser
  <2>4. Values' /\ Subject'
    BY <1>1, <1>4, <1>7 DEF IInv, Values, Base, Had, Subject, browser
  <2>5. Ends'
    <3>1. \A k \in DOMAIN toClient : toClient[k].type \in Ended =>
              subs'[toClient[k].id] \notin {"none", "active"}
      BY <1>4, <2>1 DEF IInv, Queues, Ends, Had
    <3>2. \A j \in Stream : client[j] \in Ended /\ ~disconnected => subs'[j] \notin {"none", "active"} /\ Had(j) = sent[j]
      BY <1>4, <2>1 DEF IInv, Ends, Had
    <3> QED
      BY <1>1, <1>7, <3>1, <3>2 DEF IInv, Ends, Had, browser
  <2>6. \A k \in DOMAIN toServer' : toServer'[k].type = "subscribe" => toServer'[k].id # i
    <3> SUFFICES ASSUME NEW k \in DOMAIN toServer', toServer'[k].type = "subscribe", toServer'[k].id = i
                 PROVE  FALSE
      OBVIOUS
    <3>1. k + 1 = 1
      BY <1>1, <1>2, <1>3, <1>4 DEF IInv, Requests
    <3> QED
      BY <1>2, <3>1
  <2>7. Requests'
    <3>1. ASSUME NEW k \in DOMAIN toServer', toServer'[k].type = "subscribe"
          PROVE  subs'[toServer'[k].id] = "none"
      <4>1. toServer'[k].id \in Stream /\ subs[toServer'[k].id] = "none"
        BY <1>1, <1>2, <1>4, <3>1, RequestAt DEF IInv, Requests
      <4> QED
        BY <2>1, <2>6, <3>1, <4>1
    <3> QED
      BY <1>1, <3>1, RequestsTail DEF browser
  <2>8. Orderly'
    <3> SUFFICES ASSUME ~again
                 PROVE  Orderly'
      BY <1>1 DEF Orderly, browser
    <3>1. \A j \in Stream : Subscribed(j)' <=> j = i \/ Subscribed(j)
      BY <2>1 DEF Subscribed
    <3>2. ASSUME NEW k \in DOMAIN toServer', toServer'[k].type = "unsubscribe"
          PROVE  \/ subs'[toServer'[k].id] \notin {"none", "removed"}
                 \/ \E j \in DOMAIN toServer' : j < k /\ toServer'[j].type = "subscribe" /\ toServer'[j].id = toServer'[k].id
      <4>1. PICK s \in Stream : s = toServer'[k].id
        BY <1>2, RequestAt
      <4>2. k + 1 \in DOMAIN toServer /\ toServer'[k] = toServer[k + 1] /\ k \in Nat
        BY <1>2
      <4>3. \/ Subscribed(s)
            \/ \E j \in DOMAIN toServer : j < k + 1 /\ toServer[j].type = "subscribe" /\ toServer[j].id = s
        BY <1>4, <3>2, <4>1, <4>2 DEF IInv, Orderly
      <4>4. CASE Subscribed(s)
        BY <2>1, <4>1, <4>4 DEF Subscribed
      <4>5. ASSUME NEW j \in DOMAIN toServer, j < k + 1, toServer[j].type = "subscribe", toServer[j].id = s
              PROVE  \/ subs'[s] \notin {"none", "removed"}
                   \/ \E l \in DOMAIN toServer' : l < k /\ toServer'[l].type = "subscribe" /\ toServer'[l].id = s
        <5>1. CASE j = 1
          BY <1>3, <2>1, <4>5, <5>1
        <5>2. CASE j # 1
          <6>1. j - 1 \in DOMAIN toServer' /\ toServer'[j - 1] = toServer[j] /\ j - 1 < k
            BY <1>2, <4>2, <4>5, <5>2
          <6> QED
            BY <4>5, <6>1
        <5> QED
          BY <5>1, <5>2
      <4> QED
        BY <4>1, <4>3, <4>4, <4>5
    <3>3. \A k \in DOMAIN toServer' : toServer'[k].type = "disconnect" => k = Len(toServer')
      <4> SUFFICES ASSUME NEW k \in DOMAIN toServer', toServer'[k].type = "disconnect"
                   PROVE  k = Len(toServer')
        OBVIOUS
      <4>1. k + 1 = Len(toServer)
        BY <1>2, <1>4 DEF IInv, Orderly
      <4> QED
        BY <1>2, <4>1
    <3>4. \A j \in Stream : client[j] = "active" => Subscribed(j)' \/ Has(toServer', {"subscribe"}, j)
      BY <1>2, <1>3, <1>4, <3>1 DEF IInv, Orderly
    <3>5. \A j \in Stream : client[j] # "active" /\ (Subscribed(j)' \/ Has(toServer', {"subscribe"}, j))
                                => Has(toServer', {"unsubscribe"}, j)
      <4> SUFFICES ASSUME NEW j \in Stream, client[j] # "active", Subscribed(j)' \/ Has(toServer', {"subscribe"}, j)
                   PROVE  Has(toServer', {"unsubscribe"}, j)
        OBVIOUS
      <4>1. Subscribed(j) \/ Has(toServer, {"subscribe"}, j)
        BY <1>1, <1>2, <1>3, <3>1
      <4>2. Has(toServer, {"unsubscribe"}, j)
        BY <1>4, <4>1 DEF IInv, Orderly
      <4> QED
        BY <1>1, <1>2, <4>2
    <3>6. \A j \in Stream : client[j] = "active" /\ subs'[j] \in Ended => Has(toClient, Ended, j)
      BY <1>4, <2>1 DEF IInv, Orderly, Ended
    <3>7. disconnected => \A j \in Stream : client[j] # "active"
      BY <1>4 DEF IInv, Orderly
    <3> QED
      BY <1>1, <1>7, <3>2, <3>3, <3>4, <3>5, <3>6, <3>7 DEF Orderly, Subscribed, browser
  <2> QED
    BY <2>2, <2>3, <2>4, <2>5, <2>7, <2>8 DEF IInv
<1> QED
  BY <1>5, <1>6, <1>7

\* ActionObservableUnsubscribe
LEMMA OnUnsubscribeInv ==
  ASSUME IInv, OnUnsubscribe
  PROVE  IInv'
<1>1. /\ toServer # <<>> /\ toServer' = Tail(toServer) /\ Head(toServer).type = "unsubscribe"
      /\ UNCHANGED <<kind, method, early, sent, kept, browser, open>>
      /\ toServer \in Seq(ToServerMsg)
      /\ subs \in [Stream -> {"none", "active", "removed"} \cup Ended]
  BY Typed DEF OnUnsubscribe, Received
<1>2. /\ toServer' \in Seq(ToServerMsg) /\ Len(toServer') = Len(toServer) - 1
      /\ DOMAIN toServer = 1 .. Len(toServer) /\ DOMAIN toServer' = 1 .. Len(toServer) - 1
      /\ Len(toServer) \in Nat \ {0} /\ Head(toServer) = toServer[1] /\ 1 \in DOMAIN toServer
      /\ \A k \in DOMAIN toServer' : k \in Nat /\ k + 1 \in DOMAIN toServer /\ toServer'[k] = toServer[k + 1]
      /\ \A k \in DOMAIN toServer : k # 1 => k - 1 \in DOMAIN toServer' /\ toServer'[k - 1] = toServer[k]
      /\ \A types, i : Has(toServer, types, i) <=>
             (toServer[1].type \in types /\ toServer[1].id = i) \/ Has(toServer', types, i)
  BY <1>1, ServerTail
<1>3. PICK i \in Stream : i = toServer[1].id
  BY <1>1, <1>2, RequestAt
<1>4. /\ open /\ known # "nothing" /\ method = "returned" /\ kind = "observable"
      /\ client[i] \notin {"none", "active"}
  <2>1. open /\ known # "nothing"
    BY <1>1 DEF IInv, Queues, Phases
  <2>2. kind = "observable"
    BY <1>1, <1>2 DEF IInv, Kinds, ObservableTypeOK
  <2> QED
    BY <1>1, <1>2, <1>3, <2>1, <2>2 DEF IInv, Phases, ObservableTypeOK, Requests
<1>5. \/ kept /\ Subscribed(i) /\ subs' = [subs EXCEPT ![i] = "removed"] /\ UNCHANGED toClient
      \/ ~(kept /\ Subscribed(i)) /\ ServerError /\ UNCHANGED subs
  BY <1>2, <1>3, <1>4 DEF OnUnsubscribe, Unsubscribed
<1>6. CASE ~(kept /\ Subscribed(i)) /\ ServerError /\ UNCHANGED subs
  <2>1. ~again => kept
    BY <1>1, <1>4 DEF IInv, Orderly, ObservableTypeOK
  <2>2. ~again => Subscribed(i)
    <3> SUFFICES ASSUME ~again
                 PROVE  Subscribed(i)
      OBVIOUS
    <3>1. \/ Subscribed(toServer[1].id)
          \/ \E j \in DOMAIN toServer : j < 1 /\ toServer[j].type = "subscribe" /\ toServer[j].id = toServer[1].id
      BY <1>1, <1>2, <1>4 DEF IInv, Orderly
    <3> QED
      BY <1>2, <1>3, <3>1
  <2>3. NoReason
    BY <1>6, <2>1, <2>2 DEF NoReason
  <2> QED
    BY <1>1, <1>4, <1>6, <2>3, FailedInv
<1>7. CASE kept /\ Subscribed(i) /\ subs' = [subs EXCEPT ![i] = "removed"] /\ UNCHANGED toClient
  <2>1. /\ subs' \in [Stream -> {"none", "active", "removed"} \cup Ended]
        /\ \A j \in Stream : subs'[j] = IF j = i THEN "removed" ELSE subs[j]
    BY <1>1, <1>7
  <2>2. ObservableTypeOK' /\ Queues' /\ Errors' /\ NoneAfterClose'
    BY <1>1, <1>2, <1>4, <1>7, <2>1, ObservableAssumption
    DEF IInv, ObservableTypeOK, Queues, Errors, NoReason, NoneAfterClose, browser
  <2>3. Phases' /\ Kinds'
    BY <1>1, <1>2, <1>4, <1>7, <2>1 DEF IInv, Phases, Kinds, browser
  <2>4. Values' /\ Subject'
    BY <1>1, <1>4, <1>7 DEF IInv, Values, Base, Had, Subject, browser
  <2>5. Ends'
    <3>1. \A k \in DOMAIN toClient : toClient[k].type \in Ended =>
              subs'[toClient[k].id] \notin {"none", "active"}
      BY <1>4, <2>1 DEF IInv, Queues, Ends, Had
    <3>2. \A j \in Stream : client[j] \in Ended /\ ~disconnected => subs'[j] \notin {"none", "active"} /\ Had(j) = sent[j]
      BY <1>4, <2>1 DEF IInv, Ends, Had
    <3> QED
      BY <1>1, <1>7, <3>1, <3>2 DEF IInv, Ends, Had, browser
  <2>6. \A k \in DOMAIN toServer' : toServer'[k].type = "unsubscribe" => toServer'[k].id # i
    <3> SUFFICES ASSUME NEW k \in DOMAIN toServer', toServer'[k].type = "unsubscribe", toServer'[k].id = i
                 PROVE  FALSE
      OBVIOUS
    <3>1. k + 1 = 1
      BY <1>1, <1>2, <1>3, <1>4 DEF IInv, Requests
    <3> QED
      BY <1>2, <3>1
  <2>7. Requests'
    <3>1. ASSUME NEW k \in DOMAIN toServer', toServer'[k].type = "subscribe"
          PROVE  subs'[toServer'[k].id] = "none"
      <4>1. toServer'[k].id \in Stream /\ subs[toServer'[k].id] = "none"
        BY <1>1, <1>2, <1>4, <3>1, RequestAt DEF IInv, Requests
      <4>2. toServer'[k].id # i
        BY <1>7, <4>1 DEF Subscribed
      <4> QED
        BY <2>1, <4>1, <4>2
    <3> QED
      BY <1>1, <3>1, RequestsTail DEF browser
  <2>8. Orderly'
    <3> SUFFICES ASSUME ~again
                 PROVE  Orderly'
      BY <1>1 DEF Orderly, browser
    <3>1. \A j \in Stream : Subscribed(j)' <=> j # i /\ Subscribed(j)
      BY <2>1 DEF Subscribed
    <3>2. ASSUME NEW k \in DOMAIN toServer', toServer'[k].type = "unsubscribe"
          PROVE  \/ subs'[toServer'[k].id] \notin {"none", "removed"}
                 \/ \E j \in DOMAIN toServer' : j < k /\ toServer'[j].type = "subscribe" /\ toServer'[j].id = toServer'[k].id
      <4>1. PICK s \in Stream : s = toServer'[k].id
        BY <1>2, RequestAt
      <4>2. k + 1 \in DOMAIN toServer /\ toServer'[k] = toServer[k + 1] /\ k \in Nat /\ s # i
        BY <1>2, <2>6, <3>2, <4>1
      <4>3. \/ Subscribed(s)
            \/ \E j \in DOMAIN toServer : j < k + 1 /\ toServer[j].type = "subscribe" /\ toServer[j].id = s
        BY <1>4, <3>2, <4>1, <4>2 DEF IInv, Orderly
      <4>4. CASE Subscribed(s)
        BY <2>1, <4>1, <4>2, <4>4 DEF Subscribed
      <4>5. ASSUME NEW j \in DOMAIN toServer, j < k + 1, toServer[j].type = "subscribe", toServer[j].id = s
            PROVE  \E l \in DOMAIN toServer' : l < k /\ toServer'[l].type = "subscribe" /\ toServer'[l].id = s
        <5>1. j # 1
          BY <1>1, <1>2, <4>5
        <5>2. j - 1 \in DOMAIN toServer' /\ toServer'[j - 1] = toServer[j] /\ j - 1 < k
          BY <1>2, <4>2, <4>5, <5>1
        <5> QED
          BY <4>5, <5>2
      <4> QED
        BY <4>1, <4>3, <4>4, <4>5
    <3>3. \A k \in DOMAIN toServer' : toServer'[k].type = "disconnect" => k = Len(toServer')
      <4> SUFFICES ASSUME NEW k \in DOMAIN toServer', toServer'[k].type = "disconnect"
                   PROVE  k = Len(toServer')
        OBVIOUS
      <4>1. k + 1 = Len(toServer)
        BY <1>2, <1>4 DEF IInv, Orderly
      <4> QED
        BY <1>2, <4>1
    <3>4. \A j \in Stream : client[j] = "active" => Subscribed(j)' \/ Has(toServer', {"subscribe"}, j)
      BY <1>1, <1>2, <1>4, <3>1 DEF IInv, Orderly
    <3>5. \A j \in Stream : client[j] # "active" /\ (Subscribed(j)' \/ Has(toServer', {"subscribe"}, j))
                                => Has(toServer', {"unsubscribe"}, j)
      <4> SUFFICES ASSUME NEW j \in Stream, client[j] # "active", Subscribed(j)' \/ Has(toServer', {"subscribe"}, j)
                   PROVE  Has(toServer', {"unsubscribe"}, j)
        OBVIOUS
      <4>1. j # i
        <5>1. CASE Subscribed(j)'
          BY <3>1, <5>1
        <5>2. CASE Has(toServer', {"subscribe"}, j)
          BY <1>2, <1>4, <1>7, <5>2 DEF IInv, Requests, Has, Subscribed
        <5> QED
          BY <5>1, <5>2
      <4>2. Subscribed(j) \/ Has(toServer, {"subscribe"}, j)
        BY <1>2, <3>1
      <4>3. Has(toServer, {"unsubscribe"}, j)
        BY <1>4, <4>2 DEF IInv, Orderly
      <4> QED
        BY <1>2, <1>3, <4>1, <4>3
    <3>6. \A j \in Stream : client[j] = "active" /\ subs'[j] \in Ended => Has(toClient, Ended, j)
      BY <1>4, <2>1 DEF IInv, Orderly
    <3>7. disconnected => \A j \in Stream : client[j] # "active"
      BY <1>4 DEF IInv, Orderly
    <3> QED
      BY <1>1, <1>7, <3>2, <3>3, <3>4, <3>5, <3>6, <3>7 DEF Orderly, Subscribed, browser
  <2> QED
    BY <2>2, <2>3, <2>4, <2>5, <2>7, <2>8 DEF IInv
<1> QED
  BY <1>5, <1>6, <1>7

\* ActionObservableSubjectUnsubscribe
LEMMA OnSubjectUnsubscribeInv ==
  ASSUME IInv, OnSubjectUnsubscribe
  PROVE  IInv'
<1>1. /\ toServer # <<>> /\ toServer' = Tail(toServer) /\ Head(toServer).type = "complete"
      /\ UNCHANGED <<kind, method, early, sent, browser, open>>
      /\ toServer \in Seq(ToServerMsg) /\ 1 \in Stream
      /\ subs \in [Stream -> {"none", "active", "removed"} \cup Ended]
  BY Typed DEF OnSubjectUnsubscribe, Received
<1>2. /\ toServer' \in Seq(ToServerMsg) /\ Len(toServer') = Len(toServer) - 1
      /\ Len(toServer) \in Nat \ {0} /\ Head(toServer) = toServer[1] /\ 1 \in DOMAIN toServer
      /\ \A k \in DOMAIN toServer' : k \in Nat /\ k + 1 \in DOMAIN toServer /\ toServer'[k] = toServer[k + 1]
  BY <1>1, ServerTail
<1>3. /\ open /\ known # "nothing" /\ method = "returned" /\ kind # "observable" /\ ~disconnected
  <2>1. open /\ known # "nothing"
    BY <1>1 DEF IInv, Queues, Phases
  <2>2. kind # "observable"
    BY <1>1, <1>2 DEF IInv, Kinds, ObservableTypeOK
  <2> QED
    BY <2>1, <2>2 DEF IInv, Phases, ObservableTypeOK
<1>4. client[1] \in Ended \cup {"unsubscribed"}
  BY <1>1, <1>3, Typed DEF IInv, Subject
<1>5. CASE ~kept /\ ServerError /\ UNCHANGED <<subs, kept>>
  <2>1. client[1] = "unsubscribed"
    BY <1>1, <1>3, <1>4, <1>5 DEF IInv, Subject
  <2> QED
    BY <1>1, <1>3, <1>5, <2>1, FailedInv DEF NoReason
<1>6. CASE kept /\ subs' = [subs EXCEPT ![1] = IF @ = "active" THEN "completed" ELSE @] /\ kept' = FALSE /\ UNCHANGED toClient
  <2>1. /\ subs' \in [Stream -> {"none", "active", "removed"} \cup Ended]
        /\ \A j \in Stream : subs'[j] = IF j = 1 /\ subs[j] = "active" THEN "completed" ELSE subs[j]
    BY <1>1, <1>6 DEF Ended
  <2>2. \A j \in Stream : /\ subs[j] \notin {"none", "active"} => subs'[j] \notin {"none", "active"}
                          /\ subs'[j] = "none" <=> subs[j] = "none"
                          /\ subs'[j] = "active" => subs[j] = "active"
    BY <2>1
  <2>3. ObservableTypeOK' /\ Queues' /\ Errors' /\ NoneAfterClose'
    <3>2. ObservableTypeOK'
      BY <1>1, <1>6, <2>1 DEF IInv, ObservableTypeOK, browser
    <3>3. Queues' /\ Errors' /\ NoneAfterClose'
      BY <1>1, <1>2, <1>3, <1>6 DEF IInv, Queues, Errors, NoReason, NoneAfterClose, browser
    <3> QED
      BY <3>2, <3>3
  <2>4. Phases'
    BY <1>1, <1>3, <1>6 DEF IInv, Phases, browser
  <2>5. Kinds'
    BY <1>1, <1>2, <1>3, <1>6, <2>2 DEF IInv, Kinds, browser
  <2>6. Values' /\ Requests' /\ Orderly'
    BY <1>1, <1>3, <1>6 DEF IInv, Values, Base, Had, Requests, Orderly, browser
  <2>7. Ends'
    <3>1. \A k \in DOMAIN toClient : toClient[k].type \in Ended =>
              subs'[toClient[k].id] \notin {"none", "active"}
      BY <2>2 DEF IInv, Queues, Ends, Had
    <3>2. \A j \in Stream : client[j] \in Ended /\ ~disconnected => subs'[j] \notin {"none", "active"} /\ Had(j) = sent[j]
      BY <2>2 DEF IInv, Ends, Had
    <3> QED
      BY <1>1, <1>6, <3>1, <3>2 DEF IInv, Ends, Had, browser
  <2>8. Subject'
    <3>1. subs'[1] # "active" /\ (subs[1] # "active" => subs'[1] = subs[1])
      BY <1>1, <2>1
    <3>2. CASE client[1] \in Ended
      <4>1. Len(toServer) <= 1
        BY <1>3, <3>2 DEF IInv, Subject
      <4>2. Len(toServer') = 0
        BY <1>2, <4>1
      <4>3. toServer' = <<>>
        BY <1>2, <4>2, EmptySeq
      <4> QED
        BY <1>1, <1>3, <1>6, <3>1, <3>2, <4>2, <4>3 DEF IInv, Subject, Ended, browser
    <3>3. CASE client[1] = "unsubscribed"
      <4>1. Len(toServer) <= IF Has(toClient, Ended, 1) \/ subs[1] = "active" THEN 1 ELSE 2
        BY <1>3, <3>3 DEF IInv, Subject
      <4>2. Len(toServer') <= IF Has(toClient, Ended, 1) THEN 1 ELSE 2
        BY <1>2, <4>1
      <4> QED
        BY <1>1, <1>3, <1>6, <3>1, <3>3, <4>2 DEF IInv, Subject, Ended, browser
    <3> QED
      BY <1>4, <3>2, <3>3
  <2> QED
    BY <2>3, <2>4, <2>5, <2>6, <2>7, <2>8 DEF IInv
<1> QED
  BY <1>5, <1>6 DEF OnSubjectUnsubscribe, IInv, ObservableTypeOK

\* Several messages are written that are neither values nor announcements.
LEMMA FlowConcat ==
  ASSUME NEW q \in Seq(ToClientMsg), NEW r \in Seq(ToClientMsg), NEW i, NEW lo \in Nat, NEW hi \in Nat,
         Flow(q, i, lo, hi), \A k \in DOMAIN r : r[k].type \notin {"type", "next"}
  PROVE  Flow(q \o r, i, lo, hi)
<1> DEFINE t == q \o r
<1>1. /\ t \in Seq(ToClientMsg) /\ Len(q) \in Nat /\ Len(r) \in Nat
      /\ DOMAIN q = 1 .. Len(q) /\ DOMAIN r = 1 .. Len(r) /\ DOMAIN t = 1 .. Len(q) + Len(r)
      /\ \A k \in 1 .. Len(q) : t[k] = q[k]
      /\ \A k \in Len(q) + 1 .. Len(q) + Len(r) : t[k] = r[k - Len(q)]
  BY ConcatAt
<1> HIDE DEF t
<1>2. \A k \in DOMAIN q : k \in DOMAIN t /\ t[k] = q[k]
  BY <1>1
<1>3. \A k \in DOMAIN t : k \in DOMAIN q \/ t[k].type \notin {"type", "next"}
  <2> TAKE k \in DOMAIN t
  <2>1. CASE k \in 1 .. Len(q)
    BY <1>1, <2>1
  <2>2. CASE k \in Len(q) + 1 .. Len(q) + Len(r)
    <3>1. k - Len(q) \in DOMAIN r /\ t[k] = r[k - Len(q)]
      BY <1>1, <2>2
    <3> QED
      BY <3>1
  <2> QED
    BY <1>1, <2>1, <2>2
<1>4. \A k \in DOMAIN q : IsNext(t, k, i) <=> IsNext(q, k, i)
  BY <1>2, <1>3 DEF IsNext, Current
<1>5. \A k \in DOMAIN t : IsNext(t, k, i) => k \in DOMAIN q
  BY <1>3 DEF IsNext
<1> QED
  BY <1>2, <1>4, <1>5 DEF Flow, t

\* ActionObservableDisconnect
LEMMA OnDisconnectInv ==
  ASSUME IInv, OnDisconnect
  PROVE  IInv'
<1>1. /\ toServer # <<>> /\ toServer' = Tail(toServer) /\ Head(toServer).type = "disconnect"
      /\ UNCHANGED <<kind, method, early, sent, browser, open>>
      /\ toServer \in Seq(ToServerMsg) /\ toClient \in Seq(ToClientMsg)
      /\ subs \in [Stream -> {"none", "active", "removed"} \cup Ended]
  BY Typed DEF OnDisconnect, Received
<1>2. /\ toServer' \in Seq(ToServerMsg) /\ Len(toServer') = Len(toServer) - 1
      /\ Len(toServer) \in Nat \ {0} /\ Head(toServer) = toServer[1] /\ 1 \in DOMAIN toServer
      /\ \A k \in DOMAIN toServer' : k \in Nat /\ k + 1 \in DOMAIN toServer /\ toServer'[k] = toServer[k + 1]
  BY <1>1, ServerTail
<1>3. /\ open /\ known # "nothing" /\ method = "returned" /\ kind = "observable" /\ disconnected
  <2>1. open /\ known # "nothing"
    BY <1>1 DEF IInv, Queues, Phases
  <2>2. kind = "observable"
    BY <1>1, <1>2 DEF IInv, Kinds, ObservableTypeOK
  <2> QED
    BY <1>1, <1>2, <2>1, <2>2 DEF IInv, Phases, ObservableTypeOK, Requests
<1> DEFINE left == SetToSeq({i \in Stream : Subscribed(i)})
           r == [k \in DOMAIN left |-> Msg("completed", left[k], 0)]
<1>4. \/ ~kept /\ ServerError /\ UNCHANGED <<subs, kept>>
      \/ /\ kept /\ kept' = FALSE
         /\ subs' = [i \in Stream |-> IF Subscribed(i) THEN "removed" ELSE subs[i]]
         /\ Reply(r)
  BY DEF OnDisconnect
<1>5. CASE ~kept /\ ServerError /\ UNCHANGED <<subs, kept>>
  <2>1. again
    BY <1>1, <1>3, <1>5 DEF IInv, Orderly, ObservableTypeOK
  <2> QED
    BY <1>1, <1>3, <1>5, <2>1, FailedInv DEF NoReason
<1>6. ASSUME kept, kept' = FALSE, subs' = [i \in Stream |-> IF Subscribed(i) THEN "removed" ELSE subs[i]], Reply(r)
      PROVE  IInv'
  <2>1. /\ r \in Seq(ToClientMsg)
        /\ \A k \in DOMAIN r : r[k].type = "completed" /\ r[k].id \in Stream /\ Subscribed(r[k].id)
    <3>1. IsFiniteSet(Stream) /\ IsFiniteSet({i \in Stream : Subscribed(i)})
      <4>1. IsFiniteSet(Stream)
        BY ObservableAssumption, FS_Interval DEF Stream
      <4>2. {i \in Stream : Subscribed(i)} \in SUBSET Stream
        OBVIOUS
      <4> QED
        BY <4>1, <4>2, FS_Subset
    <3>2. left \in Seq({i \in Stream : Subscribed(i)}) /\ Len(left) \in Nat /\ DOMAIN left = 1 .. Len(left)
      BY <3>1, SetToSeqAt
    <3> HIDE DEF left
    <3>3. \A k \in 1 .. Len(left) : left[k] \in Stream /\ Subscribed(left[k])
      BY <3>2
    <3>4. \A k \in 1 .. Len(left) : /\ Msg("completed", left[k], 0) \in ToClientMsg
                                    /\ Msg("completed", left[k], 0).type = "completed"
                                    /\ Msg("completed", left[k], 0).id = left[k]
      BY <3>3, ObservableAssumption DEF Msg, ToClientMsg, Stream
    <3>5. r \in [1 .. Len(left) -> ToClientMsg] /\ \A k \in 1 .. Len(left) : r[k] = Msg("completed", left[k], 0)
      BY <3>2, <3>4
    <3>6. r \in Seq(ToClientMsg) /\ DOMAIN r = 1 .. Len(left)
      BY <3>2, <3>5, MappedAt
    <3> QED
      BY <3>3, <3>4, <3>5, <3>6
  <2> HIDE DEF r, left
  <2>2. toClient' = toClient \o r
    BY <1>3, <1>6 DEF Reply
  <2>3. /\ toClient' \in Seq(ToClientMsg) /\ Len(toClient) \in Nat /\ Len(r) \in Nat
        /\ DOMAIN toClient = 1 .. Len(toClient) /\ DOMAIN r = 1 .. Len(r) /\ DOMAIN toClient' = 1 .. Len(toClient) + Len(r)
        /\ \A k \in 1 .. Len(toClient) : toClient'[k] = toClient[k]
        /\ \A k \in Len(toClient) + 1 .. Len(toClient) + Len(r) : toClient'[k] = r[k - Len(toClient)]
    BY <1>1, <2>1, <2>2, ConcatAt
  <2>4. \A k \in DOMAIN toClient : k \in DOMAIN toClient' /\ toClient'[k] = toClient[k]
    BY <2>3
  <2>5. ASSUME NEW k \in DOMAIN toClient', k \notin DOMAIN toClient
        PROVE  /\ toClient'[k].type = "completed" /\ toClient'[k].id \in Stream /\ Subscribed(toClient'[k].id)
               /\ \A j \in DOMAIN toClient : j < k
    <3>1. k \in Len(toClient) + 1 .. Len(toClient) + Len(r) /\ k - Len(toClient) \in DOMAIN r
      BY <2>3, <2>5
    <3> QED
      BY <2>1, <2>3, <3>1
  <2>6. /\ subs' \in [Stream -> {"none", "active", "removed"} \cup Ended]
        /\ \A j \in Stream : /\ subs'[j] = IF Subscribed(j) THEN "removed" ELSE subs[j]
                             /\ subs[j] \notin {"none", "active"} => subs'[j] \notin {"none", "active"}
                             /\ subs'[j] = "none" <=> subs[j] = "none"
                             /\ subs'[j] \in {"none", "removed"}
    BY <1>1, <1>6 DEF Subscribed
  <2>7. ObservableTypeOK' /\ NoneAfterClose'
    BY <1>1, <1>3, <1>6, <2>6 DEF IInv, ObservableTypeOK, NoneAfterClose, browser
  <2>8. Queues'
    BY <1>1, <1>2, <1>3, <2>3, <2>4, <2>5 DEF IInv, Queues
  <2>9. Phases'
    <3>1. \A k \in DOMAIN toClient' : toClient'[k].type = "type" => k \in DOMAIN toClient
      BY <2>5
    <3>2. Untyped(toClient') <=> Untyped(toClient)
      BY <2>4, <3>1 DEF Untyped
    <3>3. \A j, k \in DOMAIN toClient' : toClient'[j].type = "type" /\ toClient'[k].type = "type" => j = k
      BY <2>4, <3>1 DEF IInv, Phases
    <3> QED
      BY <1>1, <1>3, <3>2, <3>3 DEF IInv, Phases, browser
  <2>10. Kinds'
    BY <1>1, <1>2, <1>3, <2>6 DEF IInv, Kinds, browser
  <2>11. Values'
    <3> SUFFICES ASSUME NEW j \in Stream, client[j] \in {"none", "active"}, ~released
                 PROVE  Flow(toClient', j, Base(j), sent[j])
      BY <1>1 DEF Values, Base, Had, browser
    <3>1. Flow(toClient, j, Base(j), sent[j]) /\ Base(j) \in Nat /\ sent[j] \in Nat
      BY <1>3, Typed DEF IInv, Values
    <3>2. \A k \in DOMAIN r : r[k].type \notin {"type", "next"}
      BY <2>1
    <3> QED
      BY <1>1, <2>1, <2>2, <3>1, <3>2, FlowConcat
  <2>12. Ends'
    <3>1. ASSUME NEW k \in DOMAIN toClient', toClient'[k].type \in Ended
          PROVE  /\ subs'[toClient'[k].id] \notin {"none", "active"}
                 /\ \A j \in DOMAIN toClient' : toClient'[j].type = "next" /\ toClient'[j].id = toClient'[k].id => j < k
      <4>1. \A j \in DOMAIN toClient' : toClient'[j].type = "next" => j \in DOMAIN toClient /\ toClient'[j] = toClient[j]
        BY <2>4, <2>5
      <4>2. CASE k \in DOMAIN toClient
        <5>1. toClient'[k] = toClient[k] /\ toClient[k].id \in Stream /\ subs[toClient[k].id] \notin {"none", "active"}
          BY <2>4, <3>1, <4>2 DEF IInv, Queues, Ends, Had
        <5> QED
          BY <2>6, <3>1, <4>1, <4>2, <5>1 DEF IInv, Ends, Had
      <4>3. CASE k \notin DOMAIN toClient
        BY <2>5, <2>6, <4>1, <4>3
      <4> QED
        BY <4>2, <4>3
    <3> QED
      BY <1>1, <1>3, <3>1 DEF Ends, Had, browser
  <2>13. Errors'
    <3>1. \A k \in DOMAIN toClient' : toClient'[k].type = "error" => k \in DOMAIN toClient /\ toClient'[k] = toClient[k]
      BY <2>4, <2>5
    <3> QED
      BY <1>1, <3>1 DEF IInv, Errors, NoReason, browser
  <2>14. Requests'
    <3>1. ASSUME NEW k \in DOMAIN toServer', toServer'[k].type = "subscribe"
          PROVE  subs'[toServer'[k].id] = "none"
      <4>1. toServer'[k].id \in Stream /\ subs[toServer'[k].id] = "none"
        BY <1>1, <1>2, <1>3, <3>1, RequestAt DEF IInv, Requests
      <4> QED
        BY <2>6, <4>1
    <3> QED
      BY <1>1, <3>1, RequestsTail DEF browser
  <2>15. Orderly'
    <3> SUFFICES ASSUME ~again
                 PROVE  Orderly'
      BY <1>1 DEF Orderly, browser
    <3>1. Len(toServer) = 1 /\ \A j \in Stream : client[j] # "active"
      BY <1>1, <1>2, <1>3 DEF IInv, Orderly
    <3>2. toServer' = <<>>
      BY <1>2, <3>1, EmptySeq
    <3>3. \A j \in Stream : ~Subscribed(j)' /\ ~Has(toServer', {"subscribe"}, j)
      BY <2>6, <3>2 DEF Subscribed, Has
    <3> QED
      BY <1>1, <1>3, <3>1, <3>2, <3>3 DEF Orderly, browser, Subscribed
  <2>16. Subject'
    BY <1>1, <1>3 DEF Subject, browser
  <2> QED
    BY <2>7, <2>8, <2>9, <2>10, <2>11, <2>12, <2>13, <2>14, <2>15, <2>16 DEF IInv
<1> QED
  BY <1>4, <1>5, <1>6

\* What observable.disconnect() writes: the requests of the new subscriptions,
\* those of the old ones to end, and at last its own.
Written(news, olds) ==
    [k \in 1 .. Len(SetToSeq(news)) |-> Msg("subscribe", SetToSeq(news)[k], 0)]
    \o [k \in DOMAIN SetToSeq(olds) |-> Msg("unsubscribe", SetToSeq(olds)[k], 0)]
    \o <<Msg("disconnect", 1, 0)>>

\* Each request once, and its own is the last one.
LEMMA WrittenAt ==
  ASSUME NEW news \in SUBSET Stream, NEW olds \in SUBSET Stream
  PROVE  LET q == Written(news, olds)
         IN  /\ q \in Seq(ToServerMsg) /\ Len(q) \in Nat \ {0} /\ DOMAIN q = 1 .. Len(q)
             /\ \A j, k \in DOMAIN q : q[j].type = q[k].type /\ q[j].id = q[k].id => j = k
             /\ \A k \in DOMAIN q : \/ q[k].type = "subscribe" /\ q[k].id \in news
                                    \/ q[k].type = "unsubscribe" /\ q[k].id \in olds
                                    \/ q[k].type = "disconnect" /\ q[k].id = 1 /\ k = Len(q)
             /\ \A i \in olds : Has(q, {"unsubscribe"}, i)
             /\ ToSet(SetToSeq(olds)) = olds
<1> DEFINE new == SetToSeq(news)
           old == SetToSeq(olds)
           a == [k \in 1 .. Len(new) |-> Msg("subscribe", new[k], 0)]
           b == [k \in DOMAIN old |-> Msg("unsubscribe", old[k], 0)]
           d == Msg("disconnect", 1, 0)
           q == Written(news, olds)
<1>0. q = (a \o b) \o <<d>>
  BY DEF Written
<1> HIDE DEF q
<1>1. IsFiniteSet(news) /\ IsFiniteSet(olds) /\ 1 \in Stream /\ Stream \subseteq Int
  <2>1. IsFiniteSet(Stream) /\ 1 \in Stream /\ Stream \subseteq Int
    BY ObservableAssumption, FS_Interval DEF Stream
  <2> QED
    BY <2>1, FS_Subset
<1>2. /\ new \in Seq(news) /\ Len(new) \in Nat /\ DOMAIN new = 1 .. Len(new)
      /\ \A j, k \in DOMAIN new : new[j] = new[k] => j = k
  BY <1>1, SetToSeqAt
<1>3. /\ old \in Seq(olds) /\ Len(old) \in Nat /\ DOMAIN old = 1 .. Len(old)
      /\ \A j, k \in DOMAIN old : old[j] = old[k] => j = k
      /\ \A i \in olds : \E k \in DOMAIN old : old[k] = i
  BY <1>1, SetToSeqAt
<1> HIDE DEF new, old
<1>4. /\ \A k \in 1 .. Len(new) : new[k] \in news /\ new[k] \in Stream
      /\ \A k \in 1 .. Len(old) : old[k] \in olds /\ old[k] \in Stream
  BY <1>2, <1>3
<1>5. \A i \in Stream : /\ Msg("subscribe", i, 0) \in ToServerMsg /\ Msg("subscribe", i, 0).type = "subscribe" /\ Msg("subscribe", i, 0).id = i
                        /\ Msg("unsubscribe", i, 0) \in ToServerMsg /\ Msg("unsubscribe", i, 0).type = "unsubscribe" /\ Msg("unsubscribe", i, 0).id = i
                        /\ Msg("disconnect", i, 0) \in ToServerMsg /\ Msg("disconnect", i, 0).type = "disconnect" /\ Msg("disconnect", i, 0).id = i
  BY DEF Msg, ToServerMsg
<1>6. /\ a \in Seq(ToServerMsg) /\ Len(a) = Len(new)
      /\ \A k \in 1 .. Len(new) : a[k].type = "subscribe" /\ a[k].id = new[k]
  <2>1. a \in [1 .. Len(new) -> ToServerMsg] /\ \A k \in 1 .. Len(new) : a[k] = Msg("subscribe", new[k], 0)
    BY <1>4, <1>5
  <2>2. a \in Seq(ToServerMsg) /\ Len(a) = Len(new)
    BY <1>2, <2>1, MappedAt
  <2> QED
    BY <1>4, <1>5, <2>1, <2>2
<1>7. /\ b \in Seq(ToServerMsg) /\ Len(b) = Len(old)
      /\ \A k \in 1 .. Len(old) : b[k].type = "unsubscribe" /\ b[k].id = old[k]
  <2>1. b \in [1 .. Len(old) -> ToServerMsg] /\ \A k \in 1 .. Len(old) : b[k] = Msg("unsubscribe", old[k], 0)
    BY <1>3, <1>4, <1>5
  <2>2. b \in Seq(ToServerMsg) /\ Len(b) = Len(old)
    BY <1>3, <2>1, MappedAt
  <2> QED
    BY <1>4, <1>5, <2>1, <2>2
<1>8. d \in ToServerMsg /\ d.type = "disconnect" /\ d.id = 1
  BY <1>1, <1>5
<1> HIDE DEF a, b, d
<1> DEFINE ab == a \o b
<1>9. /\ ab \in Seq(ToServerMsg) /\ Len(ab) = Len(new) + Len(old)
      /\ \A k \in 1 .. Len(new) : ab[k] = a[k]
      /\ \A k \in Len(new) + 1 .. Len(new) + Len(old) : ab[k] = b[k - Len(new)]
  <2>1. a \in Seq(ToServerMsg) /\ b \in Seq(ToServerMsg)
    BY <1>6, <1>7
  <2>2. /\ ab \in Seq(ToServerMsg) /\ Len(ab) = Len(a) + Len(b)
        /\ \A k \in 1 .. Len(a) : ab[k] = a[k]
        /\ \A k \in Len(a) + 1 .. Len(a) + Len(b) : ab[k] = b[k - Len(a)]
    BY <2>1, ConcatAt
  <2> HIDE DEF ab
  <2> QED
    BY <1>6, <1>7, <2>2
<1> HIDE DEF ab
<1>10. /\ q \in Seq(ToServerMsg) /\ Len(q) = Len(new) + Len(old) + 1 /\ DOMAIN q = 1 .. Len(new) + Len(old) + 1
       /\ \A k \in 1 .. Len(new) + Len(old) : q[k] = ab[k]
       /\ q[Len(new) + Len(old) + 1] = d
  <2>1. q = ab \o <<d>>
    BY <1>0 DEF ab
  <2>2. /\ ab \o <<d>> \in Seq(ToServerMsg) /\ DOMAIN (ab \o <<d>>) = 1 .. Len(ab) + 1
        /\ Len(ab \o <<d>>) = Len(ab) + 1
        /\ \A k \in 1 .. Len(ab) : (ab \o <<d>>)[k] = ab[k]
        /\ (ab \o <<d>>)[Len(ab) + 1] = d
    <3>1. ab \in Seq(ToServerMsg) /\ d \in ToServerMsg
      BY <1>8, <1>9
    <3> QED
      BY <3>1, PushAt
  <2> QED
    BY <1>9, <2>1, <2>2
<1> DEFINE M == Len(new)
           N == Len(old)
<1>11. M \in Nat /\ N \in Nat
  BY <1>2, <1>3
<1>12. \A k \in 1 .. M : k \in DOMAIN q /\ q[k].type = "subscribe" /\ q[k].id = new[k]
  BY <1>6, <1>9, <1>10, <1>11
<1>13. \A k \in 1 .. N : k + M \in DOMAIN q /\ q[k + M].type = "unsubscribe" /\ q[k + M].id = old[k]
  <2> TAKE k \in 1 .. N
  <2>1. k + M \in M + 1 .. M + N /\ (k + M) - M = k /\ k + M \in 1 .. M + N
    BY <1>11
  <2>2. q[k + M] = b[k]
    BY <1>9, <1>10, <2>1
  <2> QED
    BY <1>7, <1>10, <2>1, <2>2
<1>14. ASSUME NEW k \in DOMAIN q
       PROVE  \/ k \in 1 .. M /\ q[k].type = "subscribe" /\ q[k].id = new[k]
              \/ k - M \in 1 .. N /\ q[k].type = "unsubscribe" /\ q[k].id = old[k - M]
              \/ k = M + N + 1 /\ q[k].type = "disconnect" /\ q[k].id = 1
  <2>1. k \in 1 .. M \/ k \in M + 1 .. M + N \/ k = M + N + 1
    BY <1>10, <1>11
  <2>2. CASE k \in M + 1 .. M + N
    <3>1. k - M \in 1 .. N /\ (k - M) + M = k
      BY <1>11, <2>2
    <3>2. q[(k - M) + M].type = "unsubscribe" /\ q[(k - M) + M].id = old[k - M]
      BY <1>13, <3>1
    <3> QED
      BY <3>1, <3>2
  <2> QED
    BY <1>8, <1>10, <1>12, <2>1, <2>2
<1>15. ASSUME NEW j \in DOMAIN q, NEW k \in DOMAIN q, q[j].type = q[k].type, q[j].id = q[k].id
       PROVE  j = k
  <2>1. CASE q[k].type = "subscribe"
    BY <1>2, <1>14, <1>15, <2>1
  <2>2. CASE q[k].type = "unsubscribe"
    <3>1. j - M \in 1 .. N /\ k - M \in 1 .. N /\ old[j - M] = old[k - M] /\ j \in Int /\ k \in Int
      BY <1>10, <1>14, <1>15, <2>2
    <3>2. j - M = k - M
      BY <1>3, <3>1
    <3> QED
      BY <1>11, <3>1, <3>2
  <2>3. CASE q[k].type = "disconnect"
    BY <1>14, <1>15, <2>3
  <2> QED
    BY <1>14, <2>1, <2>2, <2>3
<1>16. ASSUME NEW k \in DOMAIN q
       PROVE  \/ q[k].type = "subscribe" /\ q[k].id \in news
              \/ q[k].type = "unsubscribe" /\ q[k].id \in olds
              \/ q[k].type = "disconnect" /\ q[k].id = 1 /\ k = Len(q)
  BY <1>4, <1>10, <1>14
<1>17. ASSUME NEW i \in olds
       PROVE  Has(q, {"unsubscribe"}, i)
  <2>1. PICK k \in 1 .. N : old[k] = i
    BY <1>3
  <2>2. k + M \in DOMAIN q /\ q[k + M].type = "unsubscribe" /\ q[k + M].id = i
    BY <1>13, <2>1
  <2> QED
    BY <2>2 DEF Has
<1>18. ToSet(old) = olds
  <2>1. ToSet(old) = {old[k] : k \in DOMAIN old}
    BY DEF ToSet
  <2> QED
    BY <1>3, <1>4, <2>1
<1>19. Len(q) \in Nat \ {0} /\ DOMAIN q = 1 .. Len(q)
  BY <1>10, <1>11
<1> QED
  BY <1>10, <1>15, <1>16, <1>17, <1>18, <1>19 DEF q, old

\* observable.disconnect()
LEMMA DisconnectInv ==
  ASSUME IInv, NEW news \in SUBSET Stream, Disconnect(news)
  PROVE  IInv'
<1>0. PICK olds \in SUBSET Stream : olds = {i \in Stream : client[i] = "active"}
  OBVIOUS
<1> DEFINE old == SetToSeq(olds)
           q == Written(news, olds)
<1>1. /\ client \in [Stream -> {"none", "active", "unsubscribed"} \cup Ended]
      /\ toServer \in Seq(ToServerMsg) /\ toClient \in Seq(ToClientMsg) /\ 1 \in Stream
  BY Typed
<1>2. /\ known = "observable" /\ kind = "observable" /\ method # "running"
      /\ \A i \in news : client[i] = "none"
      /\ client' = [i \in Stream |-> IF i \in ToSet(old) THEN "completed"
                                     ELSE IF i \in news THEN "active" ELSE client[i]]
      /\ Send(q)
      /\ disconnected' = TRUE /\ again' = (again \/ disconnected \/ news # {})
      /\ UNCHANGED <<server, known, released, got, open, toClient>>
  <2>1. \A i \in news : client[i] = "none"
    BY DEF Disconnect, Unused
  <2>2. known = "observable"
    BY DEF Disconnect
  <2>3. kind = "observable" /\ method # "running"
    BY <2>2 DEF IInv, ObservableTypeOK, Phases
  <2>4. Send(q) /\ client' = [i \in Stream |-> IF i \in ToSet(old) THEN "completed"
                                           ELSE IF i \in news THEN "active" ELSE client[i]]
    BY <1>0 DEF Disconnect, Written
  <2> QED
    BY <2>1, <2>2, <2>3, <2>4 DEF Disconnect
<1>3. /\ q \in Seq(ToServerMsg) /\ Len(q) \in Nat \ {0} /\ DOMAIN q = 1 .. Len(q)
      /\ \A j, k \in DOMAIN q : q[j].type = q[k].type /\ q[j].id = q[k].id => j = k
      /\ \A k \in DOMAIN q : \/ q[k].type = "subscribe" /\ q[k].id \in news
                             \/ q[k].type = "unsubscribe" /\ q[k].id \in olds
                             \/ q[k].type = "disconnect" /\ q[k].id = 1 /\ k = Len(q)
      /\ \A i \in olds : Has(q, {"unsubscribe"}, i)
      /\ ToSet(old) = olds
  BY WrittenAt
<1> HIDE DEF q, old
<1>4. /\ client' \in [Stream -> {"none", "active", "unsubscribed"} \cup Ended]
      /\ \A j \in Stream : client'[j] = IF client[j] = "active" THEN "completed"
                                        ELSE IF j \in news THEN "active" ELSE client[j]
  BY <1>0, <1>1, <1>2, <1>3 DEF Ended
<1>5. /\ \A j \in Stream : /\ client'[j] = "none" => client[j] = "none"
                           /\ client'[j] \in {"none", "active"} => client[j] = "none"
                           /\ client[j] # "none" => (client'[j] \notin {"none", "active"} \/ j \in news)
                           /\ client[j] \notin {"none", "active"} => client'[j] = client[j]
  BY <1>2, <1>4
<1>6. Phases' /\ Errors' /\ Values' /\ Ends' /\ Subject' /\ NoneAfterClose'
  <2>1. Phases'
    BY <1>2 DEF IInv, Phases, server
  <2>2. Errors'
    BY <1>2 DEF IInv, Errors, NoReason, server
  <2>3. Values'
    BY <1>2, <1>5 DEF IInv, Values, Base, Had, server
  <2>4. Ends'
    BY <1>2 DEF IInv, Ends, Had, server
  <2> QED
    BY <1>2, <2>1, <2>2, <2>3, <2>4 DEF IInv, Subject, NoneAfterClose, server
<1>7. CASE ~open
  <2>1. toServer' = toServer /\ toServer = <<>>
    BY <1>2, <1>7 DEF IInv, Queues, Send
  <2>2. Requests' /\ Kinds'
    BY <1>2, <1>5, <2>1 DEF IInv, Requests, Kinds, server
  <2>3. ObservableTypeOK' /\ Queues' /\ Orderly'
    BY <1>2, <1>4, <1>7, <2>1 DEF IInv, ObservableTypeOK, Queues, Orderly, server
  <2> QED
    BY <1>6, <2>2, <2>3 DEF IInv
<1>8. CASE open
  <2> DEFINE N == Len(toServer)
  <2>1. /\ toServer' \in Seq(ToServerMsg) /\ N \in Nat /\ Len(toServer') = N + Len(q)
        /\ DOMAIN toServer = 1 .. N /\ DOMAIN toServer' = 1 .. N + Len(q)
        /\ \A k \in 1 .. N : toServer'[k] = toServer[k]
        /\ \A k \in N + 1 .. N + Len(q) : toServer'[k] = q[k - N]
    <3>1. toServer' = toServer \o q
      BY <1>2, <1>8 DEF Send
    <3> QED
      BY <1>1, <1>3, <3>1, ConcatAt
  <2> HIDE DEF N
  <2>2. \A k \in DOMAIN toServer : k \in DOMAIN toServer' /\ toServer'[k] = toServer[k]
    BY <1>3, <2>1
  <2>3. \A k \in DOMAIN q : k + N \in DOMAIN toServer' /\ toServer'[k + N] = q[k] /\ \A j \in DOMAIN toServer : j < k + N
    <3> TAKE k \in DOMAIN q
    <3>1. k + N \in N + 1 .. N + Len(q) /\ (k + N) - N = k
      BY <1>3, <2>1
    <3> QED
      BY <1>3, <2>1, <3>1
  <2>4. \A k \in DOMAIN toServer' : \/ k \in DOMAIN toServer
                                    \/ k - N \in DOMAIN q /\ toServer'[k] = q[k - N] /\ k \in Nat
    <3> TAKE k \in DOMAIN toServer'
    <3>1. CASE k \in N + 1 .. N + Len(q)
      <4>1. k - N \in 1 .. Len(q) /\ k \in Nat
        BY <1>3, <2>1, <3>1
      <4> QED
        BY <1>3, <2>1, <3>1, <4>1
    <3>2. CASE k \notin N + 1 .. N + Len(q)
      <4>1. k \in 1 .. N + Len(q) /\ N \in Nat /\ Len(q) \in Nat
        BY <1>3, <2>1
      <4>2. k \in 1 .. N
        BY <3>2, <4>1
      <4>3. k \in DOMAIN toServer
        BY <2>1, <4>2
      <4> QED
        BY <4>3
    <3> QED
      BY <3>1, <3>2
  <2>5. ASSUME NEW k \in DOMAIN toServer
        PROVE  /\ toServer[k].type = "subscribe" => toServer[k].id \in Stream \ news
               /\ toServer[k].type = "unsubscribe" => toServer[k].id \in Stream \ olds
               /\ toServer[k].type \in {"subscribe", "unsubscribe", "disconnect"}
    BY <1>0, <1>1, <1>2, RequestAt DEF IInv, Requests, Kinds
  <2>6. ASSUME NEW j \in DOMAIN toServer', NEW k \in DOMAIN toServer',
               toServer'[j].type # "disconnect", toServer'[j].type = toServer'[k].type, toServer'[j].id = toServer'[k].id
        PROVE  j = k
    <3>1. CASE j \in DOMAIN toServer /\ k \in DOMAIN toServer
      BY <1>2, <2>2, <2>6, <3>1 DEF IInv, Requests
    <3>2. CASE j \in DOMAIN toServer /\ k \notin DOMAIN toServer
      BY <1>3, <2>2, <2>4, <2>5, <2>6, <3>2
    <3>3. CASE j \notin DOMAIN toServer /\ k \in DOMAIN toServer
      BY <1>3, <2>2, <2>4, <2>5, <2>6, <3>3
    <3>4. CASE j \notin DOMAIN toServer /\ k \notin DOMAIN toServer
      <4>1. j - N = k - N /\ j \in Nat /\ k \in Nat
        BY <1>3, <2>4, <2>6, <3>4
      <4> QED
        BY <2>1, <4>1
    <3> QED
      BY <3>1, <3>2, <3>3, <3>4
  <2>7. ASSUME NEW k \in DOMAIN toServer'
        PROVE  /\ toServer'[k].type = "subscribe" => client'[toServer'[k].id] # "none" /\ subs[toServer'[k].id] = "none"
               /\ toServer'[k].type = "unsubscribe" => client'[toServer'[k].id] \notin {"none", "active"}
               /\ toServer'[k].type = "disconnect" => toServer'[k].id = 1
               /\ toServer'[k].type # "complete"
    <3>1. CASE k \in DOMAIN toServer
      <4>1. toServer[k].id \in Stream
        BY <1>1, <3>1, RequestAt
      <4>2. /\ toServer[k].type = "subscribe" => client[toServer[k].id] # "none" /\ subs[toServer[k].id] = "none"
            /\ toServer[k].type = "unsubscribe" => client[toServer[k].id] \notin {"none", "active"}
            /\ toServer[k].type = "disconnect" => toServer[k].id = 1
        BY <1>2, <3>1 DEF IInv, Requests
      <4>3. PICK i \in Stream : i = toServer[k].id /\ i = toServer'[k].id
        BY <2>2, <3>1, <4>1
      <4>4. /\ client[i] # "none" => client'[i] # "none"
            /\ client[i] \notin {"none", "active"} => client'[i] = client[i]
        BY <1>2, <1>4
      <4> QED
        BY <2>2, <2>5, <3>1, <4>2, <4>3, <4>4
    <3>2. CASE k \notin DOMAIN toServer
      <4>1. k - N \in DOMAIN q /\ toServer'[k] = q[k - N]
        BY <2>4, <3>2
      <4>2. \A j \in news : j \in Stream /\ client'[j] # "none" /\ subs[j] = "none"
        BY <1>2, <1>4 DEF IInv, Kinds
      <4>3. \A j \in olds : client'[j] \notin {"none", "active"}
        BY <1>0, <1>4
      <4> QED
        BY <1>3, <4>1, <4>2, <4>3
    <3> QED
      BY <3>1, <3>2
  <2>8. Requests'
    BY <1>2, <2>6, <2>7 DEF Requests, server
  <2>9. Kinds'
    BY <1>2, <1>5, <2>7 DEF IInv, Kinds, server
  <2>10. ObservableTypeOK' /\ Queues'
    BY <1>2, <1>4, <1>8, <2>1 DEF IInv, ObservableTypeOK, Queues, server
  <2>11. Orderly'
    <3> SUFFICES ASSUME news = {}, ~disconnected, ~again
                 PROVE  Orderly'
      BY <1>2 DEF Orderly
    <3>1. \A j \in Stream : client'[j] # "active"
      BY <1>4
    <3>2. kept \/ method # "returned"
      BY <1>2, <1>8 DEF IInv, Orderly
    <3>3. ASSUME NEW k \in DOMAIN toServer', toServer'[k].type = "unsubscribe"
          PROVE  \/ Subscribed(toServer'[k].id)
                 \/ \E j \in DOMAIN toServer' : j < k /\ toServer'[j].type = "subscribe" /\ toServer'[j].id = toServer'[k].id
      <4>1. CASE k \in DOMAIN toServer
        BY <1>2, <1>8, <2>2, <3>3, <4>1 DEF IInv, Orderly
      <4>2. CASE k \notin DOMAIN toServer
        <5>1. k - N \in DOMAIN q /\ toServer'[k] = q[k - N] /\ (k - N) + N = k
          BY <2>1, <2>4, <4>2
        <5>2. toServer'[k].id \in Stream /\ client[toServer'[k].id] = "active"
          BY <1>0, <1>3, <3>3, <5>1
        <5>3. Subscribed(toServer'[k].id) \/ Has(toServer, {"subscribe"}, toServer'[k].id)
          BY <1>2, <1>8, <5>2 DEF IInv, Orderly
        <5> QED
          BY <2>2, <2>3, <5>1, <5>3 DEF Has
      <4> QED
        BY <4>1, <4>2
    <3>4. \A k \in DOMAIN toServer' : toServer'[k].type = "disconnect" => k = Len(toServer')
      <4> SUFFICES ASSUME NEW k \in DOMAIN toServer', toServer'[k].type = "disconnect"
                   PROVE  k = Len(toServer')
        OBVIOUS
      <4>1. k \notin DOMAIN toServer
        BY <1>2, <2>2 DEF IInv, Requests
      <4>2. k - N \in DOMAIN q /\ toServer'[k] = q[k - N] /\ k \in Nat
        BY <2>4, <4>1
      <4>3. k - N = Len(q)
        BY <1>3, <4>2
      <4> QED
        BY <1>3, <2>1, <4>2, <4>3
    <3>5. \A j \in Stream : client'[j] # "active" /\ (Subscribed(j) \/ Has(toServer', {"subscribe"}, j))
                                => Has(toServer', {"unsubscribe"}, j)
      <4> SUFFICES ASSUME NEW j \in Stream, Subscribed(j) \/ Has(toServer', {"subscribe"}, j)
                   PROVE  Has(toServer', {"unsubscribe"}, j)
        OBVIOUS
      <4>1. CASE client[j] = "active"
        <5>1. PICK k \in DOMAIN q : q[k].type = "unsubscribe" /\ q[k].id = j
          BY <1>0, <1>3, <4>1 DEF Has
        <5> QED
          BY <2>3, <5>1 DEF Has
      <4>2. CASE client[j] # "active"
        <5>1. Has(toServer', {"subscribe"}, j) => Has(toServer, {"subscribe"}, j)
          BY <1>3, <2>2, <2>4 DEF Has
        <5>2. Has(toServer, {"unsubscribe"}, j)
          BY <1>2, <1>8, <4>2, <5>1 DEF IInv, Orderly
        <5> QED
          BY <2>2, <5>2 DEF Has
      <4> QED
        BY <4>1, <4>2
    <3> QED
      BY <1>2, <3>1, <3>2, <3>3, <3>4, <3>5 DEF Orderly, Subscribed, server
  <2> QED
    BY <1>6, <2>8, <2>9, <2>10, <2>11 DEF IInv
<1> QED
  BY <1>7, <1>8 DEF IInv, ObservableTypeOK

\* The action is called.
LEMMA InitInv == ObservableInit => IInv
<1> SUFFICES ASSUME ObservableInit
             PROVE  IInv
  OBVIOUS
<1>1. /\ kind \in {"observable", "subject", "behavior"} /\ method = "running" /\ open = TRUE
      /\ early = [values |-> 0, end |-> "none"]
      /\ subs = [i \in Stream |-> "none"] /\ sent = [i \in Stream |-> 0] /\ kept = FALSE
      /\ known = "nothing" /\ released = FALSE
      /\ client = [i \in Stream |-> "none"] /\ got = [i \in Stream |-> 0]
      /\ toServer = <<>> /\ toClient = <<>> /\ disconnected = FALSE /\ again = FALSE
  BY DEF ObservableInit
<1>2. Streams \in Nat \ {0} /\ MaxNext \in Nat \ {0} /\ 1 \in Stream
  BY ObservableAssumption DEF Stream
<1>3. /\ \A i \in Stream : subs[i] = "none" /\ sent[i] = 0 /\ client[i] = "none" /\ got[i] = 0
      /\ DOMAIN toClient = {} /\ DOMAIN toServer = {} /\ Len(toServer) = 0
  BY <1>1
<1>4. ObservableTypeOK
  <2>1. /\ subs \in [Stream -> {"none", "active", "removed"} \cup Ended]
        /\ client \in [Stream -> {"none", "active", "unsubscribed"} \cup Ended]
        /\ sent \in [Stream -> 0 .. MaxNext] /\ got \in [Stream -> 0 .. MaxNext]
    BY <1>1, <1>2
  <2>2. early \in [values : 0 .. 1, end : Ended \cup {"none"}]
    BY <1>1
  <2>4. {open, kept, released, disconnected, again} \subseteq BOOLEAN
    BY <1>1, Zenon
  <2>5. \A i \in Stream : got[i] <= sent[i]
    BY <1>3
  <2>6. /\ kind \in {"observable", "subject", "behavior"} /\ known \in {"nothing", "observable", "subject", "behavior"}
        /\ method \in {"running", "returned", "late"} /\ (known # "nothing" => method # "running" /\ known = kind)
    BY <1>1
  <2> QED
    BY <2>1, <2>2, <2>4, <2>5, <2>6 DEF ObservableTypeOK
<1>5. Queues
  <2>1. toClient \in Seq(ToClientMsg) /\ toServer \in Seq(ToServerMsg)
    BY <1>1
  <2> QED
    BY <1>1, <1>3, <2>1 DEF Queues
<1>6. Phases /\ Kinds
  BY <1>1, <1>2, <1>3 DEF Phases, Kinds
<1>7. Values
  BY <1>1, <1>3, FlowEmpty DEF Values, Base, Had
<1>8. Ends /\ Errors
  BY <1>1, <1>3 DEF Ends, Had, Errors, NoReason, Ended
<1>9. Requests /\ Orderly /\ Subject /\ NoneAfterClose
  <2>1. Orderly
    BY <1>1, <1>3 DEF Orderly, Subscribed, Has
  <2> QED
    BY <1>1, <1>3, <2>1 DEF Requests, Subject, NoneAfterClose
<1> QED
  BY <1>4, <1>5, <1>6, <1>7, <1>8, <1>9 DEF IInv

\* Each step of the two sides and of the connection.
LEMMA StepInv == IInv /\ [ObservableNext]_observableVars => IInv'
<1> SUFFICES ASSUME IInv, [ObservableNext]_observableVars
             PROVE  IInv'
  OBVIOUS
<1>1. CASE ReturnResult
  BY <1>1, ReturnInv
<1>2. CASE Close
  BY <1>2, CloseInv
<1>3. ASSUME NEW i \in Stream, Produce(i) \/ Subscribe(i) \/ Unsubscribe(i)
      PROVE  IInv'
  BY <1>3, ProduceInv, SubscribeInv, UnsubscribeInv
<1>4. ASSUME NEW i \in Stream, NEW how \in Ended, End(i, how)
      PROVE  IInv'
  BY <1>4, EndInv
<1>5. ASSUME NEW news \in SUBSET Stream, Disconnect(news)
      PROVE  IInv'
  BY <1>5, DisconnectInv
<1>6. CASE Deliver
  <2>1. CASE OnSubscribe
    BY <2>1, OnSubscribeInv
  <2>2. CASE OnUnsubscribe
    BY <2>2, OnUnsubscribeInv
  <2>3. CASE OnDisconnect
    BY <2>3, OnDisconnectInv
  <2>4. CASE OnSubjectUnsubscribe
    BY <2>4, OnSubjectUnsubscribeInv
  <2>5. CASE OnType
    BY <2>5, OnTypeInv
  <2>6. CASE OnNext
    BY <2>6, OnNextInv
  <2>7. CASE OnEnd
    BY <2>7, OnEndActiveInv, OnEndLateInv
  <2>8. CASE OnError
    BY <2>8, OnErrorInv
  <2> QED
    BY <1>6, <2>1, <2>2, <2>3, <2>4, <2>5, <2>6, <2>7, <2>8 DEF Deliver
<1>7. CASE UNCHANGED observableVars
  BY <1>7 DEF observableVars, server, browser, IInv, ObservableTypeOK, Queues, Phases, Kinds, Values, Ends, Had, Errors,
              NoReason, Requests, Orderly, Subject, NoneAfterClose, Base, Subscribed
<1> QED
  BY <1>1, <1>2, <1>3, <1>4, <1>5, <1>6, <1>7 DEF ObservableNext

\* Whatever both sides do at the same time, what they know of the streams and
\* what is on its way fit together.
THEOREM ObservableInvariant == ObservableSpec => []IInv
BY InitInv, StepInv, PTL DEF ObservableSpec

\* The client that hears of an end has had every value of the stream, and the
\* two sides and their queues are well-formed: `onComplete` comes after the
\* last ResponseActionObservableNext.
THEOREM ObservableComplete == ObservableSpec => []Complete
<1>1. IInv => Complete
  BY DEF IInv, Ends, Had, Complete, NothingMissed
<1> QED
  BY <1>1, ObservableInvariant, PTL

\* NoErrors: `No subscription found` and the like are sent to a client that
\* subscribes during or after disconnect(), calls disconnect() again, or has
\* unsubscribed from a subject itself, and to no other.
THEOREM ObservableNoErrors == ObservableSpec => []NoErrors
<1>1. IInv => NoErrors
  BY DEF IInv, Errors, NoReason, NoErrors
<1> QED
  BY <1>1, ObservableInvariant, PTL

\* With no message on its way, the server produces for exactly the observers
\* that listen, and a closed connection has no producer.
THEOREM ObservableNoneLeftOver == ObservableSpec => []NoneLeftOver
<1>1. IInv => NoneLeftOver
  <2> SUFFICES ASSUME IInv, open, toServer = <<>>, toClient = <<>>, ~again, early.end = "none", known # "nothing",
                      NEW i \in Stream
               PROVE  subs[i] = "active" <=> client[i] = "active"
    BY DEF NoneLeftOver, SameStreams, IInv
  <2>1. \A types, j : ~Has(toServer, types, j) /\ ~Has(toClient, types, j)
    BY DEF Has
  <2>2. /\ method # "running" /\ method = "returned" /\ kind \in {"observable", "subject", "behavior"} /\ 1 \in Stream
        /\ subs \in [Stream -> {"none", "active", "removed"} \cup Ended]
        /\ client \in [Stream -> {"none", "active", "unsubscribed"} \cup Ended]
    BY Typed DEF IInv, ObservableTypeOK, Phases
  <2>3. CASE kind = "observable"
    BY <2>1, <2>2, <2>3 DEF IInv, Orderly, Subscribed
  <2>4. CASE kind # "observable"
    <3>1. i # 1 => subs[i] = "none" /\ client[i] = "none"
      BY <2>4 DEF IInv, Kinds
    <3>2. client[1] # "none" /\ ~disconnected
      BY <2>4 DEF IInv, Kinds, Phases
    <3>3. CASE client[1] = "active"
      BY <2>1, <2>2, <2>4, <3>1, <3>3 DEF IInv, Subject
    <3>4. CASE client[1] = "unsubscribed"
      BY <2>1, <2>2, <2>4, <3>1, <3>4 DEF IInv, Subject
    <3>5. CASE client[1] \in Ended
      BY <2>2, <3>1, <3>2, <3>5 DEF IInv, Ends, Had, Ended
    <3> QED
      BY <2>2, <3>2, <3>3, <3>4, <3>5
  <2> QED
    BY <2>2, <2>3, <2>4
<1> QED
  BY <1>1, ObservableInvariant, PTL

\* An observer gets the values of its stream one by one: ResponseActionObservableNext
\* and the first value of a subject leave none out and bring none twice.
THEOREM ObservableInOrder == ObservableSpec => InOrder
<1>1. ASSUME IInv, [ObservableNext]_observableVars
      PROVE  [\A i \in Stream : got'[i] \in {got[i], Had(i) + 1}]_observableVars
  <2>1. CASE OnNext
    BY <1>1, <2>1, OnNextInv
  <2>2. CASE OnType
    BY <1>1, <2>2, OnTypeInv
  <2>3. CASE UNCHANGED got
    BY <2>3
  <2>4. CASE Deliver
    BY <2>1, <2>2, <2>3, <2>4 DEF Deliver, OnSubscribe, OnUnsubscribe, OnDisconnect, OnSubjectUnsubscribe, OnEnd, OnError, browser
  <2>5. CASE ReturnResult \/ Close
    BY <2>3, <2>5 DEF ReturnResult, Close, browser
  <2>6. ASSUME NEW i \in Stream, \/ Produce(i) \/ Subscribe(i) \/ Unsubscribe(i)
                                 \/ \E how \in Ended : End(i, how)
        PROVE  UNCHANGED got
    BY <2>6 DEF Produce, Subscribe, Unsubscribe, End, browser
  <2>7. ASSUME NEW news \in SUBSET Stream, Disconnect(news)
        PROVE  UNCHANGED got
    BY <2>7 DEF Disconnect
  <2>8. CASE UNCHANGED observableVars
    BY <2>3, <2>8 DEF observableVars, browser
  <2> QED
    BY <1>1, <2>3, <2>4, <2>5, <2>6, <2>7, <2>8 DEF ObservableNext
<1> QED
  BY <1>1, ObservableInvariant, PTL DEF ObservableSpec, InOrder

=============================================================================
