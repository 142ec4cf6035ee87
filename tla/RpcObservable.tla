---------------------------- MODULE RpcObservable ----------------------------
(***************************************************************************)
(* The two sides of an action that returns an Observable or a Subject:     *)
(* packages/rpc/src/server/action.ts (RpcServerAction) and client/action.ts*)
(* (RpcActionClient), over one connection that keeps the order of messages *)
(* and may close.                                                          *)
(*                                                                         *)
(* Stream i of an observable is its i-th subscription; a subject, whether  *)
(* it holds a value (BehaviorSubject) or not, has the one stream 1.  The   *)
(* n-th value of a stream is the number n.                                 *)
(***************************************************************************)
EXTENDS Integers, Sequences, SequencesExt

CONSTANTS Streams,      \* bound: subscriptions of the client
          MaxNext,      \* bound: values of a stream
          MaxUnderway   \* bound: messages under way when disconnect() is called again

\* A subject has a stream, and may have a value before it is announced.
ASSUME ObservableAssumption == Streams \in Nat \ {0} /\ MaxNext \in Nat \ {0} /\ MaxUnderway \in Nat

Stream == 1 .. Streams

VARIABLES kind,         \* what the method returns
          method,       \* handleAction(): running, returned, or after the close: late
          open,         \* the connection
          early,        \* what a subject emitted before its type was announced
          subs,         \* server: the subscription of each stream
          sent,         \* server: how many values each has emitted
          kept,         \* server: the entry in observables or observableSubjects
          known,        \* client: what it was told the result is
          released,     \* client: the reply callback is gone
          client,       \* client: the observer of each stream
          got,          \* client: the last value of each
          toServer, toClient,
          disconnected, \* history: observable.disconnect() was called
          again         \* history: a subscribe() during or after it, or another one

server == <<kind, method, early, subs, sent, kept>>
browser == <<known, released, client, got, disconnected, again>>
observableVars == <<server, browser, open, toServer, toClient>>

Ended == {"completed", "failed"}

ObservableTypeOK ==
    /\ kind \in {"observable", "subject", "behavior"}
    /\ known \in {"nothing", "observable", "subject", "behavior"}
    /\ {open, kept, released, disconnected, again} \subseteq BOOLEAN
    /\ early \in [values : 0 .. 1, end : Ended \cup {"none"}]
    /\ subs \in [Stream -> {"none", "active", "removed"} \cup Ended]
    /\ client \in [Stream -> {"none", "active", "unsubscribed"} \cup Ended]
    /\ {sent, got} \subseteq [Stream -> 0 .. MaxNext]
    /\ method \in {"running", "returned", "late"}
    /\ known # "nothing" => method # "running" /\ known = kind
    /\ \A i \in Stream : got[i] <= sent[i]

ObservableInit ==
    /\ kind \in {"observable", "subject", "behavior"} /\ method = "running"
    /\ open = TRUE /\ early = [values |-> 0, end |-> "none"]
    /\ subs = [i \in Stream |-> "none"] /\ sent = [i \in Stream |-> 0] /\ kept = FALSE
    /\ known = "nothing" /\ released = FALSE
    /\ client = [i \in Stream |-> "none"] /\ got = [i \in Stream |-> 0]
    /\ toServer = <<>> /\ toClient = <<>>
    /\ disconnected = FALSE /\ again = FALSE

Msg(type, i, v) == [type |-> type, id |-> i, v |-> v]

\* Mutant: an answer overtakes those before it.
Reply_First(msgs) == toClient' = IF open THEN msgs \o toClient ELSE toClient

\* A connection that is closed takes nothing.
Reply(msgs) == toClient' = IF open THEN toClient \o msgs ELSE toClient
Send(msgs) == toServer' = IF open THEN toServer \o msgs ELSE toServer

-----------------------------------------------------------------------------
(* The server                                                              *)

\* handleAction(): an observable is only announced; a subject is subscribed
\* first, and may be at its end already.  A BehaviorSubject that is not emits
\* its value then; of the others a ReplaySubject may.
ReturnResult ==
    /\ method = "running" /\ method' = IF open THEN "returned" ELSE "late"
    /\ kept' = TRUE
    /\ IF kind = "observable"
       THEN /\ Reply(<<Msg("type", 1, 0)>>)
            /\ UNCHANGED <<early, subs, sent>>
       ELSE \E n \in 0 .. 1, end \in Ended \cup {"none"} :
                /\ kind = "behavior" => (n = 1 <=> end = "none")
                /\ early' = [values |-> n, end |-> end]
                /\ sent' = [sent EXCEPT ![1] = n]
                /\ subs' = [subs EXCEPT ![1] = IF end = "none" THEN "active" ELSE end]
                /\ Reply([k \in 1 .. n |-> Msg("next", 1, k)]
                         \o (IF end = "none" THEN <<>> ELSE <<Msg(end, 1, 0)>>)
                         \o <<Msg("type", 1, 0)>>)
    /\ UNCHANGED <<kind, browser, open, toServer>>

Produce(i) ==
    /\ subs[i] = "active" /\ sent[i] < MaxNext
    /\ sent' = [sent EXCEPT ![i] = @ + 1]
    /\ Reply(<<Msg("next", i, sent[i] + 1)>>)
    /\ UNCHANGED <<kind, method, early, subs, kept, browser, open, toServer>>

End(i, how) ==
    /\ subs[i] = "active"
    /\ subs' = [subs EXCEPT ![i] = how]
    /\ Reply(<<Msg(how, i, 0)>>)
    /\ UNCHANGED <<kind, method, early, sent, kept, browser, open, toServer>>

Received == toServer # <<>> /\ toServer' = Tail(toServer)

ServerError == Reply(<<Msg("error", 0, 0)>>)

\* ActionObservableSubscribe
OnSubscribe ==
    LET i == Head(toServer).id IN
    /\ Received /\ Head(toServer).type = "subscribe"
    /\ IF kept /\ subs[i] = "none"
       THEN subs' = [subs EXCEPT ![i] = "active"] /\ UNCHANGED toClient
       ELSE ServerError /\ UNCHANGED subs
    /\ UNCHANGED <<kind, method, early, sent, kept, browser, open>>

\* Mutant: the entry of a subscription that has ended is gone already.
Subscribed_Active(i) == subs[i] = "active"

Subscribed(i) == subs[i] \notin {"none", "removed"}

\* Mutant: the subscription is forgotten, and goes on.
Unsubscribed_Not(i) == subs

Unsubscribed(i) == [subs EXCEPT ![i] = "removed"]

\* ActionObservableUnsubscribe
OnUnsubscribe ==
    LET i == Head(toServer).id IN
    /\ Received /\ Head(toServer).type = "unsubscribe"
    /\ IF kept /\ Subscribed(i)
       THEN subs' = Unsubscribed(i) /\ UNCHANGED toClient
       ELSE ServerError /\ UNCHANGED subs
    /\ UNCHANGED <<kind, method, early, sent, kept, browser, open>>

\* ActionObservableDisconnect: who is still subscribed is told that it is over.
OnDisconnect ==
    LET left == SetToSeq({i \in Stream : Subscribed(i)}) IN
    /\ Received /\ Head(toServer).type = "disconnect"
    /\ IF kept
       THEN /\ subs' = [i \in Stream |-> IF Subscribed(i) THEN "removed" ELSE subs[i]]
            /\ Reply([k \in DOMAIN left |-> Msg("completed", left[k], 0)])
            /\ kept' = FALSE
       ELSE ServerError /\ UNCHANGED <<subs, kept>>
    /\ UNCHANGED <<kind, method, early, sent, browser, open>>

\* ActionObservableSubjectUnsubscribe: the client has completed the subject.
OnSubjectUnsubscribe ==
    /\ Received /\ Head(toServer).type = "complete"
    /\ IF kept
       THEN /\ subs' = [subs EXCEPT ![1] = IF @ = "active" THEN "completed" ELSE @]
            /\ kept' = FALSE /\ UNCHANGED toClient
       ELSE ServerError /\ UNCHANGED <<subs, kept>>
    /\ UNCHANGED <<kind, method, early, sent, browser, open>>

\* Mutant: what was subscribed stays so.
Closed_Not == subs

\* onClose(): nothing is produced for this client any more.
Closed == [i \in Stream |-> IF subs[i] # "active" THEN subs[i]
                            ELSE IF kind = "observable" THEN "removed" ELSE "completed"]

\* The connection ends, and what is on its way with it.
Close ==
    /\ open /\ open' = FALSE
    /\ subs' = Closed
    /\ toServer' = <<>> /\ toClient' = <<>>
    /\ UNCHANGED <<kind, method, early, sent, kept, browser>>

-----------------------------------------------------------------------------
(* The client                                                              *)

Receiving(types) == toClient # <<>> /\ ~released /\ Head(toClient).type \in types

\* Mutant: the value that came before the type is lost.
FirstValue_Lost == 0

\* firstObservableNext
FirstValue == early.values

\* ResponseActionObservable: the promise of the caller resolves.  A
\* BehaviorSubject holds the value that came before it; a Subject is given it
\* while nobody can listen yet.
OnType ==
    /\ Receiving({"type"})
    /\ known' = kind
    /\ client' = IF kind = "observable" THEN client ELSE [client EXCEPT ![1] = "active"]
    /\ got' = IF kind = "behavior" THEN [got EXCEPT ![1] = FirstValue] ELSE got
    /\ toClient' = Tail(toClient)
    /\ UNCHANGED <<server, released, disconnected, again, open, toServer>>

\* ResponseActionObservableNext: for who is still there; `firstObservableNext`
\* when the type is not known yet.
OnNext ==
    LET m == Head(toClient) IN
    /\ Receiving({"next"})
    /\ got' = IF client[m.id] = "active" THEN [got EXCEPT ![m.id] = m.v] ELSE got
    /\ toClient' = Tail(toClient)
    /\ UNCHANGED <<server, known, released, client, disconnected, again, open, toServer>>

\* Mutant: the teardown runs twice.
GivesBack_Twice(i, how) == <<Msg("unsubscribe", i, 0), Msg("unsubscribe", i, 0)>>

\* The teardown of an observer runs however it ended; a subject that is
\* completed says so, and one that failed does not.
GivesBack(i, how) ==
    IF known = "observable" THEN <<Msg("unsubscribe", i, 0)>>
    ELSE IF how = "completed" THEN <<Msg("complete", i, 0)>> ELSE <<>>

\* Mutant: the end of a stream is taken as one more value.
Finished_Not(i, how) == client

Finished(i, how) == [client EXCEPT ![i] = how]

\* ResponseActionObservableComplete and Error.  Before the type is known they
\* are dropped; a subject that has been completed here sends again, one that
\* has been unsubscribed throws.
OnEnd ==
    LET m == Head(toClient)
        i == m.id
    IN  /\ Receiving(Ended)
        /\ \/ /\ client[i] = "active"
              /\ client' = Finished(i, m.type)
              /\ Send(GivesBack(i, m.type))
           \/ /\ client[i] # "active"
              /\ \/ Send(<<>>)
                 \/ known \in {"subject", "behavior"} /\ m.type = "completed" /\ Send(GivesBack(i, m.type))
              /\ UNCHANGED client
        /\ toClient' = Tail(toClient)
        /\ UNCHANGED <<server, known, released, got, disconnected, again, open>>

\* Error releases the reply callback; whatever comes then is `No callback for`.
OnError ==
    /\ toClient # <<>> /\ (released \/ Head(toClient).type = "error")
    /\ released' = TRUE
    /\ toClient' = Tail(toClient)
    /\ UNCHANGED <<server, known, client, got, disconnected, again, open, toServer>>

Unused(i) == client[i] = "none" /\ \A j \in Stream : j < i => client[j] # "none"

Subscribe(i) ==
    /\ known = "observable" /\ Unused(i)
    /\ client' = [client EXCEPT ![i] = "active"]
    /\ again' = (again \/ disconnected)
    /\ Send(<<Msg("subscribe", i, 0)>>)
    /\ UNCHANGED <<server, known, released, got, disconnected, open, toClient>>

\* unsubscribe() of an observer, or complete() and unsubscribe() of the subject.
Unsubscribe(i) ==
    /\ client[i] = "active"
    /\ client' = [client EXCEPT ![i] = "unsubscribed"]
    /\ Send(GivesBack(i, "completed"))
    /\ UNCHANGED <<server, known, released, got, disconnected, again, open, toClient>>

\* observable.disconnect(): completes the observers, and one of them (repeat())
\* may subscribe again while it is told so.  It may be called any number of times.
Disconnect(news) ==
    LET old == SetToSeq({i \in Stream : client[i] = "active"}) IN
    /\ known = "observable"
    /\ disconnected => Len(toServer) + Len(toClient) < MaxUnderway
    /\ news \in SUBSET {i \in Stream : Unused(i)}
    /\ news # {} => old # <<>>
    /\ client' = [i \in Stream |-> IF i \in ToSet(old) THEN "completed"
                                   ELSE IF i \in news THEN "active" ELSE client[i]]
    /\ Send([k \in 1 .. Len(SetToSeq(news)) |-> Msg("subscribe", SetToSeq(news)[k], 0)]
            \o [k \in DOMAIN old |-> Msg("unsubscribe", old[k], 0)]
            \o <<Msg("disconnect", 1, 0)>>)
    /\ disconnected' = TRUE /\ again' = (again \/ disconnected \/ news # {})
    /\ UNCHANGED <<server, known, released, got, open, toClient>>

-----------------------------------------------------------------------------
Deliver == \/ OnSubscribe \/ OnUnsubscribe \/ OnDisconnect \/ OnSubjectUnsubscribe
           \/ OnType \/ OnNext \/ OnEnd \/ OnError

ObservableNext == \/ ReturnResult \/ Deliver \/ Close
        \/ \E i \in Stream : \/ Produce(i) \/ Subscribe(i) \/ Unsubscribe(i)
                             \/ \E how \in Ended : End(i, how)
        \/ \E news \in SUBSET Stream : Disconnect(news)

\* Messages arrive.
ObservableSpec == ObservableInit /\ [][ObservableNext]_observableVars /\ WF_observableVars(Deliver)

-----------------------------------------------------------------------------
(* Properties                                                              *)

\* The last value a stream has behind it: what a Subject emitted before it was
\* announced is for nobody.
Had(i) == IF i = 1 /\ kind = "subject" /\ got[1] = 0 THEN early.values ELSE got[i]

\* An observer gets every value of its stream, in order, from the first to
\* its last, whatever else is subscribed and ends at the same time.
InOrder == [][\A i \in Stream : got'[i] \in {got[i], Had(i) + 1}]_observableVars

\* A client that completes has had all there was.
NothingMissed == \A i \in Stream : client[i] \in Ended /\ ~disconnected => Had(i) = sent[i]

\* Both sides are well-formed, and an end comes after everything else.
Complete == ObservableTypeOK /\ NothingMissed

\* The server answers `No subscription found`, `No observable found` and the
\* like only to a client that subscribes during or after disconnect(), calls
\* disconnect() again, or has completed its subject itself.
NoErrors == released => again \/ (kind # "observable" /\ client[1] = "unsubscribed")

\* When all is said, the server produces for exactly those who listen.
SameStreams ==
    open /\ toServer = <<>> /\ toClient = <<>> /\ ~again /\ early.end = "none" /\ known # "nothing" =>
        \A i \in Stream : subs[i] = "active" <=> client[i] = "active"

\* A closed connection has no producer, but for an action that was running.
NoneAfterClose ==
    ~open /\ method = "returned" => \A i \in Stream : subs[i] # "active"

\* Nobody is forgotten on either side, and nothing goes on for nobody.
NoneLeftOver == SameStreams /\ NoneAfterClose

\* The end of a stream on the server reaches the observer, unless it came
\* before the client knew of the subject.
EndArrives ==
    \A i \in Stream : subs[i] \in Ended
        ~> client[i] # "active" \/ ~open \/ again \/ early.end # "none"

\* An observer hears of its stream, value by value, and of its end.
Observed == InOrder /\ EndArrives
=============================================================================
