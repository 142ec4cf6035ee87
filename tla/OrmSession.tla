----------------------------- MODULE OrmSession -----------------------------
(***************************************************************************)
(* packages/orm/src/database-session.ts: DatabaseSession and its rounds,   *)
(* with the instance states of identity-map.ts and the groups that         *)
(* GroupArraySort makes of a round.                                        *)
(*                                                                         *)
(* One session, with or without an identity map; its flush(), commit(),    *)
(* rollback() and useTransaction() calls follow one another, while add(),  *)
(* remove(), reset() and changes of the entities come at any await of a    *)
(* flush (from listeners of the unit of work, or from code that runs       *)
(* concurrently).  The database executes a statement for all the entities  *)
(* of a group, for some of them before it fails, or refuses it; the        *)
(* listeners before a statement may stop it, those after it may throw.     *)
(***************************************************************************)
EXTENDS GroupArraySort

CONSTANTS Absent,       \* no row
          WithIdentityMap,  \* DatabaseSession.withIdentityMap
          MaxValue,     \* bound: how often an entity changes
          MaxRounds     \* bound: rounds of one flush

ASSUME BoundsAssumption == MaxValue \in Nat /\ MaxRounds \in Nat \ {0}
ASSUME AbsentAssumption == Absent \notin Nat
ASSUME MapAssumption == WithIdentityMap \in BOOLEAN

VARIABLES mem,          \* the values of the entities, in memory
          snapshot,     \* InstanceState.snapshot; Absent: not knownInDatabase
          rows, before,   \* the rows; and what they were when the transaction began
          rounds,       \* the rounds of the session
          stage, at,    \* of flush(): where it is, the index i of its loop
          lost,         \* ... reset() has taken its persistence away
          adding,       \* of the round in commit: its addQueue, until it is sorted
          usable,       \* ... and whether it was given a persistence
          todo,         \* ... what is left of it: removals or groups
          inserts, changes,     \* of the current group
          wanted,       \* history: what the last add() or remove() asked for
          excused       \* history: entities the code loses track of, see below

commitVars == <<adding, usable, todo, inserts, changes>>
flushVars == <<rounds, stage, at, lost, commitVars>>
databaseVars == <<mem, snapshot, rows, before>>
sessionVars == <<databaseVars, flushVars, wanted, excused>>

Value == 0 .. MaxValue
Row == Value \cup {Absent}
\* state: neither inCommit nor committed, inCommit, committed.
Round == [add : Seq(Item), remove : SUBSET Item, state : {"open", "inCommit", "committed"}]
Between == {"idle", "loop"}     \* no round is in commit

SessionTypeOK ==
    /\ mem \in [Item -> Value] /\ rows \in [Item -> Row]
    /\ snapshot \in [Item -> Row]
    /\ before \in [Item -> Row] \cup {Absent}
    /\ rounds \in Seq(Round) /\ Len(rounds) <= MaxRounds
    /\ stage \in Between \cup {"deleting", "grouping", "inserting", "updating", "storing"}
    /\ at \in 1 .. MaxRounds + 1
    /\ lost \in BOOLEAN /\ usable \in BOOLEAN /\ adding \in Seq(Item)
    /\ inserts \subseteq Item /\ \A i \in DOMAIN changes : i \in Item /\ changes[i] \in Value
    /\ wanted \in [Item -> {"nothing", "stored", "gone"}]
    /\ excused \subseteq Item
    /\ \A r \in DOMAIN rounds : rounds[r].state = "inCommit" => r = at /\ stage \notin Between

SessionInit ==
    /\ mem = [i \in Item |-> 0]
    /\ snapshot = [i \in Item |-> Absent]
    /\ rows = [i \in Item |-> Absent] /\ before = Absent
    /\ rounds = <<>> /\ stage = "idle" /\ at = 1 /\ lost = FALSE
    /\ adding = <<>> /\ usable = TRUE /\ todo = <<>> /\ inserts = {} /\ changes = << >>
    /\ wanted = [i \in Item |-> "nothing"] /\ excused = {}

-----------------------------------------------------------------------------
(* The queues of a round                                                   *)

\* InstanceState.isKnownInDatabase()
Known(i) == snapshot[i] # Absent

NewRound == [add |-> <<>>, remove |-> {}, state |-> "open"]

\* DatabaseSessionRound.add() of one item: not again, not while it is to be
\* removed; then what it refers to.  n: every nested call has one more item in
\* the queue, and with all of them there is nothing to do.
EnqueueTo[n \in 0 .. Cardinality(Item)] ==
    [i \in Item |-> [r \in Round |->
        IF n = 0 \/ i \in r.remove \/ i \in ToSet(r.add) THEN r
        ELSE Fold(EnqueueTo[n - 1], [r EXCEPT !.add = Append(@, i)], Deps[i])]]

Enqueue == EnqueueTo[Cardinality(Item)]

Dequeue(r, i) == [r EXCEPT !.remove = @ \cup {i}, !.add = Only(@, Item \ {i})]

\* getCurrentRound(), and a new round when the last one is in commit.
Current == IF rounds = <<>> \/ Last(rounds).state = "inCommit" THEN Append(rounds, NewRound) ELSE rounds

\* Whatever is queued now is never looked at: the last round was committed, or
\* was empty when flush() passed it, and is dropped at its end.
TooLate == \/ Last(Current).state = "committed"
           \/ stage = "loop" /\ at > Len(Current) /\ ~lost

Queue(r) ==
    /\ Len(Current) <= MaxRounds
    /\ rounds' = [Current EXCEPT ![Len(Current)] = r]
    /\ UNCHANGED <<databaseVars, stage, at, lost, commitVars>>

AddItem(i) ==
    LET old == Last(Current)
        new == Enqueue[i][old]
        added == ToSet(new.add) \ ToSet(old.add)
    IN  /\ Queue(new)
        /\ wanted' = [j \in Item |-> IF j \in added THEN "stored" ELSE wanted[j]]
        /\ excused' = IF TooLate THEN excused \cup added ELSE excused

RemoveItem(i) ==
    /\ Queue(Dequeue(Last(Current), i))
    /\ wanted' = [wanted EXCEPT ![i] = "gone"]
    /\ excused' = IF TooLate THEN excused \cup {i} ELSE excused

-----------------------------------------------------------------------------
(* flush()                                                                 *)

Group == IF todo = <<>> \/ stage = "deleting" THEN {} ELSE ToSet(Head(todo).items)

\* A persistence is made where there is none.  Everything in the identity map
\* joins the current round, with what it refers to; a listener of onCommitPre
\* may stop here, and the round stays for the next flush().
FlushStart ==
    LET all == IF WithIdentityMap THEN SetToSeq({i \in Item : Known(i)}) ELSE <<>>
        last == Fold(Enqueue, Last(Current), all)
        added == ToSet(last.add) \ ToSet(Last(Current).add)
    IN  /\ stage = "idle"
        /\ wanted' = [i \in Item |-> IF i \in added THEN "stored" ELSE wanted[i]]
        /\ excused' = IF TooLate THEN excused \cup added ELSE excused
        /\ rounds' = [Current EXCEPT ![Len(Current)] = last]
        /\ at' = 1
        /\ stage' \in Between
        /\ UNCHANGED <<databaseVars, lost, commitVars>>

\* Mutant: the loop runs over the rounds there were when it started.
MoreRounds_First == at = 1 /\ rounds # <<>>

\* `we need to iterate via for i, because hooks might add additional rounds`
MoreRounds == at <= Len(rounds)

Classes(s) == {{i \in s : TypeOf[i] = TypeOf[j]} : j \in s}

\* A committed round is passed.  round.commit() of another: nothing to do, or
\* inCommit, with the persistence there is.
RoundBegins ==
    /\ stage = "loop" /\ MoreRounds
    /\ LET r == rounds[at] IN
       IF r.state = "committed" \/ (r.remove = {} /\ r.add = <<>>)
       THEN at' = at + 1 /\ UNCHANGED <<rounds, stage, adding, usable, todo>>
       ELSE /\ rounds' = [rounds EXCEPT ![at].state = "inCommit"]
            /\ stage' = "deleting" /\ adding' = r.add /\ usable' = ~lost
            /\ todo' \in SetToSeqs(Classes(r.remove))
            /\ UNCHANGED at
    /\ UNCHANGED <<databaseVars, lost, inserts, changes, wanted, excused>>

\* Mutant: after a failure the session keeps its rounds.
Dropped_Kept == rounds

Dropped == <<>>

\* An error ends flush(), and everything that was queued is dropped.  With no
\* persistence, the release() of it fails too, to the same effect.
Abort ==
    /\ rounds' = Dropped /\ stage' = "idle" /\ at' = 1 /\ lost' = FALSE
    /\ adding' = <<>> /\ usable' = TRUE /\ todo' = <<>> /\ inserts' = {} /\ changes' = << >>
    /\ wanted' = [i \in Item |-> "nothing"]

\* f, with the value new[i] for the i in s.
Put(f, s, new) == [i \in Item |-> IF i \in s THEN new[i] ELSE f[i]]
Nowhere == [i \in Item |-> Absent]

\* doDelete(), one class: a listener stops it (and all that follow); the rows
\* are removed and, in an identity map, marked, and a listener afterwards may
\* throw; or persistence.remove() fails, when some rows may be gone.
Delete ==
    /\ stage = "deleting" /\ todo # <<>>
    /\ \/ /\ todo' = <<>>
          /\ excused' = excused \cup UNION ToSet(todo)
          /\ UNCHANGED <<rows, snapshot, rounds, stage, at, lost, adding, usable, inserts, changes, wanted>>
       \/ /\ usable
          /\ rows' = Put(rows, Head(todo), Nowhere)
          /\ IF WithIdentityMap
             THEN snapshot' = Put(snapshot, Head(todo), Nowhere) /\ UNCHANGED excused
             ELSE excused' = excused \cup Head(todo) /\ UNCHANGED snapshot
          /\ \/ todo' = Tail(todo) /\ UNCHANGED <<rounds, stage, at, lost, adding, usable, inserts, changes, wanted>>
             \/ Abort
       \/ /\ \E w \in SUBSET (IF usable THEN Head(todo) ELSE {}) :
                rows' = Put(rows, w, Nowhere) /\ excused' = excused \cup w
          /\ Abort /\ UNCHANGED snapshot
    /\ UNCHANGED <<mem, before>>

\* doPersist(): sort() gives the groups, or throws.
Sort ==
    /\ stage = "deleting" /\ todo = <<>>
    /\ LET s == Sorted(adding) IN
       IF s.threw THEN Abort
       ELSE /\ todo' = s.groups /\ stage' = "grouping" /\ adding' = <<>>
            /\ UNCHANGED <<rounds, at, lost, usable, inserts, changes, wanted>>
    /\ UNCHANGED <<databaseVars, excused>>

\* The next group: validate, compare with the snapshots.
Compare ==
    /\ stage = "grouping" /\ todo # <<>>
    /\ \/ /\ inserts' = {i \in Group : ~Known(i)}
          /\ changes' = [i \in {j \in Group : Known(j) /\ mem[j] # snapshot[j]} |-> mem[i]]
          /\ stage' = "inserting"
          /\ UNCHANGED <<rounds, at, lost, adding, usable, todo, wanted>>
       \/ Abort                                 \* a validation error
    /\ UNCHANGED <<databaseVars, excused>>

Written == /\ stage' = IF stage = "inserting" THEN "updating" ELSE "storing"
           /\ UNCHANGED <<rounds, at, lost, commitVars, wanted>>

\* There is nothing to insert; the rows are written (one that exists makes the
\* database refuse); a listener prevents it; or persistence.insert() fails, or a
\* listener afterwards, when some or all of the rows are written: they are not
\* known to be, and the next flush() would insert them again.
Insert ==
    /\ stage = "inserting"
    /\ \/ inserts = {} /\ Written /\ UNCHANGED <<rows, excused>>
       \/ /\ inserts # {} /\ usable /\ \A i \in inserts : rows[i] = Absent
          /\ rows' = Put(rows, inserts, mem)
          /\ Written /\ UNCHANGED excused
       \/ /\ inserts # {}
          /\ excused' = excused \cup inserts
          /\ Written /\ UNCHANGED rows
       \/ /\ inserts # {}
          /\ \E w \in SUBSET (IF usable THEN {i \in inserts : rows[i] = Absent} ELSE {}) :
                rows' = Put(rows, w, mem) /\ excused' = excused \cup w
          /\ Abort
    /\ UNCHANGED <<mem, snapshot, before>>

Existing(s) == {i \in s : rows[i] # Absent}

\* Likewise.  When it fails, the inserts of the group are in the database and
\* not known to be.
Update ==
    /\ stage = "updating"
    /\ \/ DOMAIN changes = {} /\ Written /\ UNCHANGED <<rows, excused>>
       \/ /\ DOMAIN changes # {} /\ usable
          /\ rows' = Put(rows, Existing(DOMAIN changes), changes)
          /\ Written /\ UNCHANGED excused
       \/ /\ DOMAIN changes # {}
          /\ excused' = excused \cup DOMAIN changes
          /\ Written /\ UNCHANGED rows
       \/ /\ DOMAIN changes # {}
          /\ \E w \in SUBSET (IF usable THEN Existing(DOMAIN changes) ELSE {}) :
                rows' = Put(rows, w, changes) /\ excused' = excused \cup inserts \cup w
          /\ Abort
    /\ UNCHANGED <<mem, snapshot, before>>

\* Mutants: only what was inserted is marked, or only what was updated.
Marked_Inserts == inserts
Marked_Updates == DOMAIN changes

Marked == Group

\* identityMap.storeMany(), or markAsPersisted() of each: the snapshot is what
\* the entity is now.
Store ==
    /\ stage = "storing"
    /\ snapshot' = Put(snapshot, Marked, mem)
    /\ todo' = Tail(todo) /\ stage' = "grouping"
    /\ inserts' = {} /\ changes' = << >>
    /\ UNCHANGED <<mem, rows, before, rounds, at, lost, adding, usable, wanted, excused>>

\* committed = true, inCommit = false, of a round that reset() has taken off the
\* list too; flush() goes on in a later microtask.
RoundEnds ==
    /\ stage = "grouping" /\ todo = <<>>
    /\ rounds' = [r \in DOMAIN rounds |->
                    IF rounds[r].state = "inCommit" THEN [rounds[r] EXCEPT !.state = "committed"] ELSE rounds[r]]
    /\ at' = at + 1 /\ stage' = "loop" /\ usable' = TRUE
    /\ UNCHANGED <<databaseVars, lost, adding, todo, inserts, changes, wanted, excused>>

\* Without a persistence to release, flush() fails and the rounds stay.
FlushEnd ==
    /\ stage = "loop" /\ ~MoreRounds
    /\ rounds' = IF lost THEN rounds ELSE <<>>
    /\ stage' = "idle" /\ at' = 1 /\ lost' = FALSE
    /\ UNCHANGED <<databaseVars, commitVars, wanted, excused>>

-----------------------------------------------------------------------------
(* Transactions, and the entities themselves                               *)

UseTransaction == /\ stage = "idle" /\ before = Absent
                  /\ before' = rows
                  /\ UNCHANGED <<mem, snapshot, rows, flushVars, wanted, excused>>

\* commit() after its flush(); a session without a transaction has nothing to do.
Commit == /\ stage = "idle" /\ before # Absent
          /\ before' = Absent
          /\ UNCHANGED <<mem, snapshot, rows, flushVars, wanted, excused>>

\* `This does not rollback changes made to objects in memory`, nor what is
\* known of them.
Rollback == /\ stage = "idle" /\ before # Absent
            /\ rows' = before /\ before' = Absent
            /\ excused' = excused \cup {i \in Item : before[i] # rows[i]}
            /\ UNCHANGED <<mem, snapshot, flushVars, wanted>>

\* At any time.  A round in commit runs on, and what it was asked for is no
\* longer wanted, nor prevented.
Reset == /\ rounds # <<>> \/ stage # "idle"
         /\ rounds' = <<>>
         /\ lost' = (stage # "idle")
         /\ wanted' = [i \in Item |-> "nothing"]
         /\ UNCHANGED <<databaseVars, stage, at, commitVars, excused>>

\* A change after the group was compared or written, and before its snapshot
\* is taken, is in the snapshot and not in the database.
Modify(i) ==
    /\ mem[i] < MaxValue
    /\ mem' = [mem EXCEPT ![i] = @ + 1]
    /\ excused' = IF /\ i \in Group /\ stage \in {"inserting", "updating", "storing"}
                     /\ ~(stage = "inserting" /\ i \in inserts)
                  THEN excused \cup {i} ELSE excused
    /\ UNCHANGED <<snapshot, rows, before, flushVars, wanted>>

-----------------------------------------------------------------------------
Flush == RoundBegins \/ Delete \/ Sort \/ Compare \/ Insert \/ Update \/ Store \/ RoundEnds \/ FlushEnd

SessionNext ==
    \/ FlushStart \/ Flush
    \/ \E i \in Item : AddItem(i) \/ RemoveItem(i) \/ Modify(i)
    \/ UseTransaction \/ Commit \/ Rollback \/ Reset

SessionSpec == SessionInit /\ [][SessionNext]_sessionVars

-----------------------------------------------------------------------------
(* Properties                                                              *)

\* InstanceState.snapshot `represents the last known values known to be in
\* the database`, and an entity that is not known there is not there.
SnapshotIsStored ==
    \A i \in Item \ excused :
        i \notin inserts \cup DOMAIN changes => snapshot[i] = rows[i]

\* An entity is inserted when its row does not exist, whatever was added,
\* removed and added again while flush() was running.
NoDuplicateInsert == stage = "inserting" => \A i \in inserts \ excused : rows[i] = Absent

\* What the session knows of the database is right.
Consistent == SessionTypeOK /\ SnapshotIsStored /\ NoDuplicateInsert

\* When a flush() has succeeded, what was queued before and during it is done.
NothingForgotten ==
    stage = "idle" /\ rounds = <<>> =>
        \A i \in Item \ excused : /\ wanted[i] = "stored" => rows[i] # Absent
                                  /\ wanted[i] = "gone" => rows[i] = Absent
=============================================================================
