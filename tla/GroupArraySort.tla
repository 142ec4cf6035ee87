--------------------------- MODULE GroupArraySort ---------------------------
(***************************************************************************)
(* packages/topsort/src/group-array-sort.ts: GroupArraySort as the ORM     *)
(* uses it (sameTypeExtraGrouping, dependencies that were not added are    *)
(* ignored).  A group is a sequence of items of one type; its level is its *)
(* index, and positions follow from the lengths.                           *)
(***************************************************************************)
EXTENDS Integers, FiniteSets, SequencesExt

CONSTANTS Item, TypeOf,         \* the elements and their types
          Deps                  \* the dependencies of each, a sequence

ASSUME ItemAssumption == IsFiniteSet(Item)
ASSUME DepsAssumption == Deps \in [Item -> Seq(Item)]

\* A loop over seq: g[e] is what its body does for e to what there is so far.
Fold(g, base, seq) == FoldLeft(LAMBDA acc, e : g[e][acc], base, seq)

\* The elements of seq that are in S.
Only(seq, S) ==
    Fold([e \in Item |-> [acc \in Seq(Item) |-> IF e \in S THEN Append(acc, e) ELSE acc]], <<>>, seq)

\* What visit() works on: the groups so far, where each item was added (-1: it
\* was not), the set `parents` (made for one call of sort()'s loop, and shared
\* by all the recursive calls of it), whether it threw, and what the last visit
\* returned.
Visiting == [groups : Seq([type : {TypeOf[i] : i \in Item}, items : Seq(Item)]),
             at : [Item -> Int], parents : SUBSET Item, threw : BOOLEAN, level : Int]

Start == [groups |-> <<>>, at |-> [i \in Item |-> -1], parents |-> {}, threw |-> FALSE, level |-> -1]

\* getFirstGroup(): the last group of the type, not before minLevel; -1: none.
FirstGroup(groups, type, minLevel) ==
    Max({-1} \cup {i \in 0 .. Len(groups) - 1 : i >= minLevel /\ groups[i + 1].type = type})

\* injectElement()
Inject(s, e, minLevel) ==
    LET found == FirstGroup(s.groups, TypeOf[e], minLevel)
        level == IF found = -1 THEN Len(s.groups) ELSE found
        groups == IF found = -1 THEN Append(s.groups, [type |-> TypeOf[e], items |-> <<e>>])
                  ELSE [s.groups EXCEPT ![level + 1].items = Append(@, e)]
    IN  [s EXCEPT !.groups = groups, !.at[e] = level,
                  !.level = IF minLevel = -1 THEN level ELSE minLevel]

\* The dependencies of e that were added.
Needed(e, elements) == Only(Deps[e], elements)

\* visit(): the dependencies first, then e, not before minLevel.  n: every
\* nested call has one more parent, and with all of them any element throws.
Visit(elements) ==
    LET visit[n \in 0 .. Cardinality(Item)] ==
            [e \in Item |-> [s \in Visiting |->
                IF n = 0 \/ s.threw \/ e \in s.parents THEN [s EXCEPT !.threw = TRUE]
                ELSE IF s.at[e] # -1 THEN [s EXCEPT !.level = s.at[e]]
                ELSE LET into == [d \in Item |-> [acc \in [s : Visiting, min : Int] |->
                                    LET r == visit[n - 1][d][acc.s]
                                    IN  [s |-> r, min |-> IF TypeOf[d] = TypeOf[e] THEN Len(r.groups)
                                                          ELSE Max({acc.min, r.level})]]]
                         parents == IF Deps[e] = <<>> THEN s.parents ELSE s.parents \cup {e}
                         end == Fold(into, [s |-> [s EXCEPT !.parents = parents], min |-> -1],
                                     Needed(e, elements))
                     IN  IF end.s.threw THEN end.s ELSE Inject(end.s, e, end.min)]]
    IN  visit[Cardinality(Item)]

\* sort() over the elements in the order they were added.
Sorted(order) ==
    LET visit == Visit(ToSet(order))
        each == [e \in Item |-> [s \in Visiting |->
                    IF s.threw THEN s ELSE visit[e][[s EXCEPT !.parents = {}]]]]
    IN  Fold(each, Start, order)
=============================================================================
