---------------------------- MODULE MCOrmSession ----------------------------
(* Instances of OrmSession for TLC.                                        *)
EXTENDS OrmSession

CONSTANTS a, b

\* b refers to a, of another class.
PairDeps == (a :> <<>>) @@ (b :> <<a>>)
PairType == (a :> "A") @@ (b :> "B")

\* excused never shrinks, and the properties say nothing of what is excused:
\* where everything is, there is nothing left to check.
SomethingLeft == excused # Item

\* c1 refers to u and c2 to o, which refers to u; c1 and c2 are of one class.
Shop == INSTANCE GroupArraySort WITH
    Item <- {"c1", "c2", "o", "u"},
    TypeOf <- [c1 |-> "C", c2 |-> "C", o |-> "O", u |-> "U"],
    Deps <- [c1 |-> <<"u">>, c2 |-> <<"o">>, o |-> <<"u">>, u |-> <<>>]

\* sort() puts c2 into the group of c1, before that of the o it refers to.
ASSUME NotTopological ==
    Shop!Sorted(<<"c1", "c2", "o", "u">>).groups =
        <<[type |-> "U", items |-> <<"u">>], [type |-> "C", items |-> <<"c1", "c2">>],
          [type |-> "O", items |-> <<"o">>]>>

\* e1 refers to e2 and e3, e3 to e2, e2 to e4: no circle.
Dag == INSTANCE GroupArraySort WITH
    Item <- {"e1", "e2", "e3", "e4"},
    TypeOf <- [e1 |-> "A", e2 |-> "B", e3 |-> "C", e4 |-> "D"],
    Deps <- [e1 |-> <<"e2", "e3">>, e2 |-> <<"e4">>, e3 |-> <<"e2">>, e4 |-> <<>>]

\* sort() takes it for one: the set of parents that visit() hands on never shrinks.
ASSUME FalseCircle == Dag!Sorted(<<"e1", "e2", "e3", "e4">>).threw
=============================================================================
