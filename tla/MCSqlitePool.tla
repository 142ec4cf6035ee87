---------------------------- MODULE MCSqlitePool ----------------------------
(* Instances of SqlitePool for TLC.                                        *)
EXTENDS SqlitePool

CONSTANTS t1, t2, x1

\* Two calls of one session in a transaction, the others on their own.
TwoInOneTransaction == [t \in Task |-> IF t \in {t1, t2} THEN x1 ELSE None]
=============================================================================
