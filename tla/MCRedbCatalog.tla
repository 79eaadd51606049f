---------------------------- MODULE MCRedbCatalog ----------------------------
(* Small instances of RedbCatalog for TLC.                                  *)
EXTENDS RedbCatalog, TLC

CONSTANTS c1, c2, c3, n1, n2, a, b

Flat == [n \in {n1} |-> None]
Nested == [n \in {n1, n2} |-> IF n = n2 THEN n1 ELSE None]
AllInOne == [t \in {a, b} |-> n1]
OneEach == [t \in {a, b} |-> IF t = a THEN n1 ELSE n2]

Callers == Permutations({c1, c2})
Callers3 == Permutations({c1, c2, c3})
Names == Permutations({c1, c2}) \cup Permutations({a, b})
=============================================================================
