-------------------------- MODULE MCPostgresCatalog --------------------------
(* Small instances of PostgresCatalog for TLC.                              *)
EXTENDS PostgresCatalog, TLC

CONSTANTS c1, c2, c3, n1, n2, a, b

Nested == [n \in {n1, n2} |-> IF n = n2 THEN n1 ELSE None]
OneEach == [t \in {a, b} |-> IF t = a THEN n1 ELSE n2]
Alphabetical == [t \in {a, b} |-> IF t = a THEN 1 ELSE 2]

Callers == Permutations({c1, c2})

\* Bound: requests begun by both clients.
ThreeRequests == begun[c1] + begun[c2] <= 3
=============================================================================
