---------------------------- MODULE MCTableAccess ----------------------------
(* A small instance of TableAccess for TLC: a table with two columns, a     *)
(* struct and a map, a column it may yet get, and the policy sets that      *)
(* restrict it.                                                             *)
EXTENDS TableAccess, TLC

\* 1 region, 2 amount, 3 user with 4 user.ssn, 5 tags with its 6 key and 7 value,
\* and 8, which is new.
MCNested == [f \in Field |-> CASE f = 4 -> 3 [] f \in {6, 7} -> 5 [] OTHER -> None]

MCSchema == [f \in Field |->
  CASE f = 1 -> "region" [] f = 2 -> "amount" [] f = 3 -> "user" [] f = 4 -> "user.ssn"
    [] f = 5 -> "tags" [] f = 6 -> "tags.key" [] f = 7 -> "tags.value" [] OTHER -> None]

MCNames == ({MCSchema[f] : f \in Field} \ {None}) \cup {"REGION", "area", "nope"}

MCFold == [n \in MCNames |-> IF n = "REGION" THEN "region" ELSE n]

\* The two files of the second column's 0 share a delete file, and one of them has another.
MCDeletes == [r \in Row |->
  IF r[2] = 1 THEN {} ELSE IF r[1] = 0 THEN {7, 8} ELSE {8}]

Eq(t, v) == [type |-> "eq", term |-> t, value |-> v]
Newer == [type |-> "newer"]
Not(j) == [type |-> "not", child |-> j]
And(j, k) == [type |-> "and", left |-> j, right |-> k]
Or(j, k) == [type |-> "or", left |-> j, right |-> k]

Region == Eq(<<"name", "region">>, 1)
Amount == Eq(<<"id", 2>>, 1)
Absent == Eq(<<"name", "nope">>, 1)
OtherCase == Eq(<<"name", "REGION">>, 1)
Misfit == Eq(<<"name", "amount">>, 9)
Day == Eq(<<"transform">>, 1)

Flat == {Region, Day, Newer}
Pairs == {And(j, k) : j, k \in Flat} \cup {Or(j, k) : j, k \in Flat}
ClientFilters ==
  {[type |-> "true"], [type |-> "false"], Absent, Misfit, OtherCase} \cup Flat \cup Pairs
  \cup {Not(j) : j \in Flat \cup Pairs} \cup {And(Amount, Not(j)) : j \in Pairs}
  \cup {Not(And(Amount, Not(j))) : j \in Pairs}

On(actions, filter, mask) ==
  [effect |-> "permit", matches |-> actions, fails |-> {}, filter |-> filter, mask |-> mask]
Sets ==
  LET reads == {"Read"}
      both  == {"Read", "Update"}
  IN { {On(both, None, {})},
       {On(reads, Region, {}), On(both, Or(Amount, Absent), {"user"})},
       {On(reads, Not(Or(OtherCase, Misfit)), {"user", "region"}),
        On(reads, Not(Region), {"user", "user.ssn"})},
       {On(reads, None, {"tags", "user"})},
       {On(both, Region, {"amount", "tags.value"})},
       {On(reads, Amount, {"tags.key"}), On(reads, Not(Amount), {}), On(both, None, {"amount"})},
       {On(reads, Not(Amount), {"user.ssn", "nope"})},
       {On(reads, Day, {})},
       {On(both, None, {}), [On(reads, None, {}) EXCEPT !.effect = "forbid", !.fails = {"Update"},
                                                        !.matches = {}]} }
=============================================================================
