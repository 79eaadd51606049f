----------------------------- MODULE MCListing -------------------------------
(* Listings of the root, of a remote catalog's tables and of a mount's namespaces, and calls
   that name the native catalog, a mount with a store of its own, one that is read only and a
   remote one. *)
EXTENDS Listing

MCPath == {<<1>>, <<3>>, <<4>>, <<1, 2>>, <<2>>, <<2, 1>>, <<5>>, <<5, 1>>, <<6>>, <<6, 1>>}

MCIdent == {<<<<1>>, 1>>, <<<<1>>, 2>>, <<<<5, 1>>, 1>>, <<<<5, 1>>, 2>>, <<<<5>>, 1>>, <<<<6, 1>>, 1>>}
           \cup {<<<<2, 1>>, n>> : n \in 1..5}

MCSpaces == MCPath \ {<<2>>, <<5>>, <<6>>, <<1, 2>>}
MCTables == {<<<<1>>, 1>>, <<<<5, 1>>, 1>>, <<<<6, 1>>, 1>>} \cup {<<<<2, 1>>, n>> : n \in 1..4}

Of(kind, path) == [kind |-> kind, of |-> path]

Quiet == [what |-> {}, limits |-> 1..3, manner |-> "pages", hidden |-> {}, events |-> {},
          changes |-> 0, faults |-> 0]

MCScenarios ==
  {[Quiet EXCEPT !.what = {w}, !.hidden = {3}, !.events = {"namespaces"}, !.changes = 2,
                 !.faults = 1] : w \in {Of("spaces", <<>>), Of("tables", <<3>>)}}
  \cup
  {[Quiet EXCEPT !.what = {Of("tables", <<2, 1>>)}, !.hidden = h, !.events = {"remote"},
                 !.changes = 2, !.faults = 1] : h \in {{}, {2}, {1, 3}}}
  \cup
  {[Quiet EXCEPT !.what = {Of("tables", <<2, 1>>), Of("spaces", <<5>>), Of("views", <<5, 1>>),
                           Of("views", <<2, 1>>), Of("tables", <<5>>)},
                 !.manner = m, !.faults = 1] : m \in {"stuck", "endless", "whole"}}
  \cup
  {[Quiet EXCEPT !.events = {"namespaces", "objects"}, !.changes = 3]}
=============================================================================
