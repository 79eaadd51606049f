----------------------------- MODULE MCHandlers -----------------------------
(* A small instance of Handlers for TLC: a namespace p with a namespace c   *)
(* in it, two tenants, and the requests their principals make.              *)
EXTENDS Handlers, TLC

CONSTANTS a, b, pa, pb, p, c, k

Tenants == pa :> a @@ pb :> b
Parents == p :> None @@ c :> p
Policies == {<<pa, a, action>> : action \in Action} \cup {<<pb, b, action>> : action \in Action}
            \cup {<<pb, a, "Read">>}

Ask(op, by, at) == [op |-> op, by |-> by, at |-> at, to |-> None, key |-> None, protect |-> "keep",
                     embedded |-> FALSE]
To(q, n) == [q EXCEPT !.to = n]
Keyed(q) == [q EXCEPT !.key = k]
Embedded(q) == [q EXCEPT !.embedded = TRUE]
Protecting(q) == [q EXCEPT !.protect = "set"]
Clearing(q) == [q EXCEPT !.protect = "clear"]

Asks ==
  {Keyed(Ask("CreateNamespace", pa, p)), Keyed(Ask("CreateNamespace", pa, c)),
   Protecting(Ask("UpdateProperties", pa, p)), Clearing(Ask("UpdateProperties", pa, p)),
   Ask("DropNamespace", pa, p),
   Keyed(Ask("CreateTable", pa, p)), Keyed(Ask("StageTable", pa, p)),
   Keyed(Ask("RegisterTable", pa, c)), Keyed(Protecting(Ask("CommitTable", pa, p))),
   Keyed(To(Ask("CommitTransaction", pa, p), c)), Ask("DropTable", pa, p),
   Ask("UnregisterTable", pa, c), To(Ask("RenameTable", pa, p), c),
   Keyed(Protecting(Ask("CreateView", pa, c))), Keyed(Protecting(Ask("CommitView", pa, c))),
   Ask("DropView", pa, c), To(Ask("RenameView", pa, c), p),
   Ask("GetNamespace", pb, p), Ask("LoadView", pb, c), Ask("ReportMetrics", pb, c),
   Ask("DropTable", pb, p),
   Embedded(Ask("CreateNamespace", pb, c)),
   Embedded(Protecting(Ask("CommitView", pa, c)))}

Nothing == p :> None @@ c :> None
Owned(t) == [owner |-> t, protectedAt |-> None]
Table == [kind |-> "table", protectedAt |-> None, written |-> 0]
View == [kind |-> "view", protectedAt |-> None, written |-> 0]
Guarded(x) == [x EXCEPT !.protectedAt = 0]
Both == p :> Owned(a) @@ c :> Owned(a)
MCStarts ==
  {[namespaces |-> Nothing, objects |-> Nothing],
   [namespaces |-> p :> Guarded(Owned(a)) @@ c :> None,
    objects |-> p :> Guarded(Table) @@ c :> None],
   [namespaces |-> Both, objects |-> p :> Table @@ c :> Table],
   [namespaces |-> Both, objects |-> p :> None @@ c :> View]}

Symmetry == Permutations(Client) \cup Permutations(Replica)
=============================================================================
