------------------------------ MODULE Handlers ------------------------------
(***************************************************************************)
(* The namespace, table and view handlers (src/catalog/v1/namespace.rs,    *)
(* table.rs, view.rs) of several replicas over one store, and the calls of *)
(* the Session API (src/catalog/session.rs), which go the same way without *)
(* receipts.  RequestPath takes a request to the point where it may run;   *)
(* this module adds what it reads first, its call of the store, and the    *)
(* credentials a new table is answered with.                               *)
(*                                                                         *)
(* A method of the store is one step, as CatalogSpec promises it, and may  *)
(* fail without effect.  A namespace holds at most one object, and an      *)
(* object's location is the number of the request that wrote it last.      *)
(***************************************************************************)
EXTENDS RequestPath

CONSTANTS
  Starts,      \* what the catalog may hold before the first request: per namespace
               \* what namespaces and objects say of it
  Revocable    \* bound: who may lose its grants, once on each replica and for good

ASSUME StartsAssumption ==
  \A start \in Starts :
    /\ start.namespaces \in [Namespace -> NamespaceState \cup {None}]
    /\ start.objects \in [Namespace -> ObjectState \cup {None}]
    /\ \A n \in Namespace :
         /\ start.namespaces[n] # None /\ ParentOf[n] # None => start.namespaces[ParentOf[n]] # None
         /\ start.objects[n] # None => start.namespaces[n] # None

\* Protection as a request leaves it: since when, counted in requests begun, the
\* name has held something protected.
Protection(protect, before) ==
  CASE protect = "clear"                   -> None
    [] protect = "set" /\ before = None    -> begun
    [] OTHER                               -> before

Kind(n) == IF objects[n] = None THEN "none" ELSE objects[n].kind

KindOf(op) ==
  IF op \in {"CreateView", "CommitView", "DropView", "RenameView", "LoadView"}
    THEN "view" ELSE "table"

-----------------------------------------------------------------------------
(* What is read first                                                      *)

\* The namespace or object a request loads before it changes it, or None.
Loaded(q) ==
  IF q.op \in {"UpdateProperties", "DropNamespace"} THEN namespaces[q.at]
  ELSE IF Kind(q.at) = KindOf(q.op) THEN objects[q.at] ELSE None

Protects(q, what) == q.op \in Drops /\ what.protectedAt # None

\* Bug: only tables are looked at for protection.
LoadTablesGuarded(c) ==
  LET q == req[c].q
      what == Loaded(q)
  IN /\ req[c].phase = "reading"
     /\ IF what = None THEN Answer(c, "failed")
        ELSE IF Protects(q, what) /\ q.op = "DropTable" THEN Answer(c, "protected")
        ELSE req' = [req EXCEPT ![c].phase = "ready", ![c].read = what]
     /\ UNCHANGED <<store, grants, receipts, begun, settled, revoked>>

\* What is protected from deletion is not dropped.
Load(c) ==
  LET q == req[c].q
      what == Loaded(q)
  IN /\ req[c].phase = "reading"
     /\ IF what = None THEN Answer(c, "failed")
        ELSE IF Protects(q, what) THEN Answer(c, "protected")
        ELSE req' = [req EXCEPT ![c].phase = "ready", ![c].read = what]
     /\ UNCHANGED <<store, grants, receipts, begun, settled, revoked>>

\* A view is there as long as its pointer is.
ViewExists(n) == Kind(n) = "view"

\* Reading handlers answer with what they load.
AnswerRead(c) ==
  LET q == req[c].q
      there == IF q.op = "LoadView" THEN ViewExists(q.at) ELSE namespaces[q.at] # None
  IN /\ req[c].phase = "ready" /\ q.op \in {"GetNamespace", "LoadView"}
     /\ Answer(c, IF there THEN "ok" ELSE "failed")
     /\ UNCHANGED <<store, grants, receipts, begun, settled, revoked>>

\* A metrics report is logged, whether there is such a table or not.
ReportMetrics(c) ==
  /\ req[c].phase = "ready" /\ req[c].q.op = "ReportMetrics"
  /\ Answer(c, "ok")
  /\ UNCHANGED <<store, grants, receipts, begun, settled, revoked>>

-----------------------------------------------------------------------------
(* The store's methods                                                     *)

Calls(c, ops) ==
  /\ req[c].phase = "ready" /\ req[c].q.op \in ops
  /\ req' = [req EXCEPT ![c].phase = "ran", ![c].read = None]
  /\ UNCHANGED <<grants, receipts, begun, settled, revoked>>

\* A nested namespace belongs to the owner its parent had when it was decided, and one
\* made through the Session API to its creator.
CreateNamespace(c) ==
  LET q == req[c].q
  IN /\ Calls(c, {"CreateNamespace"})
     /\ namespaces[q.at] = None
     /\ ParentOf[q.at] # None => namespaces[ParentOf[q.at]] # None
     /\ \E owner \in req[c].owners :
          namespaces' = [namespaces EXCEPT
            ![q.at] = [owner |-> owner, protectedAt |-> Protection(q.protect, None)]]
     /\ UNCHANGED objects

\* The properties read are written back whole, the owner among them.
UpdateProperties(c) ==
  LET q == req[c].q
      now == namespaces[q.at]
      protect == CASE q.protect # "keep"               -> q.protect
                   [] req[c].read.protectedAt = None   -> "clear"
                   [] OTHER                            -> "set"
  IN /\ Calls(c, {"UpdateProperties"})
     /\ now # None
     /\ namespaces' = [namespaces EXCEPT
          ![q.at] = [owner |-> req[c].read.owner,
                     protectedAt |-> Protection(protect, now.protectedAt)]]
     /\ UNCHANGED objects

DropNamespace(c) ==
  LET n == req[c].q.at
  IN /\ Calls(c, {"DropNamespace"})
     /\ namespaces[n] # None /\ Kind(n) = "none"
     /\ \A m \in Namespace : ParentOf[m] = n => namespaces[m] = None
     /\ namespaces' = [namespaces EXCEPT ![n] = None]
     /\ UNCHANGED objects

\* A new object under a free name, in a namespace that exists.
Adds(c, kind) ==
  LET q == req[c].q
  IN /\ namespaces[q.at] # None /\ Kind(q.at) = "none"
     /\ objects' = [objects EXCEPT ![q.at] =
          [kind |-> kind, protectedAt |-> Protection(q.protect, None), written |-> req[c].number]]
     /\ UNCHANGED namespaces

CreateTable(c) == Calls(c, {"CreateTable"}) /\ Adds(c, "table")
RegisterTable(c) == Calls(c, {"RegisterTable"}) /\ Adds(c, "table")
CreateView(c) == Calls(c, {"CreateView"}) /\ Adds(c, "view")

\* A staged table is in no listing until it is committed.
StageTable(c) ==
  LET n == req[c].q.at
  IN /\ Calls(c, {"StageTable"})
     /\ namespaces[n] # None /\ Kind(n) # "table"
     /\ UNCHANGED store

Written(c, n) ==
  [objects[n] EXCEPT !.protectedAt = Protection(req[c].q.protect, @), !.written = req[c].number]

\* The store reads a table and writes it in one step, and retries where it must.
CommitTable(c) ==
  LET n == req[c].q.at
  IN /\ Calls(c, {"CommitTable"})
     /\ Kind(n) = "table"
     /\ objects' = [objects EXCEPT ![n] = Written(c, n)]
     /\ UNCHANGED namespaces

\* All of a transaction's tables or none.
CommitTransaction(c) ==
  LET q == req[c].q
      tables == {q.at, q.to}
  IN /\ Calls(c, {"CommitTransaction"})
     /\ \A n \in tables : Kind(n) = "table"
     /\ objects' = [n \in Namespace |-> IF n \in tables THEN Written(c, n) ELSE objects[n]]
     /\ UNCHANGED namespaces

\* A view is replaced only where it still is what was read: by the handler, or by a
\* caller of the Session API, whose older witness fails.
CommitView(c) ==
  LET n == req[c].q.at
  IN /\ Calls(c, {"CommitView"})
     /\ Kind(n) = "view" /\ objects[n].written = req[c].read.written
     /\ objects' = [objects EXCEPT ![n] = Written(c, n)]
     /\ UNCHANGED namespaces

\* Whatever object of its kind has the name by now.
Removes(c, kind) ==
  /\ Kind(req[c].q.at) = kind
  /\ objects' = [objects EXCEPT ![req[c].q.at] = None]
  /\ UNCHANGED namespaces

\* With its data or without; unregistering asks of no protection.
DropTable(c) == Calls(c, {"DropTable"}) /\ Removes(c, "table")
UnregisterTable(c) == Calls(c, {"UnregisterTable"}) /\ Removes(c, "table")
DropView(c) == Calls(c, {"DropView"}) /\ Removes(c, "view")

Moves(c, kind) ==
  LET q == req[c].q
  IN /\ Kind(q.at) = kind
     /\ namespaces[q.to] # None /\ Kind(q.to) = "none"
     /\ objects' = [objects EXCEPT ![q.at] = None, ![q.to] =
          [objects[q.at] EXCEPT !.protectedAt = IF @ = None THEN None ELSE begun]]
     /\ UNCHANGED namespaces

RenameTable(c) == Calls(c, {"RenameTable"}) /\ Moves(c, "table")
RenameView(c) == Calls(c, {"RenameView"}) /\ Moves(c, "view")

\* A conflict, a missing name or a failure of the store: nothing has changed.
StoreFails(c) ==
  /\ req[c].phase = "ready" /\ req[c].q.op \notin Reads
  /\ Answer(c, "failed")
  /\ UNCHANGED <<store, grants, receipts, begun, settled, revoked>>

\* Credentials and restrictions for a table that now exists; where they fail the
\* request fails, and the table stays.
Vend(c) ==
  /\ req[c].phase = "ran" /\ Vends(req[c].q)
  /\ \/ req' = [req EXCEPT ![c].phase = "vended"]
     \/ Answer(c, "failed")
  /\ UNCHANGED <<store, grants, receipts, begun, settled, revoked>>

CallStore(c) ==
  \/ CreateNamespace(c) \/ UpdateProperties(c) \/ DropNamespace(c)
  \/ CreateTable(c) \/ StageTable(c) \/ RegisterTable(c) \/ CommitTable(c)
  \/ CommitTransaction(c) \/ DropTable(c) \/ UnregisterTable(c) \/ RenameTable(c)
  \/ CreateView(c) \/ CommitView(c) \/ DropView(c) \/ RenameView(c)

-----------------------------------------------------------------------------
(* The specification                                                       *)

Init ==
  /\ \E start \in Starts : namespaces = start.namespaces /\ objects = start.objects
  /\ grants = [r \in Replica |-> Grants]
  /\ shared = {} /\ lapsed \in {{}, Scopes} /\ local = [r \in Replica |-> {}] /\ reachable = TRUE
  /\ req = [c \in Client |-> Idle] /\ begun = 0
  /\ settled = [s \in Scopes |-> None]
  /\ revoked = [r \in Replica |-> [p \in Principal |-> None]]

\* A replica swaps in a set that takes away all a principal was permitted: when the
\* change is made there, and when its own poller has brought it.
Revoke(r, p) ==
  /\ p \in Revocable /\ revoked[r][p] = None
  /\ Loses(r, {p})
  /\ UNCHANGED <<store, receipts, req, begun, settled>>

Handle(c) ==
  Guard(c) \/ LookUp(c) \/ Load(c) \/ AnswerRead(c) \/ ReportMetrics(c) \/ CallStore(c) \/ StoreFails(c)
  \/ Vend(c) \/ File(c)

Next ==
  \/ \E c \in Client : \/ \E q \in Menu, r \in Replica : Begin(c, q, r)
                       \/ Handle(c) \/ Disconnect(c)
  \/ \E s \in Scopes : Expire(s)
  \/ \E r \in Replica : Restart(r) \/ \E p \in Principal : Revoke(r, p)
  \/ Outage

Spec == Init /\ [][Next]_vars

-----------------------------------------------------------------------------
(* Properties                                                              *)

\* The request changes the catalog, or, staging a table, its store.
Runs(c) == req[c].phase = "ready" /\ req'[c].phase = "ran"

Succeeds(c) ==
  req[c].phase # "idle" /\ req'[c].phase = "idle" /\ req'[c].answer \in {"ok", "replayed"}

\* Once an attempt with a key was answered, no attempt begun since runs again, on
\* whichever replica and however requests interleave, while its receipt lasts and the
\* shared store has answered throughout (idempotency.rs: get, set).
AnsweredOnce ==
  [][\A c \in Client : Runs(c) /\ req[c].q.key # None =>
       LET answered == settled[Scope(req[c].q)]
       IN answered = None \/ answered >= req[c].number]_vars

\* What was protected before a request to drop it began, and has been since, is not
\* dropped by it, although protection is read in a step of its own.
ProtectionHolds ==
  [][\A c \in Client : Runs(c) /\ req[c].q.op \in Drops \ {"UnregisterTable"} =>
       LET q == req[c].q
           since == IF q.op = "DropNamespace" THEN namespaces[q.at].protectedAt
                    ELSE objects[q.at].protectedAt
       IN since = None \/ since >= req[c].number]_vars

\* A request begun on a replica that has come to enforce its principal's loss neither
\* runs there nor is answered with success: not with the receipt of what the principal
\* did while permitted either, nor with one a replica whose poller has not brought the
\* change yet files meanwhile.  That other replica still lets the principal through
\* (reloadable.rs:96: a revocation is only as fast as the slowest pod).
RevokedGetsNothing ==
  [][\A c \in Client : Runs(c) \/ Succeeds(c) =>
       LET lost == revoked[req[c].on][req[c].q.by]
       IN lost = None \/ lost >= req[c].number]_vars

\* With an auditor that fails closed nothing changes before every decision it takes,
\* a rename's two and a transaction's one per table, is on record.
ChangesAreOnRecord ==
  [][FailClosed => \A c \in Client : Runs(c) =>
       LET decisions == Decisions(req[c].q)
       IN \A i \in DOMAIN decisions : decisions[i] \in req[c].recorded]_vars
=============================================================================
