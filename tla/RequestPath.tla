---------------------------- MODULE RequestPath ----------------------------
(***************************************************************************)
(* What every handler of src/catalog/v1 does around its call of the store: *)
(* it resolves the owner of what it is asked about, has the request        *)
(* decided and the decision recorded (guard.rs), looks for the receipt of  *)
(* an earlier attempt and, in the end, files one (idempotency.rs).  Each   *)
(* is a step of its own: other requests, here or on another replica, run   *)
(* in between.  Handlers adds the calls.                                   *)
(***************************************************************************)
EXTENDS Naturals, Sequences, FiniteSets

CONSTANTS
  Tenant, Principal, Namespace, Client, Replica, Key, None,
  TenantOf,      \* [Principal -> Tenant]
  ParentOf,      \* [Namespace -> Namespace or None]
  Menu,          \* the requests clients make
  Grants,        \* <<principal, owning tenant, action>> policy permits at first, everywhere
  FailClosed,    \* how the auditor is configured
  MaxRequests    \* bound: requests ever begun

Action == {"Read", "Create", "Update", "Delete"}

Operation ==
  {"GetNamespace", "LoadView", "ReportMetrics",
   "CreateNamespace", "UpdateProperties", "DropNamespace",
   "CreateTable", "StageTable", "RegisterTable", "CommitTable", "CommitTransaction",
   "DropTable", "UnregisterTable", "RenameTable",
   "CreateView", "CommitView", "DropView", "RenameView"}

Outcome == {"ok", "replayed", "failed", "protected", "forbidden", "not found", "unavailable"}

\* What a program that embeds the catalog may call without HTTP (session.rs).
SessionOperation ==
  {"GetNamespace", "LoadView", "CreateNamespace", "DropNamespace", "CreateTable",
   "CommitTable", "DropTable", "RenameTable", "CreateView", "CommitView", "DropView"}

\* A request names one namespace, and a rename or a transaction a second; it may
\* carry an idempotency key, may set or clear protection from deletion, and may be a
\* call of the Session API, which knows no keys.
Request == [op : Operation, by : Principal, at : Namespace, to : Namespace \cup {None},
            key : Key \cup {None}, protect : {"keep", "set", "clear"}, embedded : BOOLEAN]

ASSUME RequestAssumption ==
  /\ None \notin Tenant \cup Namespace \cup Key \cup Replica \cup Outcome
  /\ TenantOf \in [Principal -> Tenant]
  /\ ParentOf \in [Namespace -> Namespace \cup {None}]
  /\ Menu \subseteq Request
  /\ \A q \in Menu : q.embedded => q.op \in SessionOperation /\ q.key = None
  /\ \A q \in Menu : q.op \in {"CommitTransaction", "RenameTable", "RenameView"} => q.to # None
  /\ Grants \subseteq Principal \X Tenant \X Action
  /\ FailClosed \in BOOLEAN /\ MaxRequests \in Nat

\* Whose a namespace is, and since when, counted in requests begun, it is protected.
NamespaceState == [owner : Tenant, protectedAt : Nat \cup {None}]

\* Of a table or a view, also which request wrote it last.
ObjectState == [kind : {"table", "view"}, protectedAt : Nat \cup {None}, written : Nat]

VARIABLES
  namespaces,   \* per namespace its state, or None
  objects,      \* per namespace the state of the table or view in it, or None
  grants,       \* what the policy set each replica enforces permits
  shared,       \* receipts in the store replicas share
  lapsed,       \* those there past their time, which a later one must find gone
  local,        \* receipts in each replica's cache
  reachable,    \* whether the shared store answers
  req,          \* what each client's request is doing
  begun,        \* requests begun so far: the number of the latest
  settled,      \* history: per receipt, the latest request begun when it was answered
  revoked       \* history: per replica and principal, the latest request begun when the
                \* replica came to enforce a set that permits the principal nothing

store == <<namespaces, objects>>
receipts == <<shared, lapsed, local, reachable>>
vars == <<store, grants, receipts, req, begun, settled, revoked>>

-----------------------------------------------------------------------------
(* Requests                                                                *)

Idle == [phase |-> "idle", q |-> None, on |-> None, number |-> 0, todo |-> <<>>,
         owners |-> {}, recorded |-> {}, read |-> None, answer |-> None]

\* A property update, a drop and a view commit load what they then change.
ReadFirst == {"UpdateProperties", "DropNamespace", "DropTable", "DropView", "CommitView"}

\* Requests that are answered with credentials for the table they make.
Vends(q) == ~q.embedded /\ q.op \in {"CreateTable", "StageTable", "RegisterTable"}

Reads == {"GetNamespace", "LoadView", "ReportMetrics"}
Drops == {"DropNamespace", "DropTable", "UnregisterTable", "DropView"}
Creates == {"CreateNamespace", "CreateTable", "StageTable", "RegisterTable", "CreateView"}
Renames == {"RenameTable", "RenameView"}

ActionOf(op) ==
  CASE op \in Reads -> "Read" [] op \in Drops -> "Delete" [] op \in Creates -> "Create"
    [] OTHER -> "Update"

\* A root namespace is its creator's own; to the Session API every new namespace is.
Root(q) == q.op = "CreateNamespace" /\ (q.embedded \/ ParentOf[q.at] = None)

\* What has to be decided, in order.  A nested namespace is its parent's matter.
Decisions(q) ==
  CASE q.op \in Renames            -> <<<<"Update", q.at>>, <<"Create", q.to>>>>
    [] q.op = "CommitTransaction"  -> <<<<"Update", q.at>>, <<"Update", q.to>>>>
    [] q.op = "CreateNamespace" /\ ~Root(q) -> <<<<"Create", ParentOf[q.at]>>>>
    [] OTHER                       -> <<<<ActionOf(q.op), q.at>>>>

\* Which receipts a request may be answered with: its principal's, for its method and path.
PathOf(q) ==
  CASE q.op = "CreateNamespace"                -> <<"namespaces">>
    [] q.op = "CommitTransaction"              -> <<"transactions">>
    [] q.op \in {"CreateTable", "StageTable"}  -> <<"tables", q.at>>
    [] OTHER                                   -> <<q.op, q.at>>

Scope(q) == <<q.key, q.by, PathOf(q)>>
Scopes == {Scope(q) : q \in {r \in Menu : r.key # None}}

Begin(c, q, r) ==
  /\ req[c].phase = "idle" /\ begun < MaxRequests
  /\ begun' = begun + 1
  /\ req' = [req EXCEPT ![c] = [Idle EXCEPT !.phase = "deciding", !.q = q, !.on = r,
                                           !.number = begun + 1, !.todo = Decisions(q)]]
  /\ UNCHANGED <<store, grants, receipts, settled, revoked>>

Answer(c, a) == req' = [req EXCEPT ![c] = [Idle EXCEPT !.answer = a]]

\* The client goes away: a handler is dropped at whichever step it is waiting in.
Disconnect(c) ==
  /\ req[c].phase # "idle"
  /\ Answer(c, None)
  /\ UNCHANGED <<store, grants, receipts, begun, settled, revoked>>

-----------------------------------------------------------------------------
(* The guard                                                               *)

\* Bug: a decision once made is kept, whatever becomes of the policy.
AllowedAtFirst(c, owner, action) == <<req[c].q.by, owner, action>> \in Grants

\* By the set in force on the replica that serves the request.
Allows(c, owner, action) == <<req[c].q.by, owner, action>> \in grants[req[c].on]

\* The owner a decision is about, read from the namespace; a new root has none but
\* the caller's own tenant.
OwnerAsked(c) ==
  LET n == Head(req[c].todo)[2]
  IN IF Root(req[c].q) THEN TenantOf[req[c].q.by]
     ELSE IF namespaces[n] = None THEN None ELSE namespaces[n].owner

Permitted(c) ==
  /\ req[c].phase = "deciding" /\ OwnerAsked(c) # None
  /\ Allows(c, OwnerAsked(c), Head(req[c].todo)[1])

\* On to the next decision, or past the last one: a rename must not leave its tenant.
Proceed(c, recorded) ==
  LET rest   == Tail(req[c].todo)
      owners == req[c].owners \cup {OwnerAsked(c)}
  IN IF rest = <<>> /\ req[c].q.op \in Renames /\ Cardinality(owners) > 1
       THEN Answer(c, "forbidden")
       ELSE req' = [req EXCEPT
              ![c].todo = rest, ![c].owners = owners,
              ![c].recorded = @ \cup (IF recorded THEN {Head(req[c].todo)} ELSE {}),
              ![c].phase = IF rest = <<>> THEN "permitted" ELSE "deciding"]

\* Bug: a change whose decision could not be recorded is made anyway.
PermitUnrecorded(c) == Permitted(c) /\ \E recorded \in BOOLEAN : Proceed(c, recorded)

\* A permitted change must be recorded where the auditor fails closed.
Permit(c) ==
  /\ Permitted(c)
  /\ \/ Proceed(c, TRUE)
     \/ /\ Head(req[c].todo)[1] # "Read"
        /\ IF FailClosed THEN Answer(c, "unavailable") ELSE Proceed(c, FALSE)

\* What the caller may not even read is not there.
Deny(c) ==
  LET q == req[c].q
      decision == Head(req[c].todo)
  IN /\ req[c].phase = "deciding"
     /\ OwnerAsked(c) # None => ~Allows(c, OwnerAsked(c), decision[1])
     /\ Answer(c, IF Root(q) \/ (/\ OwnerAsked(c) # None /\ decision[1] # "Read"
                                 /\ Allows(c, OwnerAsked(c), "Read"))
                  THEN "forbidden" ELSE "not found")

Guard(c) ==
  /\ Permit(c) \/ Deny(c)
  /\ UNCHANGED <<store, grants, receipts, begun, settled, revoked>>

-----------------------------------------------------------------------------
(* Receipts                                                                *)

\* A shared receipt is kept in the replica's cache as well; a store that does not
\* answer is a miss.
HasReceipt(c) ==
  LET s == Scope(req[c].q)
  IN req[c].q.key # None /\ (s \in local[req[c].on] \/ (reachable /\ s \in shared))

Ready(c) == req' = [req EXCEPT ![c].phase =
                    IF req[c].q.op \in ReadFirst THEN "reading" ELSE "ready"]

\* Bug: only this replica's own receipts are looked at.
LookUpLocally(c) ==
  /\ req[c].phase = "permitted"
  /\ IF req[c].q.key # None /\ Scope(req[c].q) \in local[req[c].on]
       THEN Answer(c, "replayed") ELSE Ready(c)
  /\ UNCHANGED <<store, grants, receipts, begun, settled, revoked>>

LookUp(c) ==
  /\ req[c].phase = "permitted"
  /\ IF HasReceipt(c)
       THEN /\ Answer(c, "replayed")
            /\ local' = [local EXCEPT ![req[c].on] = @ \cup {Scope(req[c].q)}]
       ELSE Ready(c) /\ UNCHANGED local
  /\ UNCHANGED <<store, grants, shared, lapsed, reachable, begun, settled, revoked>>

\* A receipt goes to the shared store, which keeps whatever row the key has, one that
\* has lapsed too, and then prunes those; and to this replica's cache.
Put(s, r) ==
  /\ local' = [local EXCEPT ![r] = @ \cup {s}]
  /\ IF reachable
       THEN /\ shared' = IF s \in lapsed THEN shared ELSE shared \cup {s}
            /\ lapsed' = {}
            /\ settled' = IF s \in lapsed THEN settled ELSE [settled EXCEPT ![s] = begun]
       ELSE UNCHANGED <<shared, lapsed, settled>>

\* The last step of a request that succeeds; a staged table leaves no receipt.
File(c) ==
  LET q == req[c].q
  IN /\ req[c].phase \in {"ran", "vended"}
     /\ req[c].phase = "vended" <=> Vends(q)
     /\ Answer(c, "ok")
     /\ IF q.key # None /\ q.op # "StageTable"
          THEN Put(Scope(q), req[c].on)
          ELSE UNCHANGED <<local, shared, lapsed, settled>>
     /\ UNCHANGED <<store, grants, reachable, begun, revoked>>

\* A receipt's time is up in the shared store, or in a replica's cache, which may
\* have taken it later.
Expire(s) ==
  /\ \/ /\ s \in shared /\ shared' = shared \ {s} /\ lapsed' = lapsed \cup {s}
        /\ settled' = [settled EXCEPT ![s] = None]
        /\ UNCHANGED local
     \/ \E r \in Replica : /\ s \in local[r] /\ local' = [local EXCEPT ![r] = @ \ {s}]
                           /\ UNCHANGED <<shared, lapsed, settled>>
  /\ UNCHANGED <<store, grants, reachable, req, begun, revoked>>

\* The shared store stops answering, or answers again.
Outage ==
  /\ reachable' = ~reachable
  /\ settled' = [s \in Scopes |-> None]
  /\ UNCHANGED <<store, grants, shared, lapsed, local, req, begun, revoked>>

-----------------------------------------------------------------------------
(* The policy set                                                          *)

\* A replica comes to enforce a set that permits those in lost nothing.
Loses(r, lost) ==
  /\ grants' = [grants EXCEPT ![r] = {g \in @ : g[1] \notin lost}]
  /\ revoked' = [revoked EXCEPT ![r] =
       [p \in Principal |-> IF p \in lost /\ revoked[r][p] = None THEN begun ELSE revoked[r][p]]]

\* A replica comes back without its cache and without the requests it was serving, on
\* the newest policy set, which is at least what any other enforces (PolicyReload).
Restart(r) ==
  /\ local' = [local EXCEPT ![r] = {}]
  /\ req' = [c \in Client |-> IF req[c].on = r THEN Idle ELSE req[c]]
  /\ Loses(r, {p \in Principal : \E o \in Replica : revoked[o][p] # None})
  /\ UNCHANGED <<store, shared, lapsed, reachable, begun, settled>>
=============================================================================
