---------------------------- MODULE PostgresState ----------------------------
(***************************************************************************)
(* The state of the Postgres catalog backend (src/catalog/postgres.rs),    *)
(* which any number of replicas share: the relations of the schema, the    *)
(* object store, the requests in flight and the row locks their            *)
(* transactions hold.                                                      *)
(*                                                                         *)
(* Transactions are READ COMMITTED.  A statement sees what is committed    *)
(* when it runs, waits while another transaction holds the row it is to    *)
(* change, and then looks again at the committed row.  So a statement that *)
(* locks is one step, enabled while nobody else holds its row, and what a  *)
(* transaction wrote takes effect when it commits.  A transaction with one *)
(* lock to wait for is one step.                                           *)
(*                                                                         *)
(* A metadata file is the sequence of writes it results from, as in        *)
(* RedbState.                                                              *)
(***************************************************************************)
EXTENDS Naturals, Sequences, FiniteSets

CONSTANTS
  Client,              \* the concurrent callers, on whatever replica
  Namespace,
  ParentOf,            \* the namespace each one is nested in, or None
  Ident,               \* table and view identifiers
  NsOf,                \* the namespace of each identifier
  Rank,                \* the byte order of identifiers: [Ident -> Nat]
  None,
  InitNamespaces, InitTables, InitViews,
  Enabled,             \* the kinds of request issued, "abandon" if they may be cut off
  MaxRequests,         \* bound: requests a client issues, dropping namespaces aside
  MaxChanges,          \* bound: tables named by one transaction
  COMMIT_MAX_RETRIES

Operation ==
  {"create", "stage", "register", "drop", "purge", "rename", "update_view", "commit"}

\* rustberg_tables and rustberg_views are two relations of one shape.
Kind == {"table", "view"}

ASSUME NamesAssumption ==
  /\ NsOf \in [Ident -> Namespace]
  /\ ParentOf \in [Namespace -> Namespace \cup {None}]
  /\ None \notin Ident
  /\ InitNamespaces \subseteq Namespace
  /\ InitTables \subseteq Ident /\ InitViews \subseteq Ident
  /\ InitTables \cap InitViews = {}
  /\ \A t \in InitTables \cup InitViews : NsOf[t] \in InitNamespaces
  /\ \A n \in InitNamespaces : ParentOf[n] # None => ParentOf[n] \in InitNamespaces

\* No two identifiers sort alike, and one is the last: names are of bounded
\* length.
ASSUME OrderAssumption ==
  /\ Rank \in [Ident -> Nat]
  /\ Ident # {} => \E z \in Ident : \A t \in Ident : Rank[t] <= Rank[z]
  /\ \A s, t \in Ident : Rank[s] = Rank[t] => s = t

ASSUME BoundsAssumption ==
  /\ MaxRequests \in Nat
  /\ MaxChanges \in Nat \ {0}
  /\ COMMIT_MAX_RETRIES \in Nat \ {0}

VARIABLES
  namespaces,   \* rustberg_namespaces
  names,        \* rustberg_object_names: the names in use, of either kind
  at,           \* rustberg_tables and rustberg_views: where each name points
  staged,       \* rustberg_staged_tables
  files,        \* the metadata files the object store holds
  published,    \* every pointer a row has ever held (history)
  req,          \* the request each client has in flight
  txn,          \* what a commit in flight has prepared and locked
  held,         \* the rows each client's open transaction has locked
  begun, wrote  \* requests issued and files written, per client

relations == <<namespaces, names, at, staged>>
vars == <<namespaces, names, at, staged, files, published, req, txn, held, begun, wrote>>

-----------------------------------------------------------------------------
WriteId == (Client \cup Ident) \X Nat

MetadataFile == Seq(WriteId)

\* The absence of a row is no pointer.
ASSUME PointerAssumption == None \notin MetadataFile

\* "append" has no requirement, "guarded" asserts what the client last saw,
\* "create" asserts that there is no table.
Change == [tab : Ident, kind : {"append", "guarded", "create"}, seen : MetadataFile]

\* StagedCommit: the pointer the update is conditional on, None to create.
Prepared == [tab : Ident, expected : MetadataFile \cup {None}, file : MetadataFile]

Phase == {"idle", "insert", "drop", "cascade", "delete", "row", "release", "swap",
          "prepare", "lock", "land", "discard"}

Request == [op : Operation \cup {None}, kind : Kind, phase : Phase,
            tab : Ident \cup {None}, dest : Ident \cup {None},
            file : MetadataFile, expected : MetadataFile]

Transaction == [changes : Seq(Change), prepared : Seq(Prepared),
                locked : SUBSET Nat, attempt : 0..COMMIT_MAX_RETRIES]

Idle == [op |-> None, kind |-> "table", phase |-> "idle", tab |-> None, dest |-> None,
         file |-> <<>>, expected |-> <<>>]

NoTransaction == [changes |-> <<>>, prepared |-> <<>>, locked |-> {}, attempt |-> 0]

\* Rows that are locked: a name, the row of a table or view, a staging.
Row == ({"name", "staged"} \cup Kind) \X Ident

Locked(c, r) == \E d \in Client \ {c} : r \in held[d]

NamespaceExists(t) == NsOf[t] \in namespaces

AnyNamespace(t) == TRUE   \* no foreign key

\* rustberg_object_names.namespace references rustberg_namespaces.
ReferenceHolds(t) == NsOf[t] \in namespaces

ViewTaken(t) == at["view"][t] # None   \* one relation of the two

\* claim_name: the insert does nothing if the name is in use.
NameTaken(t) == t \in names

Ancestry(f) == {SubSeq(f, 1, i) : i \in 1..Len(f)}

FreshId(c) == <<c, wrote[c] + 1>>

-----------------------------------------------------------------------------
\* A client with nothing in flight issues the request r.
Begin(c, r) ==
  /\ r.op \in Enabled
  /\ req[c] = Idle
  /\ begun[c] < MaxRequests
  /\ begun' = [begun EXCEPT ![c] = @ + 1]
  /\ req' = [req EXCEPT ![c] = r]

On(op, kind, phase, t) ==
  [Idle EXCEPT !.op = op, !.kind = kind, !.phase = phase, !.tab = t]

InPhase(c, op, phase) == req[c].op = op /\ req[c].phase = phase

GoTo(c, phase) == req' = [req EXCEPT ![c].phase = phase]

\* The handler answers, and its transaction is over.
Finish(c) == req' = [req EXCEPT ![c] = Idle] /\ held' = [held EXCEPT ![c] = {}]

Lock(c, rows) == held' = [held EXCEPT ![c] = @ \cup rows]

WriteFile(c, f) == files' = files \cup {f} /\ wrote' = [wrote EXCEPT ![c] = @ + 1]

SeedFile(t) == << <<t, 0>> >>

Init ==
  LET rows(S) == [t \in Ident |-> IF t \in S THEN SeedFile(t) ELSE None]
  IN /\ namespaces = InitNamespaces
     /\ names = InitTables \cup InitViews
     /\ at = [k \in Kind |-> rows(IF k = "table" THEN InitTables ELSE InitViews)]
     /\ staged = [t \in Ident |-> None]
     /\ files = {SeedFile(t) : t \in InitTables \cup InitViews}
     /\ published = ({"table"} \X {SeedFile(t) : t \in InitTables})
                    \cup ({"view"} \X {SeedFile(v) : v \in InitViews})
     /\ req = [c \in Client |-> Idle]
     /\ txn = [c \in Client |-> NoTransaction]
     /\ held = [c \in Client |-> {}]
     /\ begun = [c \in Client |-> 0]
     /\ wrote = [c \in Client |-> 0]

\* The request is cut off, or its replica dies: an open transaction is rolled
\* back, and nothing else is undone.
Abandon(c) ==
  /\ "abandon" \in Enabled
  /\ req[c] # Idle
  /\ Finish(c)
  /\ txn' = [txn EXCEPT ![c] = NoTransaction]
  /\ UNCHANGED <<relations, files, published, begun, wrote>>
=============================================================================
