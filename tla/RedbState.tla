------------------------------ MODULE RedbState ------------------------------
(***************************************************************************)
(* The state of the embedded redb catalog backend (src/catalog/redb.rs):   *)
(* the registry relations of the redb file, the object store that holds    *)
(* metadata files, and the requests in flight.                             *)
(*                                                                         *)
(* A redb write transaction is serialised with every other one, so a       *)
(* transaction is one step.  A handler that reads, writes a file and only  *)
(* then opens its transaction is several steps, and other requests run in  *)
(* between.                                                                *)
(*                                                                         *)
(* A metadata file is written once under a fresh name and never changed,   *)
(* so it is identified with what it records: the sequence of the writes it *)
(* is the result of.  <<w1, w2>> is the file that write w2 produced on top *)
(* of <<w1>>; a write also stands for the data files it brought with it.   *)
(***************************************************************************)
EXTENDS Naturals, Sequences

CONSTANTS
  Client,              \* the concurrent callers of the catalog
  Namespace,           \* namespaces that may exist
  ParentOf,            \* the namespace each one is nested in, or None
  Ident,               \* table and view identifiers
  NsOf,                \* the namespace of each identifier
  None,                \* "no record under this key"
  InitNamespaces,      \* namespaces the catalog file holds when it is opened
  InitTables,          \* tables it holds then
  InitViews,           \* views it holds then
  Enabled,             \* the kinds of request issued, "abandon" if they may be cut off
  MaxRequests,         \* bound: multi-step requests a client issues
  MaxChanges,          \* bound: tables named by one transaction
  COMMIT_MAX_RETRIES   \* redb.rs:75, attempts of one commit

Operation ==
  { "create_namespace", "drop_namespace", "create_table", "stage_create_table",
    "commit", "drop_table", "purge_table", "rename_table", "register_table",
    "create_view", "register_view", "update_view", "drop_view", "rename_view" }

ASSUME NamesAssumption ==
  /\ NsOf \in [Ident -> Namespace]
  /\ ParentOf \in [Namespace -> Namespace \cup {None}]
  /\ InitNamespaces \subseteq Namespace
  /\ InitTables \subseteq Ident
  /\ InitViews \subseteq Ident
  /\ InitTables \cap InitViews = {}
  /\ \A t \in InitTables \cup InitViews : NsOf[t] \in InitNamespaces
  /\ \A n \in InitNamespaces : ParentOf[n] # None => ParentOf[n] \in InitNamespaces

ASSUME BoundsAssumption ==
  /\ Enabled \subseteq Operation \cup {"abandon"}
  /\ MaxRequests \in Nat
  /\ MaxChanges \in Nat \ {0}
  /\ COMMIT_MAX_RETRIES \in Nat \ {0}

VARIABLES
  namespaces,   \* the NAMESPACES relation: the set of its keys
  tables,       \* the TABLES relation: identifier -> record or None
  views,        \* the VIEWS relation
  staged,       \* the STAGED relation: identifier -> metadata file or None
  files,        \* the metadata files the object store holds
  published,    \* every metadata file some record has ever pointed at (history)
  req,          \* the request each client has in flight
  txn,          \* what a commit in flight has prepared so far
  begun,        \* multi-step requests each client has issued
  wrote         \* metadata files each client has written

registry == <<namespaces, tables, views, staged>>
clients  == <<req, txn, begun, wrote>>
vars     == <<namespaces, tables, views, staged, files, published, req, txn, begun, wrote>>

-----------------------------------------------------------------------------
(* Records                                                                  *)

\* Who wrote a file and the how-manieth of theirs it is: metadata_file.rs
\* names every file with a fresh UUID, so no two writes share a name.  The
\* files a catalog starts with were written by nobody now connected.
WriteId == (Client \cup Ident) \X Nat

MetadataFile == Seq(WriteId)

\* TableRecord and ViewRecord: the pointer and its version counter.
Record == [file : MetadataFile, version : Nat]

\* No file and no record is mistaken for none.
ASSUME PointerAssumption == None \notin MetadataFile /\ None \notin Record

\* One table of a commit request.  "append" carries no requirement, "guarded"
\* asserts that the table is what the client last saw (assert-ref-snapshot-id),
\* "create" carries assert-create.
Change == [tab : Ident, kind : {"append", "guarded", "create"}, seen : MetadataFile]

\* What one attempt holds for a change between reading the registry and
\* swapping the pointer.
Prepared == [tab : Ident, expected : Record \cup {None}, file : MetadataFile]

Phase == {"idle", "prepare", "read", "insert", "move", "drop", "delete", "swap",
          "discard", "abort"}

Request == [op : Operation \cup {None}, phase : Phase,
            tab : Ident \cup {None}, dest : Ident \cup {None},
            file : MetadataFile, expected : Record \cup {None}]

Transaction == [changes : Seq(Change), prepared : Seq(Prepared), attempt : 0..COMMIT_MAX_RETRIES]

Idle == [op |-> None, phase |-> "idle", tab |-> None, dest |-> None,
         file |-> <<>>, expected |-> None]

NoTransaction == [changes |-> <<>>, prepared |-> <<>>, attempt |-> 0]

-----------------------------------------------------------------------------
(* Reading and writing the registry                                         *)

NameTakenByTable(t) == tables[t] # None   \* forgets the views

\* reject_taken_name: one namespace holds one kind of thing per name.
NameTaken(t) == tables[t] # None \/ views[t] # None

NamespaceExists(t) == NsOf[t] \in namespaces

\* A file name nobody has used: metadata_file.rs draws a UUID.
FreshId(c) == <<c, wrote[c] + 1>>

\* The files a metadata file's own contents name: every earlier metadata file
\* in its log, and with each the data files that write brought.
Ancestry(f) == {SubSeq(f, 1, i) : i \in 1..Len(f)}

-----------------------------------------------------------------------------
(* Requests                                                                 *)

\* A client with nothing in flight issues the multi-step request r.
Begin(c, r) ==
  /\ r.op \in Enabled
  /\ req[c] = Idle
  /\ begun[c] < MaxRequests
  /\ begun' = [begun EXCEPT ![c] = @ + 1]
  /\ req' = [req EXCEPT ![c] = r]

\* The request "op" on t, whose next step is the given phase.
On(op, phase, t) == [Idle EXCEPT !.op = op, !.phase = phase, !.tab = t]

InPhase(c, op, phase) == req[c].op = op /\ req[c].phase = phase

\* The handler goes on to its next step, carrying the file it has read or written.
Advance(c, phase, f) ==
  req' = [req EXCEPT ![c] = [@ EXCEPT !.phase = phase, !.file = f]]

\* The handler answers, with a result or an error, and holds nothing more.
Finish(c) == req' = [req EXCEPT ![c] = Idle]

\* A metadata document is written under a fresh name.
WriteFile(c, f) ==
  /\ files' = files \cup {f}
  /\ wrote' = [wrote EXCEPT ![c] = @ + 1]

\* The object store holds a file for each table and view the catalog starts with.
SeedFile(t) == << <<t, 0>> >>

SeedRecords(S) ==
  [t \in Ident |-> IF t \in S THEN [file |-> SeedFile(t), version |-> 0] ELSE None]

Init ==
  /\ namespaces = InitNamespaces
  /\ tables = SeedRecords(InitTables)
  /\ views = SeedRecords(InitViews)
  /\ staged = [t \in Ident |-> None]
  /\ files = {SeedFile(t) : t \in InitTables \cup InitViews}
  /\ published = ({"table"} \X {SeedFile(t) : t \in InitTables})
                 \cup ({"view"} \X {SeedFile(v) : v \in InitViews})
  /\ req = [c \in Client |-> Idle]
  /\ txn = [c \in Client |-> NoTransaction]
  /\ begun = [c \in Client |-> 0]
  /\ wrote = [c \in Client |-> 0]

\* The connection drops, or the process dies: the handler stops between two of
\* its steps and undoes nothing.  What it wrote stays.
Abandon(c) ==
  /\ "abandon" \in Enabled
  /\ req[c] # Idle
  /\ Finish(c)
  /\ txn' = [txn EXCEPT ![c] = NoTransaction]
  /\ UNCHANGED <<registry, files, published, begun, wrote>>
=============================================================================
