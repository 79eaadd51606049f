----------------------------- MODULE RedbTables -----------------------------
(***************************************************************************)
(* Namespaces and tables of the redb backend: one action per step of each  *)
(* CatalogStore method of src/catalog/redb.rs.  A method that answers an   *)
(* error before it has changed anything is a request that never began.     *)
(***************************************************************************)
EXTENDS RedbState

(* Namespaces: each method is one write transaction.                        *)

\* create_namespace: the parent and the name are checked inside the transaction.
CreateNamespace(n) ==
  /\ "create_namespace" \in Enabled
  /\ ParentOf[n] # None => ParentOf[n] \in namespaces
  /\ n \notin namespaces
  /\ namespaces' = namespaces \cup {n}
  /\ UNCHANGED <<tables, views, staged, files, published, clients>>

HoldsNoTable(n) ==   \* forgets the nested namespaces
  \A t \in Ident : NsOf[t] = n => tables[t] = None /\ views[t] = None

HoldsNothing(n) ==
  /\ \A t \in Ident : NsOf[t] = n => tables[t] = None /\ views[t] = None
  /\ \A m \in namespaces : ParentOf[m] # n

\* drop_namespace: refused while it holds a table, a view or a namespace; what
\* is staged in it goes with it.
DropNamespace(n) ==
  /\ "drop_namespace" \in Enabled
  /\ n \in namespaces
  /\ HoldsNothing(n)
  /\ namespaces' = namespaces \ {n}
  /\ staged' = [t \in Ident |-> IF NsOf[t] = n THEN None ELSE staged[t]]
  /\ UNCHANGED <<tables, views, files, published, clients>>

-----------------------------------------------------------------------------
(* Creating and staging                                                     *)

\* create_table and stage_create_table open with the namespace check, a read
\* transaction of its own.
CreateStart(c, op, t) ==
  /\ NamespaceExists(t)
  /\ Begin(c, On(op, "prepare", t))
  /\ UNCHANGED <<registry, files, published, txn, wrote>>

CreateTableStart(c, t) == CreateStart(c, "create_table", t)

StageCreateStart(c, t) == CreateStart(c, "stage_create_table", t)

\* Then the name is looked up and the first metadata file written.  The file is
\* under a name nobody else knows, so the two are one step.
FirstFile(c) ==
  LET t == req[c].tab
      f == <<FreshId(c)>>
  IN IF tables[t] # None
     THEN Finish(c) /\ UNCHANGED <<files, wrote>>
     ELSE Advance(c, "insert", f) /\ WriteFile(c, f)

CreateTablePrepare(c) ==
  /\ InPhase(c, "create_table", "prepare")
  /\ FirstFile(c)
  /\ UNCHANGED <<registry, published, txn, begun>>

StageCreatePrepare(c) ==
  /\ InPhase(c, "stage_create_table", "prepare")
  /\ FirstFile(c)
  /\ UNCHANGED <<registry, published, txn, begun>>

\* The record of a new table, unless the name has been taken by either kind.
InsertTable(t, f) ==
  IF NameTaken(t)
  THEN UNCHANGED <<tables, published>>
  ELSE /\ tables' = [tables EXCEPT ![t] = [file |-> f, version |-> 0]]
       /\ published' = published \cup {<<"table", f>>}

\* The write transaction of create_table.
CreateTableInsert(c) ==
  /\ InPhase(c, "create_table", "insert")
  /\ InsertTable(req[c].tab, req[c].file)
  /\ Finish(c)
  /\ UNCHANGED <<namespaces, views, staged, files, txn, begun, wrote>>

\* The write transaction of stage_create_table: it overwrites an earlier staging.
StageCreateInsert(c) ==
  /\ InPhase(c, "stage_create_table", "insert")
  /\ staged' = [staged EXCEPT ![req[c].tab] = req[c].file]
  /\ published' = published \cup {<<"staged", req[c].file>>}
  /\ Finish(c)
  /\ UNCHANGED <<namespaces, tables, views, files, txn, begun, wrote>>

-----------------------------------------------------------------------------
(* Registering an existing metadata file                                    *)

RegisterTableStart(c, t) ==
  /\ NamespaceExists(t)
  /\ Begin(c, On("register_table", "read", t))
  /\ UNCHANGED <<registry, files, published, txn, wrote>>

\* The caller names a metadata file; one it can know of was once published.
RegisterTableRead(c, f) ==
  /\ InPhase(c, "register_table", "read")
  /\ <<"table", f>> \in published
  /\ IF tables[req[c].tab] = None /\ f \in files
     THEN Advance(c, "insert", f)
     ELSE Finish(c)
  /\ UNCHANGED <<registry, files, published, txn, begun, wrote>>

RegisterTableInsert(c) ==
  /\ InPhase(c, "register_table", "insert")
  /\ InsertTable(req[c].tab, req[c].file)
  /\ Finish(c)
  /\ UNCHANGED <<namespaces, views, staged, files, txn, begun, wrote>>

-----------------------------------------------------------------------------
(* Dropping, purging and renaming                                           *)

\* drop_table: one write transaction, no questions about which table it is.
DropTable(t) ==
  /\ "drop_table" \in Enabled
  /\ tables[t] # None
  /\ tables' = [tables EXCEPT ![t] = None]
  /\ UNCHANGED <<namespaces, views, staged, files, published, clients>>

PurgeStart(c, t, first) ==
  /\ tables[t] # None
  /\ tables[t].file \in files
  /\ Begin(c, [On("purge_table", first, t) EXCEPT !.file = tables[t].file])
  /\ UNCHANGED <<registry, files, published, txn, wrote>>

PurgeTableDeleteFirst(c, t) == PurgeStart(c, t, "delete")   \* files before the name

\* purge_table: load the table, drop the name, delete what was loaded.
PurgeTableLoad(c, t) == PurgeStart(c, t, "drop")

PurgeTableDrop(c) ==
  /\ InPhase(c, "purge_table", "drop")
  /\ IF tables[req[c].tab] # None
     THEN /\ tables' = [tables EXCEPT ![req[c].tab] = None]
          /\ Advance(c, "delete", req[c].file)
     ELSE /\ Finish(c)
          /\ UNCHANGED tables
  /\ UNCHANGED <<namespaces, views, staged, files, published, txn, begun, wrote>>

\* purge_table_data: every file the loaded metadata names, in all its snapshots.
PurgeTableDelete(c) ==
  /\ InPhase(c, "purge_table", "delete")
  /\ files' = files \ Ancestry(req[c].file)
  /\ Finish(c)
  /\ UNCHANGED <<registry, published, txn, begun, wrote>>

\* rename_table: the destination's namespace is checked first, on its own.
RenameTableStart(c, s, d) ==
  /\ s # d
  /\ NamespaceExists(d)
  /\ Begin(c, [On("rename_table", "move", s) EXCEPT !.dest = d])
  /\ UNCHANGED <<registry, files, published, txn, wrote>>

\* The record moves with its pointer, and its version moves on.
RenameTableMove(c) ==
  /\ InPhase(c, "rename_table", "move")
  /\ LET s == req[c].tab
         d == req[c].dest
     IN IF tables[s] # None /\ ~NameTaken(d)
        THEN tables' = [tables EXCEPT
               ![d] = [tables[s] EXCEPT !.version = @ + 1], ![s] = None]
        ELSE UNCHANGED tables
  /\ Finish(c)
  /\ UNCHANGED <<namespaces, views, staged, files, published, txn, begun, wrote>>
=============================================================================
