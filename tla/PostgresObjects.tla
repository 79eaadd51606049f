--------------------------- MODULE PostgresObjects ---------------------------
(***************************************************************************)
(* The CatalogStore methods of src/catalog/postgres.rs, save the commit.   *)
(* Those on tables and on views run the same statements on one relation or *)
(* the other, so an action takes the kind.  A method that fails before it  *)
(* has changed anything is a request that never began.                     *)
(***************************************************************************)
EXTENDS PostgresState

(* Namespaces: one statement each, which the foreign keys may refuse.       *)

CreateNamespace(n) ==
  /\ "create_namespace" \in Enabled
  /\ n \notin namespaces
  /\ ParentOf[n] # None => ParentOf[n] \in namespaces
  /\ namespaces' = namespaces \cup {n}
  /\ UNCHANGED <<names, at, staged, files, published, req, txn, held, begun, wrote>>

\* Nothing refers to the namespace: no name in use, no nested namespace.
Unreferenced(n) ==
  /\ \A t \in names : NsOf[t] # n
  /\ \A m \in namespaces : ParentOf[m] # n

\* drop_namespace waits for every transaction that claims or releases a name in
\* it.  What is staged in it goes with it.
DropNamespace(n) ==
  /\ "drop_namespace" \in Enabled
  /\ n \in namespaces
  /\ \A c \in Client, r \in Row : r \in held[c] /\ r[1] = "name" => NsOf[r[2]] # n
  /\ Unreferenced(n)
  /\ namespaces' = namespaces \ {n}
  /\ staged' = [t \in Ident |-> IF NsOf[t] = n THEN None ELSE staged[t]]
  /\ UNCHANGED <<names, at, files, published, req, txn, held, begun, wrote>>

-----------------------------------------------------------------------------
(* Creating, staging and registering                                        *)

\* create_table asks nothing first; create_view and stage_create_table look for
\* the namespace, and a staging for a table.  The first file is written before
\* any transaction opens.
CreateWrite(c, op, kind, t) ==
  /\ op = "stage" \/ kind = "view" => NamespaceExists(t)
  /\ op = "stage" => kind = "table" /\ at["table"][t] = None
  /\ LET f == << FreshId(c) >>
     IN /\ Begin(c, [On(op, kind, "insert", t) EXCEPT !.file = f])
        /\ WriteFile(c, f)
  /\ UNCHANGED <<relations, published, txn, held>>

\* register_table, register_view: the namespace is there, and so is the file.
RegisterRead(c, kind, t, f) ==
  /\ NamespaceExists(t)
  /\ <<kind, f>> \in published /\ f \in files
  /\ Begin(c, [On("register", kind, "insert", t) EXCEPT !.file = f])
  /\ UNCHANGED <<relations, files, published, txn, held, wrote>>

\* The transaction of all four: claim the name, insert the row.
Insert(c) ==
  /\ req[c].op \in {"create", "register"}
  /\ req[c].phase = "insert"
  /\ LET t == req[c].tab
     IN /\ ~Locked(c, <<"name", t>>)
        /\ IF ReferenceHolds(t) /\ ~NameTaken(t)
           THEN /\ names' = names \cup {t}
                /\ at' = [at EXCEPT ![req[c].kind][t] = req[c].file]
                /\ published' = published \cup {<<req[c].kind, req[c].file>>}
           ELSE UNCHANGED <<names, at, published>>
  /\ Finish(c)
  /\ UNCHANGED <<namespaces, staged, files, txn, begun, wrote>>

\* The upsert of stage_create_table: it replaces an earlier staging.
StageUpsert(c) ==
  /\ InPhase(c, "stage", "insert")
  /\ LET t == req[c].tab
     IN /\ ~Locked(c, <<"staged", t>>)
        /\ IF ReferenceHolds(t)
           THEN /\ staged' = [staged EXCEPT ![t] = req[c].file]
                /\ published' = published \cup {<<"staged", req[c].file>>}
           ELSE UNCHANGED <<staged, published>>
  /\ Finish(c)
  /\ UNCHANGED <<namespaces, names, at, files, txn, begun, wrote>>

-----------------------------------------------------------------------------
(* Dropping and purging: release_if_held_by, one statement with two locks   *)

\* It finds the name held by this kind, and locks it.
DropName(c, kind, t) ==
  /\ at[kind][t] # None
  /\ ~Locked(c, <<"name", t>>)
  /\ Begin(c, On("drop", kind, "cascade", t))
  /\ Lock(c, {<<"name", t>>})
  /\ UNCHANGED <<relations, files, published, txn, wrote>>

\* purge_table loads the table first.
PurgeLoad(c, t) ==
  /\ at["table"][t] # None
  /\ at["table"][t] \in files
  /\ Begin(c, [On("purge", "table", "drop", t) EXCEPT !.file = at["table"][t]])
  /\ UNCHANGED <<relations, files, published, txn, held, wrote>>

PurgeName(c) ==
  /\ InPhase(c, "purge", "drop")
  /\ ~Locked(c, <<"name", req[c].tab>>)
  /\ IF at["table"][req[c].tab] = None
     THEN Finish(c)
     ELSE GoTo(c, "cascade") /\ Lock(c, {<<"name", req[c].tab>>})
  /\ UNCHANGED <<relations, files, published, txn, begun, wrote>>

\* The foreign key cascades to the row, once nobody else holds it.
Cascade(c) ==
  /\ req[c].phase = "cascade"
  /\ LET t == req[c].tab
         k == req[c].kind
     IN /\ ~Locked(c, <<k, t>>)
        /\ names' = names \ {t}
        /\ at' = [at EXCEPT ![k][t] = None]
  /\ held' = [held EXCEPT ![c] = {}]
  /\ req' = [req EXCEPT ![c] =
               IF req[c].op = "purge" THEN [@ EXCEPT !.phase = "delete"] ELSE Idle]
  /\ UNCHANGED <<namespaces, staged, files, published, txn, begun, wrote>>

\* purge_table_data: every file the loaded metadata names.
PurgeDelete(c) ==
  /\ InPhase(c, "purge", "delete")
  /\ files' = files \ Ancestry(req[c].file)
  /\ Finish(c)
  /\ UNCHANGED <<relations, published, txn, begun, wrote>>

-----------------------------------------------------------------------------
(* Renaming: claim the new name, move the row, release the old name         *)

RenameClaim(c, kind, s, d) ==
  /\ kind = "view" => s # d
  /\ ~Locked(c, <<"name", d>>)
  /\ ReferenceHolds(d) /\ ~NameTaken(d)
  /\ Begin(c, [On("rename", kind, "row", s) EXCEPT !.dest = d])
  /\ Lock(c, {<<"name", d>>})
  /\ UNCHANGED <<relations, files, published, txn, wrote>>

RenameRow(c) ==
  /\ InPhase(c, "rename", "row")
  /\ LET r == <<req[c].kind, req[c].tab>>
     IN /\ ~Locked(c, r)
        /\ IF at[r[1]][r[2]] = None
           THEN Finish(c)
           ELSE GoTo(c, "release") /\ Lock(c, {r})
  /\ UNCHANGED <<relations, files, published, txn, begun, wrote>>

NamesAfterRename(c) == (names \cup {req[c].dest}) \ {req[c].tab}

RenameRelease(c) ==
  /\ InPhase(c, "rename", "release")
  /\ ~Locked(c, <<"name", req[c].tab>>)
  /\ names' = NamesAfterRename(c)
  /\ LET k == req[c].kind
         s == req[c].tab
     IN at' = [at EXCEPT ![k][req[c].dest] = at[k][s], ![k][s] = None]
  /\ Finish(c)
  /\ UNCHANGED <<namespaces, staged, files, published, txn, begun, wrote>>

-----------------------------------------------------------------------------
(* Updating a view                                                          *)

\* commit_view loads the view and update_view writes the rewrite of it, whatever
\* the view points at by then.
UpdateViewWrite(c, v) ==
  /\ at["view"][v] # None
  /\ at["view"][v] \in files
  /\ LET f == Append(at["view"][v], FreshId(c))
     IN /\ Begin(c, [On("update_view", "view", "swap", v) EXCEPT
                       !.file = f, !.expected = at["view"][v]])
        /\ WriteFile(c, f)
  /\ UNCHANGED <<relations, published, txn, held>>

\* The update is conditional on the location the handler loaded.
WitnessHolds(c) == at["view"][req[c].tab] = req[c].expected

UpdateViewSwap(c) ==
  /\ InPhase(c, "update_view", "swap")
  /\ ~Locked(c, <<"view", req[c].tab>>)
  /\ IF WitnessHolds(c)
     THEN /\ at' = [at EXCEPT !["view"][req[c].tab] = req[c].file]
          /\ published' = published \cup {<<"view", req[c].file>>}
     ELSE UNCHANGED <<at, published>>
  /\ Finish(c)
  /\ UNCHANGED <<namespaces, names, staged, files, txn, begun, wrote>>
=============================================================================
