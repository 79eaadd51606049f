------------------------------ MODULE RedbViews ------------------------------
(***************************************************************************)
(* Views of the redb backend (src/catalog/redb.rs).  A view is updated by  *)
(* the handler of src/catalog/v1/view.rs: it loads the view, checks and    *)
(* rewrites what it loaded, and hands the location it loaded back to       *)
(* update_view as the witness of what the rewrite was made from.           *)
(***************************************************************************)
EXTENDS RedbState

\* create_view: the namespace is checked, and never looked at again.
CreateViewStart(c, v) ==
  /\ NamespaceExists(v)
  /\ Begin(c, On("create_view", "prepare", v))
  /\ UNCHANGED <<registry, files, published, txn, wrote>>

\* The first metadata file is written, whoever holds the name.
CreateViewPrepare(c) ==
  /\ InPhase(c, "create_view", "prepare")
  /\ LET f == <<FreshId(c)>> IN Advance(c, "insert", f) /\ WriteFile(c, f)
  /\ UNCHANGED <<registry, published, txn, begun>>

\* The record of a new view, unless the name has been taken by either kind.
InsertView(v, f) ==
  IF NameTaken(v)
  THEN UNCHANGED <<views, published>>
  ELSE /\ views' = [views EXCEPT ![v] = [file |-> f, version |-> 0]]
       /\ published' = published \cup {<<"view", f>>}

\* The write transaction that create_view and register_view end in.
ViewInsert(c) ==
  /\ req[c].op \in {"create_view", "register_view"}
  /\ req[c].phase = "insert"
  /\ InsertView(req[c].tab, req[c].file)
  /\ Finish(c)
  /\ UNCHANGED <<namespaces, tables, staged, files, txn, begun, wrote>>

\* register_view: the namespace check, then a metadata file the caller names.
RegisterViewStart(c, v) ==
  /\ NamespaceExists(v)
  /\ Begin(c, On("register_view", "read", v))
  /\ UNCHANGED <<registry, files, published, txn, wrote>>

RegisterViewRead(c, f) ==
  /\ InPhase(c, "register_view", "read")
  /\ <<"view", f>> \in published
  /\ IF f \in files THEN Advance(c, "insert", f) ELSE Finish(c)
  /\ UNCHANGED <<registry, files, published, txn, begun, wrote>>

-----------------------------------------------------------------------------
(* Updating                                                                 *)

\* commit_view loads the view: what it read is the witness.
UpdateViewStart(c, v) ==
  /\ views[v] # None
  /\ views[v].file \in files
  /\ Begin(c, [On("update_view", "prepare", v) EXCEPT !.file = views[v].file])
  /\ UNCHANGED <<registry, files, published, txn, wrote>>

\* update_view refuses a witness that is no longer the view's pointer.
WitnessHolds(c) ==
  /\ views[req[c].tab] # None
  /\ views[req[c].tab].file = req[c].file

\* The rewrite of what the handler loaded is written as the next file.
UpdateViewPrepare(c) ==
  /\ InPhase(c, "update_view", "prepare")
  /\ IF WitnessHolds(c)
     THEN LET f == Append(req[c].file, FreshId(c))
          IN /\ req' = [req EXCEPT ![c] = [req[c] EXCEPT
                   !.phase = "swap", !.file = f, !.expected = views[req[c].tab]]]
             /\ WriteFile(c, f)
     ELSE Finish(c) /\ UNCHANGED <<files, wrote>>
  /\ UNCHANGED <<registry, published, txn, begun>>

VersionUnmoved(c) ==   \* the counter alone, which starts again with a new view
  views[req[c].tab] # None /\ views[req[c].tab].version = req[c].expected.version

Unmoved(c) == views[req[c].tab] # None /\ views[req[c].tab] = req[c].expected

\* The write transaction: the pointer moves if the record is the one that was
\* read.  The file of an update that lost stays where it was written.
UpdateViewSwap(c) ==
  /\ InPhase(c, "update_view", "swap")
  /\ LET v == req[c].tab
     IN IF Unmoved(c)
        THEN /\ views' = [views EXCEPT ![v] =
                   [file |-> req[c].file, version |-> req[c].expected.version + 1]]
             /\ published' = published \cup {<<"view", req[c].file>>}
        ELSE UNCHANGED <<views, published>>
  /\ Finish(c)
  /\ UNCHANGED <<namespaces, tables, staged, files, txn, begun, wrote>>

-----------------------------------------------------------------------------
(* Dropping and renaming                                                    *)

DropView(v) ==
  /\ "drop_view" \in Enabled
  /\ views[v] # None
  /\ views' = [views EXCEPT ![v] = None]
  /\ UNCHANGED <<namespaces, tables, staged, files, published, clients>>

\* rename_view: the destination's namespace is checked first, on its own.
RenameViewStart(c, s, d) ==
  /\ s # d
  /\ NamespaceExists(d)
  /\ Begin(c, [On("rename_view", "move", s) EXCEPT !.dest = d])
  /\ UNCHANGED <<registry, files, published, txn, wrote>>

RenameViewMove(c) ==
  /\ InPhase(c, "rename_view", "move")
  /\ LET s == req[c].tab
         d == req[c].dest
     IN IF views[s] # None /\ ~NameTaken(d)
        THEN views' = [views EXCEPT
               ![d] = [views[s] EXCEPT !.version = @ + 1], ![s] = None]
        ELSE UNCHANGED views
  /\ Finish(c)
  /\ UNCHANGED <<namespaces, tables, staged, files, published, txn, begun, wrote>>
=============================================================================
