----------------------------- MODULE RedbCatalog -----------------------------
(***************************************************************************)
(* The redb catalog backend: namespaces, tables, commits and views over one*)
(* registry and one object store, and what must hold of them together.     *)
(***************************************************************************)
EXTENDS RedbTables, RedbCommit, RedbViews

\* A request arrives, or is served by a single transaction.
Arrive(c) ==
  \/ \E t \in Ident : CreateTableStart(c, t)
  \/ \E t \in Ident : StageCreateStart(c, t)
  \/ \E t \in Ident : RegisterTableStart(c, t)
  \/ \E t \in Ident : PurgeTableLoad(c, t)
  \/ \E s, d \in Ident : RenameTableStart(c, s, d)
  \/ CommitStart(c)
  \/ \E v \in Ident : CreateViewStart(c, v)
  \/ \E v \in Ident : RegisterViewStart(c, v)
  \/ \E v \in Ident : UpdateViewStart(c, v)
  \/ \E s, d \in Ident : RenameViewStart(c, s, d)

\* A request that has begun goes on.
Continue(c) ==
  \/ CreateTablePrepare(c)
  \/ CreateTableInsert(c)
  \/ StageCreatePrepare(c)
  \/ StageCreateInsert(c)
  \/ \E k \in published : RegisterTableRead(c, k[2])
  \/ RegisterTableInsert(c)
  \/ PurgeTableDrop(c)
  \/ PurgeTableDelete(c)
  \/ RenameTableMove(c)
  \/ CommitPrepare(c)
  \/ CommitRefused(c)
  \/ CommitNotFound(c)
  \/ CommitSwap(c)
  \/ CommitSwapLost(c)
  \/ CommitDiscard(c)
  \/ CreateViewPrepare(c)
  \/ \E k \in published : RegisterViewRead(c, k[2])
  \/ ViewInsert(c)
  \/ UpdateViewPrepare(c)
  \/ UpdateViewSwap(c)
  \/ RenameViewMove(c)

Immediate ==
  \/ \E n \in Namespace : CreateNamespace(n) \/ DropNamespace(n)
  \/ \E t \in Ident : DropTable(t)
  \/ \E v \in Ident : DropView(v)

Next == Immediate \/ \E c \in Client : Arrive(c) \/ Continue(c) \/ Abandon(c)

Spec == Init /\ [][Next]_vars

\* The server's executor runs every task it holds: a handler that can go on does.
FairSpec == Spec /\ \A c \in Client : WF_vars(Continue(c))

-----------------------------------------------------------------------------
\* What a handler carries fits the step it is at: its names are identifiers, and
\* a commit has changes left to prepare, or none and goes on to the swap.
RequestsFitPhase ==
  \A c \in Client : req[c].phase # "idle" =>
    /\ req[c].op # "commit" => req[c].tab \in Ident
    /\ req[c].phase = "move" => req[c].dest \in Ident
    /\ req[c].op = "commit" =>
         IF req[c].phase = "prepare"
         THEN Len(txn[c].prepared) < Len(txn[c].changes)
         ELSE txn[c].prepared # <<>> /\ Len(txn[c].prepared) = Len(txn[c].changes)

\* Type correctness: every relation of the redb file holds what redb.rs:122-143
\* serialises into it, and a handler carries what its code keeps in variables.
TypeOK ==
  /\ namespaces \subseteq Namespace
  /\ tables \in [Ident -> Record \cup {None}]
  /\ views \in [Ident -> Record \cup {None}]
  /\ staged \in [Ident -> MetadataFile \cup {None}]
  /\ files \subseteq MetadataFile
  /\ published \subseteq {"table", "view", "staged"} \X MetadataFile
  /\ req \in [Client -> Request]
  /\ txn \in [Client -> Transaction]
  /\ begun \in [Client -> 0..MaxRequests]
  /\ wrote \in [Client -> Nat]
  /\ RequestsFitPhase

\* Safety.  A table and a view never hold one name, although their creation,
\* registration and renaming go through different transactions and a staged
\* create reads the views inside its own (redb.rs:182-198 and 1759-1768).
OneKindPerName == \A t \in Ident : tables[t] = None \/ views[t] = None

Live == {t \in Ident : tables[t] # None}
LiveViews == {v \in Ident : views[v] # None}

\* Safety.  What a table points at is in the object store, with every file of its
\* history (a reader may travel back to any snapshot), and so is what a view or a
\* staging points at: neither the cleanup of a lost commit (redb.rs:1809-1821) nor
\* a purge, which loads, drops and deletes in three steps, takes a file in use.
HistoryReadable ==
  /\ \A t \in Live : Ancestry(tables[t].file) \subseteq files
  /\ \A v \in LiveViews : views[v].file \in files
  /\ \A t \in Ident : staged[t] # None => staged[t] \in files

-----------------------------------------------------------------------------
\* The pointer has moved to a file written on top of the one it was at.
WrittenOnto(new, old) ==
  /\ Len(new) = Len(old) + 1
  /\ SubSeq(new, 1, Len(old)) = old

\* Action property.  No commit is lost: while a name stays a table (or a view),
\* its pointer only moves to a file written on top of the one it was at, however
\* the optimistic commits, retries, drops and renames of others interleave
\* (redb.rs:1729-1749 for tables, 1451-1466 for views).
PointersGrow ==
  /\ \A t \in Live \cap Live' :
       tables'[t].file # tables[t].file => WrittenOnto(tables'[t].file, tables[t].file)
  /\ \A v \in LiveViews \cap LiveViews' :
       views'[v].file # views[v].file => WrittenOnto(views'[v].file, views[v].file)

LinearHistory == [][PointersGrow]_vars

\* This step is the one that makes the table file f current for the first time.
Publishes(f) == <<"table", f>> \notin published /\ <<"table", f>> \in published'

\* Action property.  A multi-table transaction lands whole or not at all: the
\* step that makes one of its files current makes all of them current, and there
\* is one for every table the request named (redb.rs:1569-1577 and 1684-1794).
AtomicTransaction ==
  [][\A c \in Client :
       LET all == txn[c].prepared
       IN (\E i \in DOMAIN all : Publishes(all[i].file))
          => /\ Len(all) = Len(txn[c].changes)
             /\ \A i \in DOMAIN all :
                  tables'[all[i].tab] # None /\ tables'[all[i].tab].file = all[i].file]_vars

\* Safety.  A namespace's parent exists as long as it does (redb.rs:664-719
\* checks the parent and 770-854 the children, each inside its transaction).
NamespaceTree == \A n \in namespaces : ParentOf[n] # None => ParentOf[n] \in namespaces

\* Safety.  Every table and view is in a namespace that exists: "a namespace
\* cannot be dropped out from under them and a view cannot be created in a
\* namespace that is concurrently being removed" (redb.rs:109-111).
ContentsHaveNamespace == \A t \in Live \cup LiveViews : NsOf[t] \in namespaces

\* Every file the registry or a request in flight still accounts for.
Reachable ==
  (UNION {Ancestry(k[2]) : k \in published})
  \cup (UNION {{txn[c].prepared[i].file : i \in DOMAIN txn[c].prepared} : c \in Client})
  \cup {req[c].file : c \in Client}

\* Safety.  A contended commit leaves nothing behind: every file in the store is
\* one the catalog has pointed at, or one a request is still holding (the aim
\* redb.rs:1797-1808 states for the cleanup after a lost swap).
NoLitter == files \subseteq Reachable

-----------------------------------------------------------------------------
PointerOf(rel) == [t \in Ident |-> IF rel[t] = None THEN None ELSE rel[t].file]

Abstract == INSTANCE CatalogSpec WITH
  tableAt <- PointerOf(tables), viewAt <- PointerOf(views), stagedAt <- staged,
  known <- published, SeedPointer <- SeedFile

\* Refinement.  Seen through its pointers the backend is the abstract catalog:
\* each method, however many steps it takes and files it writes, changes the
\* registry at one moment, by one legal move, and a failed one not at all.
Linearizable == Abstract!AbsSpec

\* Liveness.  Every request is answered: a commit that keeps losing gives up
\* after COMMIT_MAX_RETRIES attempts (redb.rs:1190-1232).
RequestsEnd == \A c \in Client : req[c] # Idle ~> req[c] = Idle
=============================================================================
