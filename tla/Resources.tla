------------------------------ MODULE Resources ------------------------------
(***************************************************************************)
(* Tables and views, and where each keeps its files: the table and view    *)
(* handlers of src/catalog/v1 over the catalogs that hold the names        *)
(* (src/catalog/redb.rs, src/catalog/federated.rs), as far as locations    *)
(* go.  The calls are atomic here; their steps are RedbCatalog's and       *)
(* Handlers'.                                                              *)
(***************************************************************************)
EXTENDS Locations

CONSTANTS
  Ident,       \* names: <<namespace, name>>, in namespaces there are
  Mount,       \* the first levels that are mounts
  Native,      \* the catalog of every other name
  Warehouse,   \* per catalog its warehouse, None where it is the storage of a remote catalog
  Place        \* locations a client, or a remote catalog, may write down

Catalog == Mount \cup {Native}

ASSUME ResourcesAssumption ==
  /\ \A i \in Ident : i[1] # <<>>
  /\ Warehouse[Native] # None

VARIABLES
  scope,    \* storage.location_scope
  held,     \* what each name holds: where it is, and the files its metadata names
  staged    \* tables staged and not committed

resources == <<scope, held, staged>>

\* `names' is history: every name the resource has had.
Resource(kind, l, i) == [kind |-> kind, at |-> l, files |-> {}, names |-> {i}]

-----------------------------------------------------------------------------
(* Which warehouse governs a name, and the bound it puts on the name        *)

Governing(p) == IF p[1] \in Mount THEN p[1] ELSE Native

Inner(p) == IF p[1] \in Mount THEN Tail(p) ELSE p

WarehouseFor(p) ==
  IF Warehouse[Governing(p)] = None THEN Warehouse[Native] ELSE Warehouse[Governing(p)]

NamespacePrefixFor(p) ==
  IF Warehouse[Governing(p)] = None THEN NamespacePrefix(Warehouse[Native], p)
  ELSE NamespacePrefix(Warehouse[Governing(p)], Inner(p))

Bound(i) == LocationBound(scope, WarehouseFor(i[1]), NamespacePrefixFor(i[1]), i[2])

\* The place a name puts a resource, whatever the scope.
PlaceOf(i) == LocationBound("table", WarehouseFor(i[1]), NamespacePrefixFor(i[1]), i[2])

\* Where the storage the server vends for and signs for is its own to manage.
ManagesStorageFor(p, l) ==
  Warehouse[Governing(p)] # None /\ IsWithin(Warehouse[Governing(p)], l)

\* Names a catalog of ours writes: one mounted from elsewhere takes no changes from us.
Ours(i) ==
  /\ Warehouse[Governing(i[1])] # None /\ Inner(i[1]) # <<>>
  /\ ValidNamespace(i[1]) /\ ValidName(i[2])

-----------------------------------------------------------------------------
(* Defaults                                                                 *)

\* The warehouse, a slash, and the name: a warehouse written with a slash at its end keeps it.
TableLocation(i) ==
  LET warehouse == Warehouse[Governing(i[1])]
  IN [scheme |-> warehouse.scheme, path |-> warehouse.path \o Append(Inner(i[1]), i[2])]

\* The handler's, which names a mount too.
ViewLocation(i) == CanonicalPrefix(WarehouseFor(i[1]), i[1], i[2])

\* Where one of these may be without its client having said so.
Default(kind, i) == IF kind = "view" THEN ViewLocation(i) ELSE TableLocation(i)

\* Warehouses are written without a slash at their end, and climb nowhere.
ASSUME WarehousesAssumption ==
  \A i \in Ident :
    /\ IsLocation(PlaceOf(i)) /\ IsLocation(ViewLocation(i)) /\ IsLocation(WarehouseFor(i[1]))
    /\ Ours(i) => /\ IsWithin(PlaceOf(i), TableLocation(i)) /\ IsLocation(TableLocation(i))
                  /\ IsWithin(ViewLocation(i), ViewLocation(i))
                  /\ IsWithin(WarehouseFor(i[1]), PlaceOf(i))
                  /\ IsWithin(WarehouseFor(i[1]), ViewLocation(i))

-----------------------------------------------------------------------------
(* Operations                                                               *)

\* What a client declares is within the bound, or it declares nothing.
Declared(kind, i, l) == IF l = None THEN Default(kind, i) ELSE l

Accepts(i, l) == l # None => IsWithin(Bound(i), l)

CreateTable(i, l) ==
  /\ Ours(i) /\ Accepts(i, l) /\ held[i] = None
  /\ held' = [held EXCEPT ![i] = Resource("table", Declared("table", i, l), i)]
  /\ UNCHANGED <<scope, staged>>

\* A view of the name does not stop it being staged.
StageCreateTable(i, l) ==
  /\ Ours(i) /\ Accepts(i, l) /\ (held[i] # None => held[i].kind = "view")
  /\ staged' = [staged EXCEPT ![i] = Resource("table", Declared("table", i, l), i)]
  /\ UNCHANGED <<scope, held>>

\* What a commit does to a table: it may move it, and name files in a list that is its own.
\* Which files the list names nobody looks at.
Committed(table, l, list, file) ==
  [table EXCEPT !.at = IF l = None THEN @ ELSE l,
                !.files = IF list = None THEN @ ELSE @ \cup {list, file}]

\* Bug: a table is moved by its own leave.
MayMoveAnywhere(bound, table, l, list) == list # None => EnsureOwned(table.at, list)

MayCommit(bound, table, l, list) ==
  /\ l # None => EnsureCommit(bound, table.at, l)
  /\ list # None => EnsureOwned(table.at, list)

CommitTable(i, l, list, file) ==
  /\ Ours(i) /\ held[i] # None /\ held[i].kind = "table"
  /\ MayCommit(Bound(i), held[i], l, list)
  /\ held' = [held EXCEPT ![i] = Committed(@, l, list, file)]
  /\ UNCHANGED <<scope, staged>>

CommitStaged(i, l, list, file) ==
  /\ Ours(i) /\ held[i] = None /\ staged[i] # None
  /\ MayCommit(Bound(i), staged[i], l, list)
  /\ held' = [held EXCEPT ![i] = Committed(staged[i], l, list, file)]
  /\ staged' = [staged EXCEPT ![i] = None]
  /\ UNCHANGED scope

\* The metadata file registered is within the bound, and so is the location it declares;
\* the files it names may be anywhere.
Register(kind, i, file, l, named) ==
  /\ Ours(i) /\ held[i] = None
  /\ IsWithin(Bound(i), file) /\ IsWithin(Bound(i), l)
  /\ held' = [held EXCEPT ![i] = [Resource(kind, l, i) EXCEPT !.files = {file, named}]]
  /\ UNCHANGED <<scope, staged>>

\* Only the name changes: the files stay where they are.
Rename(i, j) ==
  /\ Ours(i) /\ Ours(j) /\ Governing(i[1]) = Governing(j[1])
  /\ held[i] # None /\ held[j] = None
  /\ held' = [held EXCEPT ![j] = [held[i] EXCEPT !.names = @ \cup {j}], ![i] = None]
  /\ UNCHANGED <<scope, staged>>

Drop(i) ==
  /\ Ours(i) /\ held[i] # None
  /\ held' = [held EXCEPT ![i] = None]
  /\ UNCHANGED <<scope, staged>>

\* Of the files a table's metadata names, those a purge deletes.
Deletes(table) == {f \in table.files : IsWithin(table.at, f)}

CreateView(i, l) ==
  /\ Ours(i) /\ Accepts(i, l) /\ held[i] = None
  /\ held' = [held EXCEPT ![i] = Resource("view", Declared("view", i, l), i)]
  /\ UNCHANGED <<scope, staged>>

CommitView(i, l) ==
  /\ Ours(i) /\ held[i] # None /\ held[i].kind = "view"
  /\ EnsureCommit(Bound(i), held[i].at, l)
  /\ held' = [held EXCEPT ![i].at = l]
  /\ UNCHANGED <<scope, staged>>

\* A remote catalog's own clients put its tables where they like.
ChangesElsewhere(i, l, f) ==
  /\ Warehouse[Governing(i[1])] = None /\ Inner(i[1]) # <<>>
  /\ held' = [held EXCEPT ![i] = [Resource("table", l, i) EXCEPT !.files = {f}]]
  /\ UNCHANGED <<scope, staged>>

ResourcesInit(start) ==
  /\ scope \in {"table", "warehouse"}
  /\ held = start
  /\ staged = [i \in Ident |-> None]

\* The places and the files are those a client thinks of.
Changed(i, places, files) ==
  \/ \E l \in places \cup {None} :
       \/ CreateTable(i, l) \/ StageCreateTable(i, l) \/ CreateView(i, l)
       \/ \E list \in files \cup {None}, f \in files :
            CommitTable(i, l, list, f) \/ CommitStaged(i, l, list, f)
  \/ \E l \in places : CommitView(i, l)
  \/ \E kind \in {"table", "view"}, file, named \in files, l \in places :
       Register(kind, i, file, l, named)
  \/ \E j \in Ident : Rename(i, j)
  \/ Drop(i)
  \/ \E l \in places, f \in files : ChangesElsewhere(i, l, f)
=============================================================================
