----------------------------- MODULE Federation ------------------------------
(***************************************************************************)
(* One catalog in front of several (src/catalog/federated.rs).  The first  *)
(* part of a namespace names the mount that answers for it; the mount has  *)
(* never heard of that part, which is taken off on the way down and put    *)
(* back on the way up.  What no mount claims is the native catalog's.      *)
(*                                                                         *)
(* A call is routed and one store called, so it is one step here: the      *)
(* steps inside a store are RedbCatalog's and PostgresCatalog's.  A store  *)
(* keeps what CatalogSpec says; a remote one changes by its own clients,   *)
(* and the calls that would change it through here are refused.            *)
(***************************************************************************)
EXTENDS Paging, FiniteSets

CONSTANTS
  Mount,                 \* names of mounts
  Native,                \* the catalog underneath
  Remote,                \* the mounts whose catalogs other servers keep
  WithoutViews,          \* those of them that serve no views
  ReadOnly,              \* the other mounts the configuration says are read only
  Path,                  \* namespaces, as clients write them: sequences of names
  Ident,                 \* tables and views: a namespace and a name
  InitSpaces, InitTables \* what the stores hold at first, as clients write it

Capability == {"write", "views", "multi_table_commit", "register", "stage_create", "purge"}

Store == Mount \cup {Native}

ASSUME FederationAssumption ==
  /\ Native \notin Mount /\ None \notin Store
  /\ Remote \subseteq Mount /\ ReadOnly \subseteq Mount \ Remote /\ WithoutViews \subseteq Remote
  /\ Path \subseteq Seq(Nat) /\ Ident \subseteq Path \X Nat /\ None \notin Path
  /\ \A p \in Path : p # <<>> /\ (Len(p) > 1 => Front(p) \in Path)
  /\ InitSpaces \subseteq Path \ {<<m>> : m \in Mount}
  /\ InitTables \subseteq Ident /\ \A t \in InitTables : t[1] \in InitSpaces

\* A name is one that there is a place for in the order, and no name and no position in a
\* listing is taken for their absence.
ASSUME NamesAssumption ==
  /\ Mount \subseteq 1..LastName /\ None \notin Nat
  /\ \A p \in Path : \A i \in DOMAIN p : p[i] \in 1..LastName
  /\ \A t \in Ident : t[2] \in 1..LastName
  /\ None \notin [token : Nat \cup {None}, skip : Nat] \cup [phase : {"mounts", "native"}, after : Nat]

VARIABLES
  spaces,     \* per store, the namespaces it holds, by its own names
  tables,     \* per store and identifier of its own, where a table points, or None
  views,      \* the same for views
  staged,     \* the same for tables that are staged
  known,      \* history: <<kind, pointer>> for every pointer there has been
  writes      \* metadata files written so far

stores == <<spaces, tables, views, staged, known, writes>>

-----------------------------------------------------------------------------
(* Names                                                                   *)

Route(p) == IF p # <<>> /\ p[1] \in Mount THEN p[1] ELSE Native

Inner(p) == IF Route(p) = Native THEN p ELSE Tail(p)

InnerIdent(t) == <<Inner(t[1]), t[2]>>

Prefixed(s, p) == IF s = Native THEN p ELSE <<s>> \o p

OwnPath  == {Inner(p) : p \in Path} \ {<<>>}
OwnIdent == {InnerIdent(t) : t \in Ident}

\* A metadata file, by the writes it results from: what a table had at first, and the
\* numbered ones since.
Pointer == Seq(Ident \cup Seq(Nat))

ASSUME PointerAssumption == None \notin Pointer

\* Reading needs no capability but for views, which a remote says it serves or not.
Negotiated(m) == IF m \in WithoutViews THEN {} ELSE {"views"}

Able(m) ==
  IF m \in Remote THEN Negotiated(m) ELSE IF m \in ReadOnly THEN {"views"} ELSE Capability

\* What a catalog can do; the native one can do everything.
CapabilitiesFor(s) == IF s = Native THEN Capability ELSE Able(s)

\* A mount over a catalog that another server keeps would refuse any change itself.
TakesChanges(s) == s \notin Remote

\* What a mount cannot do is refused before it is asked.
Can(s, capability) ==
  capability \in CapabilitiesFor(s) /\ (capability # "views" => TakesChanges(s))

\* A mount's root is no namespace of its store: it is there as long as the mount is.
IsRoot(p) == Route(p) # Native /\ Inner(p) = <<>>

-----------------------------------------------------------------------------
(* A store                                                                 *)

Free(s, t) == tables[s][t] = None /\ views[s][t] = None

HasParent(s, p) == Len(p) = 1 \/ Front(p) \in spaces[s]

CreateSpaceIn(s, p) ==
  /\ p \notin spaces[s] /\ HasParent(s, p)
  /\ spaces' = [spaces EXCEPT ![s] = @ \cup {p}]
  /\ UNCHANGED <<tables, views, staged, known, writes>>

\* Only a namespace that the scans of its prefix find empty.
DropSpaceIn(s, p) ==
  /\ p \in spaces[s]
  /\ \A t \in OwnIdent : t[1] = p /\ InScan(t[2]) => Free(s, t)
  /\ \A q \in spaces[s] : Len(q) > 1 /\ InScan(Last(q)) => Front(q) # p
  /\ spaces' = [spaces EXCEPT ![s] = @ \ {p}]
  /\ staged' = [staged EXCEPT ![s] =
       [t \in OwnIdent |-> IF t[1] = p /\ InScan(t[2]) THEN None ELSE @[t]]]
  /\ UNCHANGED <<tables, views, known, writes>>

\* The metadata file of one more write on top of another, as in CatalogSpec.
NextFile(on) == Append(on, <<writes + 1>>)

Written(kind, on) == writes' = writes + 1 /\ known' = known \cup {<<kind, NextFile(on)>>}

CreateTableIn(s, t) ==
  /\ t[1] \in spaces[s] /\ Free(s, t)
  /\ Written("table", <<>>)
  /\ tables' = [tables EXCEPT ![s][t] = NextFile(<<>>)]
  /\ UNCHANGED <<spaces, views, staged>>

DropTableIn(s, t) ==
  /\ tables[s][t] # None
  /\ tables' = [tables EXCEPT ![s][t] = None]
  /\ UNCHANGED <<spaces, views, staged, known, writes>>

\* All of a transaction's tables at once; one that is not there is made of what is staged.
CommitIn(s, T) ==
  LET base == [t \in T |-> IF tables[s][t] # None THEN tables[s][t] ELSE staged[s][t]]
  IN /\ \A t \in T : /\ base[t] # None /\ views[s][t] = None
                     /\ tables[s][t] = None => t[1] \in spaces[s]
     /\ writes' = writes + 1
     /\ known' = known \cup {<<"table", NextFile(base[t])>> : t \in T}
     /\ tables' = [tables EXCEPT ![s] =
          [t \in OwnIdent |-> IF t \in T THEN NextFile(base[t]) ELSE @[t]]]
     /\ staged' = [staged EXCEPT ![s] =
          [t \in OwnIdent |-> IF t \in T /\ tables[s][t] = None THEN None ELSE @[t]]]
     /\ UNCHANGED <<spaces, views>>

-----------------------------------------------------------------------------
(* Calls                                                                   *)

CreateNamespace(p) ==
  LET s == Route(p) IN Can(s, "write") /\ ~IsRoot(p) /\ CreateSpaceIn(s, Inner(p))

DropNamespace(p) ==
  LET s == Route(p) IN Can(s, "write") /\ ~IsRoot(p) /\ DropSpaceIn(s, Inner(p))

CreateTable(t) ==
  LET s == Route(t[1]) IN Can(s, "write") /\ ~IsRoot(t[1]) /\ CreateTableIn(s, InnerIdent(t))

StageCreateTable(t) ==
  LET s == Route(t[1])
      i == InnerIdent(t)
  IN /\ Can(s, "stage_create") /\ ~IsRoot(t[1])
     /\ i[1] \in spaces[s] /\ tables[s][i] = None
     /\ Written("staged", <<>>)
     /\ staged' = [staged EXCEPT ![s][i] = NextFile(<<>>)]
     /\ UNCHANGED <<spaces, tables, views>>

RegisterTable(t) ==
  LET s == Route(t[1])
      i == InnerIdent(t)
  IN /\ Can(s, "register") /\ ~IsRoot(t[1])
     /\ i[1] \in spaces[s] /\ Free(s, i)
     /\ \E k \in known : k[1] = "table" /\ tables' = [tables EXCEPT ![s][i] = k[2]]
     /\ UNCHANGED <<spaces, views, staged, known, writes>>

\* One table, which needs no more than writing.
CommitTable(t) ==
  LET s == Route(t[1]) IN Can(s, "write") /\ ~IsRoot(t[1]) /\ CommitIn(s, {InnerIdent(t)})

\* The catalogs a transaction touches.
Targets(T) == {Route(t[1]) : t \in T}

CommitTablesAtomic(T) ==
  \E s \in Store :
    /\ Targets(T) = {s} /\ Can(s, "multi_table_commit")
    /\ \A t \in T : ~IsRoot(t[1])
    /\ CommitIn(s, {InnerIdent(t) : t \in T})

DropTable(t) ==
  LET s == Route(t[1]) IN Can(s, "write") /\ ~IsRoot(t[1]) /\ DropTableIn(s, InnerIdent(t))

PurgeTable(t) ==
  LET s == Route(t[1]) IN Can(s, "purge") /\ ~IsRoot(t[1]) /\ DropTableIn(s, InnerIdent(t))

\* Bug: the new name is given to the catalog that has the old one.
TwoCatalogs(from, to) == TRUE

\* Names move within one catalog only.
SameCatalog(from, to) == Route(from[1]) = Route(to[1])

RenameTable(from, to) ==
  LET s == Route(from[1])
      i == InnerIdent(from)
      j == InnerIdent(to)
  IN /\ SameCatalog(from, to) /\ Can(s, "write") /\ ~IsRoot(from[1]) /\ ~IsRoot(to[1])
     /\ tables[s][i] # None /\ j[1] \in spaces[s] /\ Free(s, j)
     /\ tables' = [tables EXCEPT ![s][j] = tables[s][i], ![s][i] = None]
     /\ UNCHANGED <<spaces, views, staged, known, writes>>

\* A view is made or registered at a file, moved on to another, renamed or dropped.
ChangeView(v, capability, change(_, _)) ==
  LET s == Route(v[1])
  IN /\ Can(s, "views") /\ Can(s, capability) /\ ~IsRoot(v[1])
     /\ change(s, InnerIdent(v))
     /\ UNCHANGED <<spaces, tables, staged>>

CreateView(v) == ChangeView(v, "write", LAMBDA s, i :
  /\ i[1] \in spaces[s] /\ Free(s, i)
  /\ Written("view", <<>>) /\ views' = [views EXCEPT ![s][i] = NextFile(<<>>)])

RegisterView(v) == ChangeView(v, "register", LAMBDA s, i :
  /\ i[1] \in spaces[s] /\ Free(s, i)
  /\ \E k \in known : k[1] = "view" /\ views' = [views EXCEPT ![s][i] = k[2]]
  /\ UNCHANGED <<known, writes>>)

UpdateView(v) == ChangeView(v, "write", LAMBDA s, i :
  /\ views[s][i] # None
  /\ Written("view", views[s][i])
  /\ views' = [views EXCEPT ![s][i] = NextFile(@)])

DropView(v) == ChangeView(v, "write", LAMBDA s, i :
  /\ views[s][i] # None /\ views' = [views EXCEPT ![s][i] = None]
  /\ UNCHANGED <<known, writes>>)

RenameView(from, to) == SameCatalog(from, to) /\ ~IsRoot(to[1]) /\
  ChangeView(from, "write", LAMBDA s, i :
    LET j == InnerIdent(to)
    IN /\ views[s][i] # None /\ j[1] \in spaces[s] /\ Free(s, j)
       /\ views' = [views EXCEPT ![s][j] = views[s][i], ![s][i] = None]
       /\ UNCHANGED <<known, writes>>)

-----------------------------------------------------------------------------
(* What a client can list                                                  *)

\* The names a store has under one of its own namespaces.
Rows(kind, s, p) ==
  IF kind = "spaces" THEN {q[Len(q)] : q \in {r \in spaces[s] : Front(r) = p}}
  ELSE LET at == IF kind = "tables" THEN tables[s] ELSE views[s]
       IN {t[2] : t \in {u \in OwnIdent : u[1] = p /\ at[u] # None}}

\* A namespace that resolves: the root and the mounts always do.
NamespaceExists(p) == p = <<>> \/ IsRoot(p) \/ Inner(p) \in spaces[Route(p)]

\* A remote answers with an empty page for the namespaces in one it does not have, and
\* for the views; for the tables, as every other store for whatever it is asked, not at all.
Lists(what) ==
  NamespaceExists(what.of) \/ (Route(what.of) \in Remote /\ what.kind # "tables")

PageOf(s, manner, rows, after, limit) ==
  IF s \in Remote THEN RemotePage(manner, rows, after, limit) ELSE StorePage(rows, after, limit)

ListNamespaces(p, manner, after, limit) ==
  LET rows == Rows("spaces", Route(p), Inner(p))
  IN IF p = <<>> THEN RootPage(Mount, rows, after, limit)
     ELSE PageOf(Route(p), manner, rows, after, limit)

\* A mount's root holds no tables and no views.
ListTables(p, manner, after, limit) ==
  IF IsRoot(p) THEN EmptyPage
  ELSE PageOf(Route(p), manner, Rows("tables", Route(p), Inner(p)), after, limit)

\* A catalog without views has none to list.
ListViews(p, manner, after, limit) ==
  IF IsRoot(p) \/ ~Can(Route(p), "views") THEN EmptyPage
  ELSE PageOf(Route(p), manner, Rows("views", Route(p), Inner(p)), after, limit)

List(what, manner, after, limit) ==
  CASE what.kind = "spaces" -> ListNamespaces(what.of, manner, after, limit)
    [] what.kind = "tables" -> ListTables(what.of, manner, after, limit)
    [] what.kind = "views"  -> ListViews(what.of, manner, after, limit)

-----------------------------------------------------------------------------
\* The server starts only where no mount hides a namespace of the native catalog.
StoresInit ==
  /\ spaces = [s \in Store |-> {Inner(p) : p \in {q \in InitSpaces : Route(q) = s /\ ~IsRoot(q)}}]
  /\ tables = [s \in Store |-> [i \in OwnIdent |->
       IF \E t \in InitTables : Route(t[1]) = s /\ InnerIdent(t) = i
       THEN <<CHOOSE t \in InitTables : Route(t[1]) = s /\ InnerIdent(t) = i>> ELSE None]]
  /\ views = [s \in Store |-> [i \in OwnIdent |-> None]]
  /\ staged = [s \in Store |-> [i \in OwnIdent |-> None]]
  /\ known = {<<"table", <<t>>>> : t \in InitTables}
  /\ writes = 0
=============================================================================
