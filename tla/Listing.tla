------------------------------- MODULE Listing -------------------------------
(***************************************************************************)
(* Clients that list what they may see, page after page                    *)
(* (src/catalog/v1/pagination.rs and the list handlers of namespace.rs,    *)
(* table.rs and view.rs), while catalogs change under them.  A page is     *)
(* filled from several fetches where rows are hidden from the client, and  *)
(* between two fetches anything else may run.                              *)
(***************************************************************************)
EXTENDS Federation

CONSTANTS
  Client,
  MaxScan, MaxFetches,   \* pagination.rs: rows examined and pages fetched by one request
  Scenarios              \* what is listed by whom in pages of which sizes, what is hidden
                         \* from them, what a remote does with its pages, and what else happens

\* What there is to list: the namespaces under the root or under another, and what one holds.
What == [kind : {"spaces"}, of : Path \cup {<<>>}] \cup [kind : {"tables", "views"}, of : Path]

ASSUME ListingAssumption ==
  /\ {MaxScan, MaxFetches} \subseteq Nat \ {0} /\ None \notin What
  /\ Scenarios \subseteq [what : SUBSET What, limits : SUBSET (1..MaxPageSize), manner : Manner,
                          hidden : SUBSET (1..LastName),
                          events : SUBSET {"namespaces", "objects", "remote"},
                          changes : Nat, faults : Nat]

VARIABLES
  scenario,   \* the scenario, and what is left of its changes and faults
  asking,     \* what each client's request for a page is doing
  call,       \* history: the last call that changed a store, with the names it gave
  got,        \* history: per client, the names its listing has shown, in order
  there,      \* history: per client, the names there ever since its listing began
  disturbed   \* history: per client, what happened to the rows under its listing

listVars == <<asking, got, there, disturbed>>
vars == <<stores, scenario, call, listVars>>

NoRequest == [phase |-> "none", what |-> None, limit |-> 0, after |-> None, cursor |-> None,
              batch |-> EmptyPage, bare |-> FALSE, kept |-> <<>>, scanned |-> 0, fetches |-> 0]

RowsOf(what) == Rows(what.kind, Route(what.of), Inner(what.of))

\* All a listing has to show: under the root the mounts too, and nothing they hide.
Shown(what) ==
  IF what.of = <<>> THEN Mount \cup RowsOf(what)
  ELSE IF what.kind # "spaces" /\ IsRoot(what.of) THEN {} ELSE RowsOf(what)

\* Policies decide what a client sees; here they do not change under a listing.  They ask
\* whose a namespace is, and one that is gone by then is nobody's.
CanSee(what, name) ==
  name \notin scenario.hidden /\ (what.kind = "spaces" => name \in Shown(what))

-----------------------------------------------------------------------------
(* A request for a page                                                    *)

\* The first page, or the one after the page got, at a size of the client's choosing, of a
\* namespace that is there.
Ask(c, what, limit) ==
  /\ asking[c].phase \in {"none", "more"}
  /\ asking[c].phase = "more" => what = asking[c].what
  /\ asking' = [asking EXCEPT ![c] = [NoRequest EXCEPT
       !.phase = IF NamespaceExists(what.of) THEN "fetch" ELSE "refused", !.what = what, !.limit = limit,
       !.after = asking[c].after, !.cursor = asking[c].after]]
  /\ there' = IF asking[c].phase = "none" THEN [there EXCEPT ![c] = Shown(what)] ELSE there
  /\ UNCHANGED <<stores, scenario, call, got, disturbed>>

\* The page is answered; with a token there is more to ask for.
Answer(c, kept, token) ==
  /\ got' = [got EXCEPT ![c] = @ \o kept]
  /\ asking' = [asking EXCEPT ![c] = [NoRequest EXCEPT
       !.phase = IF token = None THEN "ended" ELSE "more", !.what = asking[c].what,
       !.after = token]]

Fetch(c) ==
  LET request == asking[c]
      page    == List(request.what, scenario.manner, request.cursor, request.limit)
  IN /\ request.phase = "fetch"
     /\ asking' = IF ~Lists(request.what) THEN [asking EXCEPT ![c].phase = "refused"]
                  ELSE [asking EXCEPT ![c].phase = "rows", ![c].fetches = @ + 1,
                                      ![c].batch = page, ![c].bare = page.entries = <<>>]
     /\ UNCHANGED <<stores, scenario, call, got, there, disturbed>>

\* Bug: only a row that is kept moves the cursor.
CursorOfKept(request, entry, keep) == IF keep THEN entry.cursor ELSE request.cursor

\* The cursor moves past every row examined, kept or not.
CursorAfter(request, entry, keep) == entry.cursor

\* One row, until the page is full.
Examine(c) ==
  LET request == asking[c]
      batch   == request.batch
      entry   == Head(batch.entries)
      keep    == CanSee(request.what, entry.item)
      kept    == IF keep THEN Append(request.kept, entry.item) ELSE request.kept
      cursor  == CursorAfter(request, entry, keep)
  IN /\ request.phase = "rows" /\ batch.entries # <<>>
     /\ IF Len(kept) = request.limit
        THEN Answer(c, kept, IF Len(batch.entries) > 1 \/ batch.next # None THEN cursor ELSE None)
        ELSE /\ asking' = [asking EXCEPT
                  ![c].batch.entries = Tail(@), ![c].kept = kept, ![c].cursor = cursor,
                  ![c].scanned = @ + 1]
             /\ UNCHANGED got
     /\ UNCHANGED <<stores, scenario, call, there, disturbed>>

\* As far as one request goes.
FarEnough(request) == request.scanned >= MaxScan \/ request.fetches >= MaxFetches

\* An empty batch that is not the last moves on to the next page's cursor; where even that
\* does not move it, the listing ends.
EndBatch(c) ==
  LET request == asking[c]
      next    == request.batch.next
      cursor  == IF request.bare THEN next ELSE request.cursor
  IN /\ request.phase = "rows" /\ request.batch.entries = <<>>
     /\ IF next = None \/ (request.bare /\ next = request.cursor)
        THEN Answer(c, request.kept, None)
        ELSE IF FarEnough(request) THEN Answer(c, request.kept, cursor)
        ELSE asking' = [asking EXCEPT ![c].phase = "fetch", ![c].cursor = cursor] /\ UNCHANGED got
     /\ UNCHANGED <<stores, scenario, call, there, disturbed>>

\* A fetch fails; the client asks again with the token it has.
FetchFails(c) ==
  /\ asking[c].phase = "fetch" /\ scenario.faults > 0
  /\ scenario' = [scenario EXCEPT !.faults = @ - 1]
  /\ asking' = [asking EXCEPT ![c] = [NoRequest EXCEPT
       !.phase = IF asking[c].after = None THEN "none" ELSE "more",
       !.what = IF asking[c].after = None THEN None ELSE asking[c].what,
       !.after = asking[c].after]]
  /\ UNCHANGED <<stores, call, got, there, disturbed>>

-----------------------------------------------------------------------------
(* What else happens                                                       *)

Calls(op, names, change) == change /\ call' = [op |-> op, names |-> names]

NamespaceCall ==
  \E p \in Path : \/ Calls("create_namespace", <<p>>, CreateNamespace(p))
                 \/ Calls("drop_namespace", <<p>>, DropNamespace(p))

ObjectCall ==
  \/ \E t \in Ident :
       \/ Calls("create_table", <<t>>, CreateTable(t) \/ RegisterTable(t))
       \/ Calls("stage_create_table", <<t>>, StageCreateTable(t))
       \/ Calls("commit", {t}, CommitTable(t))
       \/ Calls("drop_table", <<t>>, DropTable(t) \/ PurgeTable(t))
       \/ Calls("create_view", <<t>>, CreateView(t) \/ RegisterView(t))
       \/ Calls("update_view", <<t>>, UpdateView(t))
       \/ Calls("drop_view", <<t>>, DropView(t))
  \/ \E T \in SUBSET Ident :
       Cardinality(T) \in 2..MaxPageSize /\ Calls("commit", T, CommitTablesAtomic(T))
  \/ \E t, u \in Ident :
       \/ Calls("rename_table", <<t, u>>, RenameTable(t, u))
       \/ Calls("rename_view", <<t, u>>, RenameView(t, u))

\* A remote catalog's own clients.
Behind(s) ==
  \/ \E p \in OwnPath :
       LET q == Prefixed(s, p)
       IN /\ q \in Path
          /\ \/ Calls("create_namespace", <<q>>, CreateSpaceIn(s, p))
             \/ Calls("drop_namespace", <<q>>, DropSpaceIn(s, p))
  \/ \E i \in OwnIdent :
       LET t == <<Prefixed(s, i[1]), i[2]>>
       IN /\ t \in Ident
          /\ Calls("create_table", <<t>>, CreateTableIn(s, i)) \/ Calls("drop_table", <<t>>, DropTableIn(s, i))

\* What becomes of the rows a client lists.
Disturbs(what) ==
  {"added" : n \in Shown(what)' \ Shown(what)} \cup {"dropped" : n \in Shown(what) \ Shown(what)'}

Change ==
  /\ scenario.changes > 0
  /\ UNCHANGED <<asking, got>>
  /\ \/ "namespaces" \in scenario.events /\ NamespaceCall
     \/ "objects" \in scenario.events /\ ObjectCall
     \/ "remote" \in scenario.events /\ \E s \in Remote : Behind(s)
  /\ scenario' = [scenario EXCEPT !.changes = @ - 1]
  /\ there' = [c \in Client |->
       IF asking[c].what = None THEN there[c] ELSE there[c] \cap Shown(asking[c].what)']
  /\ disturbed' = [c \in Client |->
       IF asking[c].what = None THEN {} ELSE disturbed[c] \cup Disturbs(asking[c].what)]

-----------------------------------------------------------------------------
Init ==
  /\ StoresInit
  /\ scenario \in Scenarios
  /\ asking = [c \in Client |-> NoRequest]
  /\ got = [c \in Client |-> <<>>]
  /\ there = [c \in Client |-> {}]
  /\ call = [op |-> None, names |-> <<>>]
  /\ disturbed = [c \in Client |-> {}]

Next ==
  \/ \E c \in Client : \/ \E what \in scenario.what, limit \in scenario.limits : Ask(c, what, limit)
                       \/ Fetch(c) \/ Examine(c) \/ EndBatch(c) \/ FetchFails(c)
  \/ Change

\* The server keeps serving a request it has begun, and a client goes on to the end.
Spec == /\ Init /\ [][Next]_vars
        /\ \A c \in Client :
             /\ WF_vars(Fetch(c) \/ Examine(c) \/ EndBatch(c))
             /\ WF_vars(asking[c].phase = "more"
                          /\ \E limit \in scenario.limits : Ask(c, asking[c].what, limit))

-----------------------------------------------------------------------------
(* Properties                                                              *)

\* Whether a listing is of a remote catalog.
OfRemote(c) == asking[c].what # None /\ Route(asking[c].what.of) \in Remote

\* A listing followed to its end has shown every name that was there all the time and that
\* the client may see, however many of the others were hidden, whatever was created or
\* dropped meanwhile and whatever size each page was asked for: collect_page's tokens
\* (pagination.rs:180) resume right after the last row examined.  A remote's rows are
\* counted from the start of a page (rest.rs:89-101): there, unless one was dropped, and of
\* a remote that divides what it has into pages (of one that does not, what is past the
\* first page is lost).
NothingSkipped(c) ==
  /\ asking[c].phase = "ended"
  /\ OfRemote(c) => scenario.manner = "pages" /\ "dropped" \notin disturbed[c]
  => \A n \in there[c] : CanSee(asking[c].what, n) => \E i \in DOMAIN got[c] : got[c][i] = n

\* A listing shows no name twice; of a remote, unless its rows changed meanwhile
\* (list_root's two phases, federated.rs:195; repage, rest.rs:443).
NothingRepeated(c) ==
  (OfRemote(c) => disturbed[c] = {}) => \A i, j \in DOMAIN got[c] : got[c][i] = got[c][j] => i = j

\* What a client that lists can rely on: nothing is skipped and nothing repeated.
EveryNameOnce == \A c \in Client : NothingSkipped(c) /\ NothingRepeated(c)

\* A request for a page is answered whatever a remote makes of it, and a listing that is
\* followed ends, unless it is of a remote that ever names another page
\* (pagination.rs:28-58).
ListingsEnd ==
  \A c \in Client :
    /\ asking[c].phase = "fetch" ~> asking[c].phase \notin {"fetch", "rows"}
    /\ asking[c].phase = "more" /\ (OfRemote(c) => scenario.manner # "endless")
       ~> asking[c].phase \in {"ended", "refused"}

\* What the stores hold, by the names clients give: one catalog.
Merged(at) ==
  [t \in Ident |-> IF IsRoot(t[1]) THEN None ELSE at[Route(t[1])][InnerIdent(t)]]

AsWritten(p) == IF Len(p) = 1 THEN None ELSE Front(p)

Catalog == INSTANCE CatalogSpec WITH
  Namespace      <- Path,
  ParentOf       <- [p \in Path |-> AsWritten(p)],
  NsOf           <- [t \in Ident |-> t[1]],
  InitNamespaces <- InitSpaces \cup {<<m>> : m \in Mount},
  InitViews      <- {},
  SeedPointer    <- LAMBDA t : <<t>>,
  namespaces     <- {p \in Path : IsRoot(p) \/ Inner(p) \in spaces[Route(p)]},
  tableAt        <- Merged(tables),
  viewAt         <- Merged(views),
  stagedAt       <- Merged(staged)

\* What CatalogSpec says a call does to what it names.
Promised(op, x) ==
  CASE op = "create_namespace"   -> Catalog!AbsCreateNamespace(x[1])
    [] op = "drop_namespace"     -> Catalog!AbsDropNamespace(x[1])
    [] op = "create_table"       -> Catalog!AbsCreateTable(x[1], Merged(tables)'[x[1]])
    [] op = "stage_create_table" -> Catalog!AbsStage(x[1], Merged(staged)'[x[1]])
    [] op = "commit"             -> Catalog!AbsCommit(x)
    [] op = "drop_table"         -> Catalog!AbsDropTable(x[1])
    [] op = "rename_table"       -> Catalog!AbsRenameTable(x[1], x[2])
    [] op = "create_view"        -> Catalog!AbsCreateView(x[1], Merged(views)'[x[1]])
    [] op = "update_view"        -> Catalog!AbsUpdateView(x[1], Merged(views)'[x[1]])
    [] op = "drop_view"          -> Catalog!AbsDropView(x[1])
    [] op = "rename_view"        -> Catalog!AbsRenameView(x[1], x[2])

\* The mounts and the native catalog are together one catalog (federated.rs): every call
\* that changes anything does to the names the client gave what CatalogSpec says of it, all
\* of it or nothing, and nothing else; a transaction or a rename over two catalogs never
\* happens in part.
CallsAsPromised == [][stores' # stores => Promised(call'.op, call'.names)]_vars
=============================================================================
