# A TLA+ model of Rustberg

Rustberg is an Apache Iceberg REST catalog. Clients create namespaces, tables
and views and commit new table versions through it; every request is
authenticated, rate limited, decided by a Cedar policy set, audited and then
carried out by a storage backend. The catalog itself stores only *pointers*:
each table or view is a name that points at an immutable metadata file in an
object store, and a commit writes a new file and swaps the pointer.

This directory models the parts whose correctness depends on the order of
things: who reads what before whom, what is left when a step fails, and what a
retry repeats.

## Inventory

| part (under `src/src/`) | state it keeps | operations | hard behaviour | what makes it correct |
|---|---|---|---|---|
| embedded backend, `catalog/redb.rs` | relations `NAMESPACES`, `TABLES`, `VIEWS`, `STAGED` in one file; metadata files in the object store | create, stage, register, commit (one or several tables), drop, purge, rename; the same for views; namespace create, drop, update | a handler reads, writes a file, then opens a write transaction; commits are retried | no commit is lost; a transaction over several tables is all or nothing; nothing in use is deleted, nothing is left over; one kind of object per name; contents have a namespace |
| Postgres backend, `catalog/postgres.rs` | the same as tables with foreign keys; a name table shared by tables and views; shared receipts; the policy log | the same, from several replicas | READ COMMITTED, row locks, serialization and deadlock errors | the same, and no deadlock between commits |
| contract of the backends, `catalog/store.rs` | - | every method of `CatalogStore` | - | each method takes effect at one moment or not at all |
| purge, `catalog/purge.rs` | - | delete what a table's metadata names | the name moves between load and delete | only files inside the table's place |
| federation, `catalog/federated.rs`, `catalog/rest.rs`, `catalog/capabilities.rs` | mounts | route by first name part, merge root listings, page a remote catalog | cursors over listings that change; a transaction may only touch one catalog | a name always means the same catalog; a call does what one catalog would, or is refused |
| pagination, `catalog/v1/pagination.rs` | none (a cursor) | collect a page of what the caller may see | bounds on rows and pages read; changes between fetches | no visible name is skipped or repeated; every listing ends |
| handlers, `catalog/v1/{namespace,table,view}.rs`, and the embedded Session, `catalog/session.rs` | none of their own | check, decide, record, look for a receipt, load, call the store, vend credentials, keep a receipt | state read before an await and used after it; one step of several failing | decisions are about what is then acted upon; what is protected stays |
| guard, `catalog/v1/guard.rs`, `auth/authz.rs` | - | find the owner, decide, record, second decisions, visibility | owner and policy change between decision and action | nothing is changed unrecorded; what is taken away is gone for later requests |
| idempotency, `catalog/v1/idempotency.rs` | receipts, local and shared | get, set, expiry, pruning | a replica that has no local copy, restarts, an outage of the store | a request that was answered does not run again |
| policy administration and reload, `management/policies.rs`, `auth/reloadable.rs`, `auth/policy_store.rs`, `app.rs` | append-only log of revisions; the compiled set and its sequence number on each replica | update, roll back, poll, swap, seed, start | a poller and a request swap at once; crash between store and install; replicas of different builds | every enforced set is recorded; no restart loses a change; nobody locks everybody out; replicas converge |
| decisions, `auth/cedar.rs`, `predicate.rs`, `catalog/v1/restrictions.rs` | the policy set, swapped whole | evaluate, collect row filters and column masks, widen what cannot be bound | polarity under negation; union of filters, intersection of masks | a restriction is never weaker than the policies that matched say |
| audit, `auth/audit_sink.rs` | sinks | record, fail closed for mutations and credentials | a sink that fails between decision and action | what must be recorded is recorded first |
| admission, `auth/middleware.rs`, `rate_limit.rs`, `jwt_authn.rs`, `store.rs`, `remote_ip.rs` | token buckets, failure counters, key sets and decoding keys, API keys and their index | attribute, limit, authenticate, count, refetch | caches that forget and are written by several requests at once | limits bound what gets through; bans last; fetches are spaced; a deleted key admits nobody |
| locations and names, `location.rs`, `names.rs` | none (a table's location is in its metadata) | default, declare, bound, compare | a name moves and its files stay; spellings of one place | files of a name are in the place of a name it has had |
| vending and signing, `credentials/`, `v1/sign.rs`, `v1/delegation.rs` | Azure's delegation key | exchange, sign, presign | second decisions; what S3 makes of a request; keys that end | access is to the table's own files, by somebody permitted, on record, and not longer than its key |
| scan planning, `v1/plan.rs` | none | read manifests, prune | a policy's filter meets a table it does not fit | no matching file is pruned, none that policy withholds is named |
| server and health, `server/start.rs`, `observability/health.rs` | connections; a cached readiness result | start, delay, drain, stop; probe | clients that leave or never finish; components that hang | requests get their time; the server ends; readiness is recent |
| configuration and assembly, `config/`, `main.rs`, `app.rs` | - | refuse, choose, seed | what is checked in one file is built in another | whoever gets in is asked, except in development |

Every row is in `PROJECT.json` under `components`, and the places where each
hard behaviour bites are under `hazards`.

Interactions: admission hands a principal to a handler; the handler calls the
guard (which calls the authorizer the reloadable wrapper currently holds, and
the audit sinks), then the store trait `CatalogStore`; a federated store routes
to redb, Postgres or a remote catalog; what a load answers with goes through
vending and planning; policy administration writes its log through the same
backend; pollers read it.

## Modules

    RedbState ── RedbTables ─┐
        │ ────── RedbCommit ─┼─ RedbCatalog ── MCRedbCatalog (TLC)
        └─────── RedbViews ──┘      │    └──── RedbCatalogProofs
                                    └ INSTANCE CatalogSpec (the contract it implements)
    PostgresState ── PostgresObjects ─┐
        └─────────── PostgresCommit ──┴─ PostgresCatalog ── MCPostgresCatalog (TLC)
                                            │    └───────── PostgresProofs
                                            └ INSTANCE CatalogSpec
    PolicyReload ── MCPolicyReload (TLC)
          └──────── PolicyReloadProofs
    Predicates ── TableAccess ── MCTableAccess (TLC)
    RequestPath ── Handlers ── MCHandlers (TLC)
                      └─────── HandlersProofs
    Clock ─┬ KeySets ────┬─ Admission ── MCAdmission (TLC)
           └ RateLimits ─┘      └── AdmissionProofs
    Paging ── Federation ── Listing ── MCListing (TLC)
                               │ └──── ListingProofs
                               └ INSTANCE CatalogSpec
    Locations ─┬ Resources ──┐
               └ Signing ────┼─ Storage ── MCStorage (TLC)
    DelegationKeys ──────────┘      └───── StorageProofs
    Startup ── Lifecycle ── MCLifecycle (TLC)
                   └─────── LifecycleProofs

The catalog modules take the steps inside a method apart; `Handlers`,
`Federation` and `Resources` take a method of a store as one step, which is
what `CatalogSpec` promises and the catalog modules are checked for.

### The catalog contract: `CatalogSpec`

What the `CatalogStore` trait promises: a registry of namespaces, table
pointers, view pointers and stagings on which each method is one step. A
pointer is the history of writes it results from, so "a commit builds on the
table it was made for" is `WrittenOn`.

### The embedded backend: `RedbState`, `RedbTables`, `RedbCommit`, `RedbViews`, `RedbCatalog`

redb runs one write transaction at a time, so a transaction is one step. What
is *not* one step is a method: most check something in a read transaction,
write a metadata file and only then open the write transaction. Each of these
is an action, and a client's request `req[c]` (for commits also `txn[c]`) holds
what the Rust code keeps in local variables between them.

| code | actions |
|---|---|
| `create_namespace`, `drop_namespace` | `CreateNamespace`, `DropNamespace` |
| `create_table`, `stage_create_table` | `..Start` (namespace check), `..Prepare` (name check, file), `..Insert` (transaction) |
| `register_table`, `register_view` | `..Start`, `..Read`, `..Insert` |
| `drop_table`, `drop_view` | one action each |
| `purge_table` and `purge_table_data` | `PurgeTableLoad`, `PurgeTableDrop`, `PurgeTableDelete` |
| `rename_table`, `rename_view` | `..Start` (destination check), `..Move` |
| `commit_tables_atomic` | `CommitStart`, `CommitPrepare` per table, `CommitRefused`, `CommitNotFound`, `CommitSwap`, `CommitSwapLost`, `CommitDiscard`, with `Retry` |
| `commit_view` and `update_view` | `UpdateViewStart` (load: the witness), `UpdateViewPrepare`, `UpdateViewSwap` |
| a dropped connection or a crash | `Abandon` |

A file is the sequence of writes it results from: each commit appends a fresh
write to the file it read. That makes lost updates visible (`PointersGrow`),
and the files a purge reaches are the prefixes of the sequence. `published` is
a history variable: what has ever been pointed at. A method that answers an
error before changing anything is a request that never began.

### The Postgres backend: `PostgresState`, `PostgresObjects`, `PostgresCommit`, `PostgresCatalog`

Several replicas share the tables, at READ COMMITTED. A statement is one action,
enabled when the row it needs is free: that is how a statement waits for another
transaction's row lock. `held[c]` are the rows client `c`'s open transaction has
locked; what it has written so far is in `txn[c]` and becomes visible at COMMIT.
A transaction that locks one row, or locks further rows only after all waiting
is over, is one action. `names` is the relation both kinds of objects claim
their name in; the references of contents and child namespaces to a namespace
are the foreign keys (`ReferenceHolds`, `Unreferenced`).

| code | actions |
|---|---|
| `create_namespace`, `drop_namespace` | `CreateNamespace`, `DropNamespace` |
| `create_table`, `stage_create_table` | `CreateWrite` (checks, file), then `Insert` or `StageUpsert` |
| `register_table`, `register_view` | `RegisterRead`, `Insert` |
| `drop_table`, `drop_view` | `DropName` (the name, if held by this kind), `Cascade` for a row another transaction holds |
| `purge_table` | `PurgeLoad`, `PurgeName`, `Cascade`, `PurgeDelete` |
| `rename_table`, `rename_view` | `RenameClaim` (destination name), `RenameRow`, `RenameRelease` |
| `commit_tables_atomic` | `CommitStart`, `CommitPrepare` or `CommitRefused` per table, `CommitLock` per table in the order of names, `CommitNamespaceGone`, `CommitLand`, `CommitDiscard` with `Retry` |
| `commit_view` and `update_view` | `UpdateViewWrite`, `UpdateViewSwap` |
| error 40P01 | `DeadlockVictim`: Postgres ends one of a circle of waiters |
| a dropped connection or a crash | `Abandon`: the open transaction is rolled back |

A commit that loses a rename's race for a name to Postgres's deadlock detector
answers 409 on its first attempt: only a swap that changed no row is made again
(`Retry`).

### Policy: `PolicyReload`

The log, and for each replica the set it enforces (`current`) and the revision
it takes that set for (`sequence`). An author's request and a replica's poller
are tasks; both end in the two halves of `ReloadableAuthorizer::swap`, which
take two locks one after the other and are two actions. Texts are members of
`Policy`; whether a build can compile a text, whom it lets manage policy, and
whether it holds any rule are constants. A seed's author in the log is the
replica whose file it is, where the code writes `system:bootstrap`.

### Reading a table under policy: `Predicates`, `TableAccess`

`Predicates` has the three readings of a filter: a client's, widened where it
cannot be bound (`ParsePredicate`); a policy's, refused there
(`ParsePolicyPredicate`); and a policy's rewritten to field ids for the reader
(`ToIdPredicate`). A filter is read to the set of rows it selects. What a filter
*means* is stated apart (`Meaning`), for every choice of which rows the
comparisons select that this catalog does not understand.

`TableAccess` follows one caller's requests about one table, step by step
between the awaits of the handlers, while policy sets are swapped and the
table's columns renamed or dropped, and the names they had given to others. Requests share nothing else, so following
one at a time loses no interleaving.

| code | definitions |
|---|---|
| `CedarAuthorizer::evaluate`, `collect_obligations`, `validate_row_filters` | `Allows`, `CollectObligations`, `Compiles` |
| `masked_field_ids`, `column_projections`, `for_table` | `MaskedFieldIds`, `ColumnProjections`, `ReadRestrictions` |
| `guard::authorize`, `record_decision` | `Authorize` (the decision), `RecordRead` |
| `load_table` | `Revalidate`, `Load`, the credential, `Publish` |
| `vend_table_credentials`, `also_permits`, `record_vend` | `Withhold`, `NotDelegated`, `DecideUpdate`, `RecordUpdate`, `Exchange` |
| `load_table_credentials` | the same without `Publish` |
| `plan_table_scan`, `build_plan` | `Load`, `BuildPlan` with `PlanRefusal` |
| `ReloadableAuthorizer::swap` | `Swap` |
| another client's schema update | `ChangeColumn` (external) |

Which policies match a request is Cedar's work and an input. A plan's files are
abstracted to the rows that match its predicate, the fewest that pruning may
leave; every comparison is `eq`. The owner lookup, snapshot scopes and the check that
the storage is this server's are left out, the last as a choice
(`NotDelegated`).

### Requests and their handlers: `RequestPath`, `Handlers`

Several replicas over one store. `RequestPath` is what every handler does around
its call: `req[c]` is what a request knows at each await, `local` and `shared`
the receipts, `grants` what the policy set of each replica permits. `Handlers` adds one action
per handler, with what it loads first, its call of the store and the credentials
it answers with. The Session's methods are the same requests with `embedded`:
they keep no receipts and take their own decisions. `register_view` goes as
`register_table` does and has no action of its own.

| code | actions |
|---|---|
| arrival at a replica; a client gone | `Begin`, `Disconnect` |
| `guard::authorize`, `authorize_new`, `record_decision` | `Permit`, `PermitUnrecorded`, `Deny`, one decision a step (`Decisions`) |
| `IdempotencyCache::get`, `set` | `LookUp`, `File` (`Put` keeps an earlier row as the backends do) |
| a receipt's end of life; the shared store unreachable | `Expire`, `Outage` |
| a restart, with the newest policy set | `Restart` |
| handlers that read first | `LoadTablesGuarded`, `Load` |
| `create_namespace`, `update_namespace_properties`, `delete_namespace` | `CreateNamespace`, `UpdateProperties`, `DropNamespace` |
| `create_table`, the same staged, `register_table`, `create_view` | `CreateTable`, `StageTable`, `RegisterTable`, `CreateView` |
| `commit_table`, `commit_transaction`, `commit_view` | `CommitTable`, `CommitTransaction`, `CommitView` |
| `drop_table`, `unregister_table`, `drop_view`, `rename_table`, `rename_view` | `DropTable`, `UnregisterTable`, `DropView`, `RenameTable`, `RenameView` |
| `get_namespace`, `load_view`, `report_metrics` | `AnswerRead`, `ReportMetrics` |
| vending after a creation | `Vend` |
| an error of the store | `StoreFails` |
| a change of policy that takes a principal's grants comes to one replica, by a management request or by its poller | `Revoke` |

### Admission: `Clock`, `KeySets`, `RateLimits`, `Admission`

A request's arrival up to its handler, two at a time, over shared caches. Time
is a counter of ticks; a cache entry that was idle too long is not there.

| code | definitions |
|---|---|
| `extract_client_ip`, `RemoteIp::resolve` | `ClientAddress` |
| `auth_middleware` | `Arrive`, then `Admit` or `Refuse`, `CountRefusal`, `Respond` |
| `ChainAuthenticator`, JWT, API key and anonymous authenticators | `TryToken`, `TryKey`, `TryNothing` |
| `get_decoding_key`, `get_jwks`, `may_refetch_jwks` | `LookForKey`, `IssuerAnswers`, `StoreKeySet`, `KeepDecodingKey` |
| the issuer rotating its keys | `Publish` (external) |
| `TokenBucket`, `check_ip_limit`, `check_tenant_limit` | `Tokens`, `Affords`, `Spent`, `CheckIpLimit`, `CheckTenantLimit` |
| `record_auth_failure`, `record_auth_success` | `TakeEntry`, `CountFailure`, `RecordSuccess` |
| `InMemoryApiKeyStore`: `enable`, `disable`, `update`, `delete` | `SetEnabled`, `BeginUpdate`, `EndUpdate`, `Delete`, `Unlist` (of the indexes, a step later) |
| the clock | `Tick` |

What each client and tenant was let past is a history kept as counts up to each
tick (`passed`, `spent`), so that a stretch of time is a difference (`Within`).
Storing a fetched key set and clearing the decoding keys are one step; the
clock does not tick while a failure is between its two steps; the caches'
capacity and `record_usage` are left out.

### Listings: `Paging`, `Federation`, `Listing`

`Paging` is one page from each kind of source, as functions. `Federation` is
the routing of every method: a call names what clients write (`Route`, `Inner`),
and one store takes it or refuses it; `calls` is what was last called and
answered. `Listing` is clients that page through what they may see.

| code | definitions |
|---|---|
| a backend's listing, `redb.rs` and `store.rs` | `StorePage`, `FromProbe` |
| a remote's page, `page_query`, `repage`, `RemoteCursor` | `RemotePage`, `Repage`, `PageQuery` |
| `list_root` | `RootPage`, `RootResumed`, `NativeAfter` |
| `route`, what is put back on names, `effective_capabilities` | `Route`, `Inner`, `Prefixed`, `CapabilitiesFor`, `Can` |
| each method of `FederatedCatalog` | the action of its name (`CommitTablesAtomic`, `RenameTable`, ...) |
| `collect_page` | `Fetch`, `Examine` (a row a step), `EndBatch`, `Answer` |
| `list_namespaces`, `list_tables`, `list_views` | `Ask`, and `CanSee` for what each hides |
| a fetch that fails; a remote's other clients, other requests | `FetchFails`, `Change` |

What is visible to a client is constant during a listing. A remote may answer
in pages, ignore paging, answer with a token that leads to the same page, or
with tokens without end (`Manner`). `CallsAsPromised` reads the stores together
as one catalog (`Merged`) and requires each call to do there what `CatalogSpec`
says, or nothing. Location bounds and the capability to plan scans are left out
of the routing.

### Access to files: `Locations`, `Resources`, `Signing`, `DelegationKeys`, `Storage`

A location is a scheme and the sequence of what is between its slashes, so that
"inside" is a matter of segments and not of characters. `Resources` is where
each table and view keeps its files, by the name's catalog; a history
variable is the names a table has had. `Signing` is what a request addresses, as `sign.rs`
reads it (`Resolve`) and as S3 acts on it (`AddressesObject` and the like,
external). `Storage` is the requests that let a client at files.

| code | definitions |
|---|---|
| `validate_name`, `is_within`, `is_prefix_within`, `is_vendable`, `join_segments` | `ValidName`, `IsWithin`, `IsPrefixWithin`, `IsVendable`, `JoinSegments` |
| `LocationBound::new`, `ensure_commit`, `ensure_owned` | `LocationBound`, `EnsureCommit`, `EnsureOwned` |
| create, stage, register, commit, rename, drop, purge as far as locations go | the actions of `Resources` of these names |
| `guard::authorize`, `also_permits`, `record_vend` | `Ask`, `RecordDecision`, `AlsoPermits`, `Record` |
| `vend_table_credentials`, `sign_request`, `presign_planned_files` | `LoadForVending`, `LoadForSigning`, `LoadForPlan`, `NotThere`, `Issue`, `Exchange`, `Exchanged`, `NotIssued` |
| `sign.rs`: `resolve`, `confine` | `Resolve`, `Confine` |
| a provider's `supports_location` and the prefix it asks for | `SupportsLocation`, `CredentialPrefix` |
| `AzureSasCredentialProvider::delegation_key` | `HasGoodKey`, `SignWithKept`, `StartFetch`, `FinishFetch`, `FailFetch` |
| other requests, a policy change, the clock | `Edit`, `PolicyChange`, `Time` |

Calls on names are atomic and namespaces are taken to exist; a purge is one
step (`RedbTables` has its steps). The hosts a deployment configures for its
endpoint are taken to be its endpoint's.

### A server's life: `Startup`, `Lifecycle`

A configuration is a record of what `main` and `AppBuilder` tell apart. Nobody
sees a start before it listens, so a start is one step; what a refused start
leaves behind is the policy log it may have seeded (`Seed`). `phase` goes from
down to serving, delay, draining and down again, and `since` is the time since it
began. `server` is what runs, `log` the policy log it finds, `req[c]` is a connection's one request. `queue` is who waits for
readiness, `probe` the check under way and `cache` the last result with its age;
`said` is what a prober was told, `up` which components are, and `ago` when each
was last seen up.

| code | definitions |
|---|---|
| refusals of `main.rs`, `server_config.rs`, `AppBuilder::assemble` | `Unsafe`, `FileRefused`, `KeysRefused`, `TokensRefused`, `StoresRefused`, together `Refused` |
| transport, authenticators, bootstrap key, policy seed | `Transport`, `Credentials`, `Bootstraps`, `Seed`, together `Server` and `Start` |
| connections | `Connect`, `Finish`, `Leave`, `TimeOut` (the request timeout of `app.rs`) |
| `ReadinessStatus::cached`, `check` | `AnswerCached`, `BeginProbe`, `CatalogChecked`, `StorageChecked` |
| signal handling and drain | `Signal`, `Drain`, `Drained`, `Cut` |
| components going down and coming back | `Turn` (external) |
| time | `Tick`, never past a deadline that is due |

One process at a time. A killed process is one whose successor starts from the
same log, so a crash adds nothing here; policy changes of a running server are
`PolicyReload`'s. CORS, rate limit and audit settings occur only as mistakes
that refuse a start.

## Runs

| run | instance | what it shows |
|---|---|---|
| `redb_table_commits` | three writers, two tables, transactions of up to two tables, two attempts, a purge, a creation, cut-off requests | no lost commit (`LinearHistory`), transactions all or nothing (`AtomicTransaction`), no file in use deleted (`HistoryReadable`) |
| `redb_names` | two clients, two requests each, one name a view and one free, every table and view method except purge | `OneKindPerName`, and the refinement of `CatalogSpec` (`Linearizable`) |
| `redb_staging` | nested namespaces, staged creates, commits and purges, two clients | `NamespaceTree`, nothing is left over (`NoLitter`), every request ends (`RequestsEnd`) |
| `postgres_catalog` | two callers, every method, nested namespaces, transactions of up to two tables, cut-off requests | names and rows agree (`NamesMatchRows`), `CommitsDoNotDeadlock`, `ContentsHaveNamespace`, the refinement of `CatalogSpec` |
| `policy_rollout` | two replicas of different builds, two authors, four texts (one blank), a crash | `EnforcedIsRecorded`, `Administrable`, a file seeds the log once (`FileSeedsOnce`), and convergence of the replicas that take no writes (`FollowersConverge`) |
| `table_reads` | a table with a struct and a map, partitioned on one column, nine policy sets, 83 client filters | readers get the rows granted and asked for, masks are kept of whatever column has the name, under renames and nesting, what other permits say only adds, 304 is honest |
| `request_paths` | two replicas, two requests at a time of 23 kinds, two tenants, one key; restarts, disconnects, an outage of the receipts, a loss of grants that comes to one replica before the other | `AnsweredOnce`, `ProtectionHolds`, `RevokedGetsNothing`, `ChangesAreOnRecord` |
| `admission` | two requests at a time; five scenarios: an open server, key rotations, API key edits, failures, addresses | what a client spends stays within its allowance over any stretch of time (`AllowanceHolds`), `RefetchesAreSpaced`, `BansHold`, `DeletedKeysAdmitNobody` |
| `listings` | a native catalog and three mounts, one of them remote and one read only; names hidden, changes, failing fetches, remotes that page badly; and every routed call | `EveryNameOnce`, `ListingsEnd`, `CallsAsPromised` |
| `storage` | fifteen scenarios: names with declared places under both scopes, in a mount and a remote catalog; signed requests; vending, presigning, Azure keys, with policy changes and a failing trail | `LocationsFollowNames`, `ReachFollowsNames`, `AccessIsEarned`, `WriteAccessIsOnRecord`, `KeysOutliveAccess` |
| `lifecycle` | every configuration with at most one mistake, one after the other on one store; two connections, one of them a prober's | `EntryIsGuarded`, `ReadyIsRecent`, `RequestsGetTheirTime`, `EverythingEnds` |
| `keys_turned_off` | the same | **violated**: `api_key_enabled = false` turns no API key off (`KeysCanBeTurnedOff`, `server_config.rs:139`) |

### Bounds

Two clients are enough for every two-party race; three let a commit lose twice
to different writers and exhaust its two attempts; the code's ten attempts add
only longer repetitions of a state in which nothing of an old attempt is kept
(`Attempt`). Two names are needed for renames and two-table transactions. Two
requests per client allow a name to be dropped, made again and updated while
another request still holds what it read; in the Postgres run three requests
begin in all (`ThreeRequests`). Namespaces nest to depth two since only parent
and child are ever compared. Single-transaction methods are not bounded.

* `table_reads`: one change of set or schema happens while a request is under
  way, which is all that can tell a step before it from a step after. One commit
  may both rename a column and give its name to another, one the table has or
  one of a spare field id. A data
  file has one row. Whether a plan is too large is a choice. Statistics are
  asked of nothing or of two columns at once, one of them nested; filters nest
  up to four operators, with negations above and below what cannot be bound.
* `request_paths`: every property relates two requests, so two are begun
  (`MaxRequests`), from each of four starts, empty and full. One principal can
  lose its grants (`Revocable`), once on each replica and for good.
* `admission`: three ticks pass a window, a ban (two ticks each) and a cache's
  life, and leave one after it; a limit of two failures tells a count from a
  flag.
* `listings`: one client, since listings share nothing but the catalogs. Six
  names, pages of up to three, three rows examined and two pages fetched by a
  request: every bound is met in the middle of a page and at its end. `PastEnd`
  is empty: names that sort after U+FFFF are left out (see below).
* `storage`: the edits, swaps, requests and failures of each scenario are in
  `MCStorage`. Five ticks are a key's life and one more.
* `lifecycle`: request and drain time five ticks, probes two. One sound
  configuration is used at length; the others start, are signalled and stop
  (`OneIsUsed`), for what a server does while it is used depends on its
  configuration in nothing but the delay.

`CHECK_DEADLOCK FALSE` is set where bounded request counts stop the system; a
lifecycle does not stop.

### Fairness

* `RedbCatalog`: weak fairness of every client's next step: the server's
  executor polls every task it holds, and no step waits for another client.
  Nothing is assumed about requests arriving or being cut off.
* `PolicyReload`: weak fairness of the poller's interval timer and of finishing
  a swap that has begun. Starting a crashed replica, submitting and auditing
  are not fair, and liveness is stated only of replicas that are up.
* `Listing`: weak fairness of the steps of a request under way, and of a client
  asking for the next page while it has a cursor for one; a listing that a
  client abandons is not one whose end is of interest. A fetch may always fail
  as often as faults are left.
* `Lifecycle`: weak fairness of the clock, of the server's own steps once due
  (`Stop`, `TakeLock`, `CheckOver`), and of a request's timeout. None of
  components answering or coming back, nor of clients sending, reading or
  leaving: that the server ends although they do not is what `EverythingEnds`
  is about.

## Proofs

`RedbCatalogProofs`: for any number of clients, names
and requests,

* `TypeCorrect`: `TypeOK` is inductive only together with what a handler
  carries at each step (`RequestsFitPhase`, part of `TypeOK`): a commit in
  `"prepare"` still has a change to prepare, one in `"swap"` has them all.
* `OneKindHolds`: every path that gives a name to a table or a view ends in a
  step that reads both relations.
* `NamespaceTreeHolds`: the parent is read in the transaction that inserts,
  the children in the one that deletes.
* `LinearHistoryHolds`: needs that what a request in flight has prepared is
  written onto the record it expects (`PreparedOnto`, `UpdatesOnto`). Those are
  inductive because the expectation and the file are made in one step and only
  the swap uses them, after comparing the whole record.
* `LinearizableHolds`: every step is a step of `CatalogSpec`, whose pointers are
  those of the records, or changes nothing of it. The swap of a commit is
  `CommitMove` with the tables and files it prepared. That the files are fresh,
  as the contract requires, is `MadeInv`: a client's pending files are among
  those it wrote and have never been pointed at, no two of a request are for one
  table, and nobody points at a file yet to be written.
* `AtomicTransactionHolds`: from the same invariant. A file of a transaction is
  known to its client alone, so whoever publishes one is that client's swap,
  which publishes all of them.
* `HistoryReadableHolds`: what a live table descends from has been published
  (`KnownPointers`, `KnownAncestry`), and what is deleted was not: the cleanup
  of a lost swap deletes pending files only, a purge the history of a table
  whose root no live table shares (`PurgesAlone`). The latter is so only where
  no two names can come to share a root, which the theorem assumes
  (`PurgesUnshared`): while purges are served, renames, registrations and
  stagings are not. That is needed, not convenient: the purge of a renamed table
  deletes files in use (see below). Without purges there is no condition.
* `NoLitterHolds`: each file was published or is pending (`Accounted`). Its
  condition (`Tidy`) leaves out the requests that do leave a file, which are
  named there: one that finds its name taken after it has written, an attempt
  over several tables whose later requirement fails, a handler cut off. The run
  `redb_staging` meets it; `redb_table_commits` meets `PurgesUnshared`.

`PolicyReloadProofs`: `EnforcedIsRecordedHolds` and `AdministrableHolds` from one
invariant, `PolicyInv`: a task that is past the append carries a revision of the
log (`Carries`), what it carries passed the self check (`Checked`), and what a
replica enforces is recorded (`Recorded`). `AdministrableHolds` assumes every
seed lets somebody manage policy. `FileSeedsOnceHolds` needs that a replica which
is about to seed has not done so (`SeedsToCome`): its file is in the log only if
the log was empty when it looked, and no log becomes empty again.

`PostgresProofs`:

* `TypeCorrect`: also that locks are held inside transactions only, and that a
  commit in its locking loop has every change prepared.
* `CommitsDoNotDeadlockHolds`: every table a commit holds comes before the one
  it waits for (`InOrder`). Were there a circle of commits, take the waiter
  for the last table of those waited for: its holder waits for a later one. It
  needs that names are ranked and the ranks bounded (`OrderAssumption`).
* `NamesMatchRowsHolds` and `ContentsHaveNamespaceHolds`: from one invariant,
  `LockInv`. Neither is inductive alone, for a transaction checks in one
  statement what it relies on in a later one. `Reliance` says what that is for
  each phase (a rename that has claimed its destination relies on the name's row
  and on the namespace; a locked entry of a commit on its pointer), in terms of
  the rows it holds, and `Exclusive` that a row has one holder. `Kept` is what a
  step leaves of the relations to whoever holds given rows; each action is shown
  to keep it for the rows of others.
* `LinearizableHolds`: the same contract as redb's, through the relations as
  they are committed. A commit lands on what it has locked (`Reliance`) with
  files nobody has pointed at (`MadeInv`), so `CommitLand` is one `CommitMove`
  although its locks were taken one by one.

`HandlersProofs`, all action properties of `Spec`:

* `TypeCorrect`: with what each request has at each of its phases, so that each
  step finds what it reads.
* `RevokedGetsNothingHolds`: a principal's loss of its grants is numbered on each
  replica as it comes there (`revoked`); a request that has gone past its
  decisions and began later on that replica would have been permitted since
  (`Revocations`). It holds of replays because the receipt is looked for after
  the decision. A replica the loss has yet to come to lets the principal through,
  and may file a receipt for it that the other then does not answer with.
* `ChangesAreOnRecordHolds`: each permit passed is recorded when the auditor
  fails closed (`OnRecord`), and a request is ready only past all of them.
* `AnsweredOnceHolds`: what a key's first answered attempt left is in the shared
  store as long as it counts (`Answers`), and a later attempt has looked there.
* `ProtectionHoldsHolds`: whoever is about to drop something has seen it
  unprotected, so that what protects it came after the request began (`Seen`);
  every other step leaves protection as it was, takes it away, or dates it now
  (`ProtectionMoves` and the lemmas per handler after it).

`StorageProofs`, from the invariants `Clients /\ Homes /\ Keys` and `Reaching`:

* `LocationsFollowNamesHolds` (`Homes`): every place a table comes to is bounded
  by the place of its name at that time, or inside the place it had. The second
  needs that being inside is transitive (`WithinWithin`). Under the scope
  `warehouse` there is no such bound, and the property claims none; that a table
  of ours stays in its warehouse (`Housed`) is kept for the next theorem.
* `ReachFollowsNamesHolds` (`Reaching`): between finding a table and issuing for
  it the table may move, be renamed or go, so the request carries what it found
  in place (`Sited`) and what it has confined itself to there (`Confined`). That
  this bounds what the storage service does with it are lemmas on segments.
  `CredentialsReachWithin`: a prefix that ends in a slash matches only what is
  inside, and what a location is written with at its end counts for nothing.
  `ListedWithin`: a prefix inside a place, and not the place, ends with a segment
  that is complete or that the place says nothing of. `ReachIsConfined`: by cases
  of the forms of request (several keys in a body, a listing, a copy, one
  object), S3 acts on what `Resolve` confined, which needs that parameters are
  sent once. It is about requests written in the style the server reads
  (`RequestsAsRead`, always so under `auto`): read in another, the bucket is not
  the one S3 takes. The run's `signedByPath` and `signedByHost` go beyond it.
* `AccessIsEarnedHolds`, `WriteAccessIsOnRecordHolds` (`Clients`): for each
  phase, what the request has been permitted so far was permitted at some time
  of its life, and what it needed on record is there.
* `KeysOutliveAccessHolds` (`Keys`): a key kept has the margin left when it is
  used, and a fetched one its whole life less the time the fetch took.

`LifecycleProofs`, from `Guarded /\ Waited /\ Recent` and types:

* `EntryIsGuardedHolds`: what is running is `Server` of a configuration that was
  not refused, and the log it read was usable.
* `RequestsGetTheirTimeHolds`: no connection is younger than the drain
  (`Waited`), so with `RequestTimeout <= DrainTimeout` (`LifecycleAssumption`)
  the drain's end finds none that has time left.
* `ReadyIsRecentHolds`: how long ago a component was seen up is bounded by the
  age of the check that saw it and the time a check may take (`Recent`).

`AdmissionProofs`, from one invariant, `AdmissionInv`, the types and

* `Ledgers`, for `AllowancesHold`: that no stretch exceeds its allowance is not
  inductive, for the next request may be let past in the middle of one. What is,
  is that what was let past plus what the bucket still holds is within the
  allowance, over every stretch up to the time the bucket was last counted, and
  that nothing was let past since (`Ledger`). A bucket the cache forgets comes
  back full, and is within bounds because it had been idle long enough to be
  full (`RateLimitsAssumption`). The products of rates and times are treated as
  numbers with the laws stated in `Accrued`.
* `Spaced`, for `RefetchesSpaced`: the last fetch for an unknown key is kept, and
  the number made is bounded by its time.
* `Gone`, for `DeletedKeysAdmitNobodyHolds`: a deleted key is not listed, and
  only what is listed is found by its prefix. An update that read the record
  before writes it back, but not into the list. The property is about servers
  that ask for credentials (`Mechanisms # <<>>`); `Looking` says that a request
  with none to ask for has none to try.
* `Failures`, for `BansStand`: a ban ends within `BanTime` of its entry's last
  use, so that an entry idle for an hour has no ban standing
  (`BanTime <= Hour`), and whoever is about to count a failure took its entry
  within this tick.

`ListingProofs`: `CallsAsPromisedHolds`, for any mounts, names and stores. What
the stores hold, by the names clients give, is `Merged`, and each action of
`Federation` is shown to be the move of `CatalogSpec` it promises.

* That a change in one store is a change of one name outside, and of no other,
  is `MergedSet`, which rests on names being told apart by their store and their
  name in it (`SamePath`, `SameIdent`): a mount's first part is taken off, and
  what is left of two names is equal only if they were. The parent of a
  namespace is its parent in the store, or the mount's root (`ParentFacts`).
* The invariant is `StoresInv`: what is staged is known, no table or view is at
  a mount's root, and a file's last write is not after the writes so far, so that
  one just written is nobody's (`NextIsFresh`). `Committed` is the transaction,
  whose tables are all in one store (`Targets`).
* What a remote's own clients do is seen by prefixed names (`BehindNames`).
* It assumes `WholeScans`: no name begins above U+FFFF, where redb ends its scans
  (`redb.rs:516`). A namespace with such a name in it would be dropped, which no
  contract allows. The run `listings` meets it (`PastEnd` is empty).

`EveryNameOnceHolds`, also of `ListingProofs` and also under `WholeScans`, is for
any clients, mounts, rows, page sizes, and any number of changes and failures.
Its argument is in terms of what a position in a listing is *past*:

* Rows are read by intervals of the order of names (`InOrder`, `After` in
  `Paging`), so that what a page contains needs no induction: the rank of a name
  among the rows is a bijection onto `1..n` (`Ranked`, `InOrderIs`).
* `Passed` is what a position is past. In a store and in the root it is a set of
  names, whatever rows there are. In a remote listing the position counts rows
  from the start of a page, so that what it is past depends on the rows.
* `Serves` is what is shown of a page from a position, once for each kind of
  source (`StorePages`, `RootPages`, `DividingRemote`, `WholeRemote`,
  `IdleRemote`): it leaves out no row between two positions (`Complete`), holds
  none that the position is past already (`InTurn`), and gives only positions
  that can be resumed (`GoesOn`). The last is why `page_query` asks for the
  skipped rows on top: else a page as short as the skip would be served again.
* The inductive invariant is `ListingInv`. For each client (`Followed`), what is
  wanted and passed has been shown or is kept for the page under way
  (`NoneLost`), and what has been shown or kept is passed, while what the page
  still holds comes after it (`NoneTwice`). `EveryNameOnce` alone says nothing of
  a listing half way. The two are apart because a remote keeps the first while
  rows are only added (`PassedLess`: a row added before a position moves it
  back), and the second only while its rows stay.
* Between two fetches the catalogs change: `ChangeFollowed`. That a view is
  never in a remote's store (`NoRemoteViews`) is part of the invariant.

The constants are constrained only by the named `ASSUME`s of the modules that
declare them. Those that say something of a deployment:

* `RateLimitsAssumption`: a ban is no longer than the hour and a bucket is full
  before its entry is idle too long, which the comments say and the
  configuration does not check (what happens otherwise is under Admission below);
* `DelegationKeysAssumption`: a key lives at least as long as a signature and an
  exchange;
* `LifecycleAssumption`: above;
* `WarehousesAssumption` of `Resources`: the place of a name is a location, and
  a default location is inside it, which holds where warehouses are written
  without a trailing slash, as `postgres.rs:102` makes them and `redb.rs:376`
  does not. It is assumed because what a recursive filter over a sequence
  returns is out of the prover's reach. So is that both are inside the warehouse
  of their name;
* `ObjectsAssumption` of `Locations`: objects are in buckets that have a name,
  of S3, GCS or Azure, and no key has a segment `..`, which every location check
  refuses while a credential's prefix would let it be reached;
* `FederationAssumption`: at the start no table is in a namespace that is not
  there, and no store has a namespace by a mount's name, which is refused before
  the server starts.

Others say that `None` is none of the values it stands beside
(`PointerAssumption`, `ClockAssumption`, `NamesAssumption`, where names are also
said to be in the order that listings follow), and of what kind a scenario is
(`AdmissionAssumption`, `ListingAssumption`).

### Only model-checked

* `ReaderGetsItsRows`, `PermitsOnlyAdd`, `MasksAreKept` and `NotModifiedIsTrue`
  of `TableAccess`, whose filters and columns are trees read by recursive
  operators: what those compute for every tree needs induction over data.
* What is under fairness (`RequestsEnd`, `FollowersConverge`, `ListingsEnd`,
  `EverythingEnds`), which the prover does not handle.

## Not modelled

* Contents of metadata: schemas (but for the columns of `TableAccess`),
  snapshots, the row-lineage check of a commit. The models know which write a
  file results from.
* What request bodies must look like, content negotiation, and the wording of
  errors.
* Cedar's own evaluation of a condition, which is an input, and comparisons
  other than equality, whose binding is the same code.
* The cryptography of tokens and signatures: a token fits a key or does not.
* Reading manifests: a plan's files are those whose rows may match.
* Object-store failures other than a request cut off or a call that fails.
* The capacity of caches, and the GCS token cache, which hands a token out for
  the rest of its life.
* Metrics, diagnostics and the static console, which count and print; the other
  subcommands of the command line.

## Observed, and left as it is

Where the code is at odds with what a document, a comment or a reader would
have it do. `keys_turned_off` shows the first; the rest were met while
modelling, and the models do as the code does unless a line says it is left out.

Configuration and start

* Nothing reads `api_key_enabled` (`server_config.rs:139`).
* With `jwt_enabled` and no `jwt` section a bootstrap key is minted, though the
  configuration's comments require the section. `[tls]` in the file is
  validated, and only the command line's is used.
* Two replicas that start on an empty store both append their seed, one perhaps
  after an administrator's confirmed change (`app.rs:1222`), which it undoes,
  against 1170-1173; `FileSeedsOnce` is what does hold. A file with no rule in it is
  stored before it is refused (`app.rs:1235`), and a start that fails later
  leaves what it seeded.
* `DRAIN_TIMEOUT` is "comfortably over the request timeout" (`start.rs:36`), and
  as long (`app.rs:442`). A second signal during delay or drain does nothing.
  Readiness does not look at draining. A readiness check whose client leaves is
  made again at once (`health.rs:271`).
* "Only native exists today" (`app.rs:1064`) is out of date.

Backends

* redb checks the namespace of a new view, table, registration or rename in
  another transaction than the one that inserts (`redb.rs:1362`, against 109):
  a namespace dropped in between leaves an orphan.
* A purge deletes the files of the table it loaded, though that has been renamed
  and is in use (`redb.rs:1040`, against `purge.rs:85`).
* redb ends the scan of a namespace's contents at U+FFFF (`redb.rs:516`): names
  that begin above are not listed, and their namespace counts as empty.
* A staging is checked against the tables in one transaction and recorded in
  another (`redb.rs:949`, 985), so a name can be staged and real at once, which
  the comment at 1784 excludes; a later create may pick the staging up.
* When a later table's requirement fails, the files written for earlier tables
  of the transaction stay (`redb.rs:1617`), as does that of a Postgres view
  update that lost (`postgres.rs:1541`). They are unreferenced.
* redb keeps a trailing slash of a warehouse (376), which puts the default place
  of a table (540) outside its own bound (`location.rs:183`).
* A rename that Postgres picks as a deadlock's victim is answered and not made
  again (`postgres.rs:1084`, 1741).

Handlers and receipts

* `update_namespace_properties` merges into what it read before, so of two
  updates one is lost: protection may be undone and a former owner written back
  (`namespace.rs:440`).
* "One owner per subtree" (`namespace.rs:209`) may not hold: the parent is read
  before the child is made (261), and the Session decides a nested namespace by
  the caller's tenant without reading the parent (`session.rs:260`).
* A protected object may be dropped under a new name by a drop that read another
  there (`table.rs:1435`).
* A table is made, then vending fails: there is no receipt, and the retry is
  answered 409 (`table.rs:1022`). A crash between the call and its receipt lets
  the retry run again; for commits without requirements, so do two at once,
  against "the loser gets a 409" (`idempotency.rs:25`).
* Postgres keeps an expired receipt in the way of a new one, then prunes it.
  Scopes of receipts joined by `/` may coincide.

Policy and decisions

* `swap` replaces set and sequence under two locks: of two at once the older set
  may stay under the newer number (`reloadable.rs:72`, against 68), until the
  next change. `FollowersConverge` is of replicas where only the poller swaps.
* A revocation is in force where it has been polled: until its next poll another
  replica lets the principal through, with retries answered from receipts.
* Masks go by the names columns have now. A masked column that was renamed
  refuses the read (`plan.rs:689-717`), but not once another column has been given
  its name: then that one is withheld and the old one told, against
  `authorization.md:354`.
* A revision whose audit record fails is answered 503 and installed by the next
  poll (`policies.rs:407`).
* A decision's record names the set in force when it is written, not the one
  that decided (`guard.rs:274`, against 269).
* A mask on a map column refuses every load, though the message advises it
  (`restrictions.rs:139`, 146). Masks are met by name, so one on a struct and
  one on its field meet to nothing (`cedar.rs:779`).
* A reference with a name and an id is bound by the name in a plan and by the
  id in the published restriction (`predicate.rs:410`, `restrictions.rs:370`);
  the two treat case differently (`plan.rs:955`). A filter may compile and then
  be refused at a bind (`predicate.rs:670`).
* The obligations of a second decision are dropped (`guard.rs:148`).

Admission

* An outage of the identity provider counts as a rejected credential and bans
  its clients (`authn.rs:312`, against `error.rs:122`). While its key set has
  lapsed or is empty every request fetches (against `jwt_authn.rs:584`).
* A decoding key is used without looking at the age of its key set (591), and
  one decoded from an older set may be kept after a newer has cleared them
  (619): a withdrawn key may verify tokens for longer than 551 says.
* A limit of no failures bans after the first; a ban longer than the hour ends
  with its cache entry; a failure under way when the hour ends lifts a ban; a
  burst greater than five minutes' refill starts full after five idle minutes.

Listings

* A cursor into a remote's page counts rows to skip, so a row dropped before it
  loses one (`rest.rs:443`); a remote that ignores paging loses what is past its
  page. `EveryNameOnce` claims a remote's rows only while they stay.
* A namespace whose load fails for a moment is left out as if it were hidden
  (`namespace.rs:163`). Tables of a remote namespace that is gone are an error,
  its views an empty page (`rest.rs:713`, 823).

Access to files

* "Two resources cannot overlap" (`location.rs:434`) does not hold. A table `a.x`
  and a table `t` of the namespace `a.x` live in `wh/a/x` and `wh/a/x/t`, so that
  a credential for the first reaches the files of the second; and after a rename
  a table is in the place of a name another may take. `ReachFollowsNames` is
  about names a table has had, and does not say that no other table is there.
* Presigning asks whether a location is vendable and not whether its storage is
  this server's (`plan.rs`).
* With a duration over an hour an Azure signature outlives its key
  (`KEY_REFRESH_MARGIN`). A GCS token is taken to have an hour left whenever it
  is handed out (`gcs.rs:288`).
* A copy source drops empty segments (`sign.rs:829`) and a location does not
  (`location.rs:142`). With style `virtual-host` the whole host is the bucket
  (`sign.rs:895`, against 155). An endpoint host with a port matches nothing
  (887) and refuses everything.
* "Accepts by construction" (`view.rs:441`) is not so for a mount with its own
  warehouse.

## Plan

Done: every component that changes state has its module; the properties above
are checked, and those of both backends, policy administration, the handlers,
admission, the federation's calls and listings, the access to files and the
lifecycle proved. What is left, in this
order:

1. `MasksAreKept` for columns of bounded depth, written as functions.
2. The row-lineage check of commits, and comparisons other than equality.
