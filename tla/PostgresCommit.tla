---------------------------- MODULE PostgresCommit ----------------------------
(***************************************************************************)
(* commit_tables_atomic of src/catalog/postgres.rs: each attempt reads the *)
(* tables and writes their next metadata files outside any transaction,    *)
(* then swaps the pointers in one transaction that locks the rows in the   *)
(* byte order of their names.                                              *)
(***************************************************************************)
EXTENDS PostgresState

Attempt(changes, n) ==
  [changes |-> changes, prepared |-> <<>>, locked |-> {}, attempt |-> n]

\* What a client may ask of t: it has loaded the tables it appends to.
Requests(t) ==
  {[tab |-> t, kind |-> "create", seen |-> <<>>]}
  \cup IF at["table"][t] = None THEN {}
       ELSE {[tab |-> t, kind |-> "append", seen |-> <<>>],
             [tab |-> t, kind |-> "guarded", seen |-> at["table"][t]]}

CommitStart(c) ==
  /\ \E n \in 1..MaxChanges :
       \E changes \in [1..n -> UNION {Requests(t) : t \in Ident}] :
         /\ \A i, j \in 1..n : changes[i].tab = changes[j].tab => i = j
         /\ txn' = [txn EXCEPT ![c] = Attempt(changes, 1)]
  /\ Begin(c, [Idle EXCEPT !.op = "commit", !.phase = "prepare"])
  /\ UNCHANGED <<relations, files, published, held, wrote>>

-----------------------------------------------------------------------------
(* Phases 1 and 2: stage_commit, in the order of the request                *)

NextChange(c) == txn[c].changes[Len(txn[c].prepared) + 1]

\* The table's metadata, or what was staged if there is no table.
Base(ch) == IF at["table"][ch.tab] # None THEN at["table"][ch.tab] ELSE staged[ch.tab]

NotFound(ch) ==
  \/ at["table"][ch.tab] = None /\ (ch.kind # "create" \/ staged[ch.tab] = None)
  \/ Base(ch) \notin files

RequirementFails(ch) ==
  /\ at["table"][ch.tab] # None
  /\ \/ ch.kind = "create"
     \/ ch.kind = "guarded" /\ at["table"][ch.tab] # ch.seen

CommitPrepare(c) ==
  /\ InPhase(c, "commit", "prepare")
  /\ LET ch == NextChange(c)
         f  == Append(Base(ch), FreshId(c))
         p  == [tab |-> ch.tab, expected |-> at["table"][ch.tab], file |-> f]
         all == Append(txn[c].prepared, p)
     IN /\ ~NotFound(ch) /\ ~RequirementFails(ch)
        /\ WriteFile(c, f)
        /\ txn' = [txn EXCEPT ![c].prepared = all]
        /\ GoTo(c, IF Len(all) = Len(txn[c].changes) THEN "lock" ELSE "prepare")
  /\ UNCHANGED <<relations, published, held, begun>>

\* No table, nothing staged, or a requirement that does not hold: the request
\* is answered at once, and the files of earlier tables stay.
CommitRefused(c) ==
  /\ InPhase(c, "commit", "prepare")
  /\ NotFound(NextChange(c)) \/ RequirementFails(NextChange(c))
  /\ Finish(c)
  /\ txn' = [txn EXCEPT ![c] = NoTransaction]
  /\ UNCHANGED <<relations, files, published, begun, wrote>>

-----------------------------------------------------------------------------
(* Phase 3: the swap                                                        *)

Unlocked(c) == DOMAIN txn[c].prepared \ txn[c].locked

RequestOrder(c) ==   \* not sorted
  CHOOSE i \in Unlocked(c) : \A j \in Unlocked(c) : i <= j

\* lock_order: of the entries left, the first by name.
NextIndex(c) ==
  CHOOSE i \in Unlocked(c) : \A j \in Unlocked(c) :
    Rank[txn[c].prepared[i].tab] <= Rank[txn[c].prepared[j].tab]

NextEntry(c) == txn[c].prepared[NextIndex(c)]

\* An update locks the table's row, a create the name.
RowOf(p) == IF p.expected = None THEN <<"name", p.tab>> ELSE <<"table", p.tab>>

\* A create deletes the staging it consumes, if it is still there.
StagingOf(p) ==
  IF p.expected = None /\ staged[p.tab] # None THEN {<<"staged", p.tab>>} ELSE {}

\* Bug: the update asks only for the row.
LandsOnAnyRow(p) ==
  IF p.expected = None THEN ~NameTaken(p.tab) ELSE at["table"][p.tab] # None

\* UPDATE .. WHERE metadata_location = expected, and claim_name.
Lands(p) == IF p.expected = None THEN ~NameTaken(p.tab) ELSE at["table"][p.tab] = p.expected

\* One statement of the transaction, once its row is free.
CommitLock(c) ==
  /\ InPhase(c, "commit", "lock")
  /\ LET p == NextEntry(c)
     IN /\ ~Locked(c, RowOf(p))
        /\ p.expected = None => ReferenceHolds(p.tab)
        /\ IF Lands(p)
           THEN /\ Lock(c, {RowOf(p)} \cup StagingOf(p))
                /\ txn' = [txn EXCEPT ![c].locked = @ \cup {NextIndex(c)}]
                /\ GoTo(c, IF Unlocked(c) = {NextIndex(c)} THEN "land" ELSE "lock")
           ELSE /\ held' = [held EXCEPT ![c] = {}]
                /\ GoTo(c, "discard")
                /\ UNCHANGED txn
  /\ UNCHANGED <<relations, files, published, begun, wrote>>

\* The namespace of a table to be created is gone: an error, and what was
\* written is left in the store.
CommitNamespaceGone(c) ==
  /\ InPhase(c, "commit", "lock")
  /\ NextEntry(c).expected = None
  /\ ~Locked(c, RowOf(NextEntry(c)))
  /\ ~ReferenceHolds(NextEntry(c).tab)
  /\ Finish(c)
  /\ txn' = [txn EXCEPT ![c] = NoTransaction]
  /\ UNCHANGED <<relations, files, published, begun, wrote>>

SwapOf(c, t) == {i \in DOMAIN txn[c].prepared : txn[c].prepared[i].tab = t}

\* COMMIT: every pointer moves.
CommitLand(c) ==
  /\ InPhase(c, "commit", "land")
  /\ LET all == txn[c].prepared
         new(t) == all[CHOOSE i \in SwapOf(c, t) : TRUE].file
     IN /\ at' = [at EXCEPT !["table"] =
             [t \in Ident |-> IF SwapOf(c, t) = {} THEN @[t] ELSE new(t)]]
        /\ names' = names \cup {all[i].tab : i \in DOMAIN all}
        /\ published' = published \cup {<<"table", all[i].file>> : i \in DOMAIN all}
  /\ staged' = [t \in Ident |-> IF <<"staged", t>> \in held[c] THEN None ELSE staged[t]]
  /\ Finish(c)
  /\ txn' = [txn EXCEPT ![c] = NoTransaction]
  /\ UNCHANGED <<namespaces, files, begun, wrote>>

Retry(c) ==
  IF txn[c].attempt < COMMIT_MAX_RETRIES
  THEN /\ txn' = [txn EXCEPT ![c] = Attempt(@.changes, @.attempt + 1)]
       /\ GoTo(c, "prepare") /\ UNCHANGED held
  ELSE txn' = [txn EXCEPT ![c] = NoTransaction] /\ Finish(c)

WrittenByAttempt(c) == {txn[c].prepared[i].file : i \in DOMAIN txn[c].prepared}

\* A conflict: the transaction is rolled back, its files discarded, and the
\* whole attempt made again.
CommitDiscard(c) ==
  /\ InPhase(c, "commit", "discard")
  /\ files' = files \ WrittenByAttempt(c)
  /\ Retry(c)
  /\ UNCHANGED <<relations, published, begun, wrote>>
=============================================================================
