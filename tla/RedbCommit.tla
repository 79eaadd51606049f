----------------------------- MODULE RedbCommit -----------------------------
(***************************************************************************)
(* commit_tables_atomic of src/catalog/redb.rs: the one path every table   *)
(* commit takes.  An attempt reads each table and writes its next metadata *)
(* file (phase 1 and 2), then swaps every pointer in one transaction       *)
(* (phase 3); an attempt that lost a race is made again from the start.    *)
(***************************************************************************)
EXTENDS RedbState

\* The attempts of a commit are made afresh: nothing is kept from the last one.
Attempt(changes, n) == [changes |-> changes, prepared |-> <<>>, attempt |-> n]

\* What a client may ask of t now: it has loaded the tables it appends to, and
\* may or may not assert that they stay as it saw them.
Requests(t) ==
  {[tab |-> t, kind |-> "create", seen |-> <<>>]}
  \cup IF tables[t] = None THEN {}
       ELSE {[tab |-> t, kind |-> "append", seen |-> <<>>],
             [tab |-> t, kind |-> "guarded", seen |-> tables[t].file]}

\* A transaction names each table at most once (v1/table.rs:1918).
CommitStart(c) ==
  /\ \E n \in 1..MaxChanges :
       \E changes \in [1..n -> UNION {Requests(t) : t \in Ident}] :
         /\ \A i, j \in 1..n : changes[i].tab = changes[j].tab => i = j
         /\ txn' = [txn EXCEPT ![c] = Attempt(changes, 1)]
  /\ Begin(c, [Idle EXCEPT !.op = "commit", !.phase = "prepare"])
  /\ UNCHANGED <<registry, files, published, wrote>>

-----------------------------------------------------------------------------
(* Phases 1 and 2: one change at a time, in the order of the request         *)

NextChange(c) == txn[c].changes[Len(txn[c].prepared) + 1]

\* The metadata the change is applied to: the table's, or what was staged for
\* a table this commit is to create.
Base(ch) == IF tables[ch.tab] # None THEN tables[ch.tab].file ELSE staged[ch.tab]

NotFound(ch) ==
  \/ tables[ch.tab] = None /\ (ch.kind # "create" \/ staged[ch.tab] = None)
  \/ Base(ch) \notin files

\* TableRequirement::check, which answers CatalogCommitConflicts.
RequirementFails(ch) ==
  /\ tables[ch.tab] # None
  /\ \/ ch.kind = "create"
     \/ ch.kind = "guarded" /\ tables[ch.tab].file # ch.seen

RetryForever(c) ==   \* the attempts are not counted
  /\ txn' = [txn EXCEPT ![c] = Attempt(@.changes, @.attempt)]
  /\ req' = [req EXCEPT ![c].phase = "prepare"]

\* commit_tables_atomic, on a conflict: another attempt, or give up with 409.
Retry(c) ==
  IF txn[c].attempt < COMMIT_MAX_RETRIES
  THEN /\ txn' = [txn EXCEPT ![c] = Attempt(@.changes, @.attempt + 1)]
       /\ req' = [req EXCEPT ![c].phase = "prepare"]
  ELSE /\ txn' = [txn EXCEPT ![c] = NoTransaction]
       /\ Finish(c)

CommitPrepare(c) ==
  /\ InPhase(c, "commit", "prepare")
  /\ LET ch == NextChange(c)
         f  == Append(Base(ch), FreshId(c))
         p  == [tab |-> ch.tab, expected |-> tables[ch.tab], file |-> f]
         all == Append(txn[c].prepared, p)
     IN /\ ~NotFound(ch)
        /\ ~RequirementFails(ch)
        /\ WriteFile(c, f)
        /\ txn' = [txn EXCEPT ![c].prepared = all]
        /\ req' = [req EXCEPT ![c].phase =
                     IF Len(all) = Len(txn[c].changes) THEN "swap" ELSE "prepare"]
  /\ UNCHANGED <<registry, published, begun>>

\* A requirement failed: a conflict, retried.  The files this attempt has
\* already written for earlier tables stay where they are.
CommitRefused(c) ==
  /\ InPhase(c, "commit", "prepare")
  /\ ~NotFound(NextChange(c))
  /\ RequirementFails(NextChange(c))
  /\ Retry(c)
  /\ UNCHANGED <<registry, files, published, begun, wrote>>

\* No such table, nothing staged, or its metadata cannot be read: an error.
CommitNotFound(c) ==
  /\ InPhase(c, "commit", "prepare")
  /\ NotFound(NextChange(c))
  /\ Finish(c)
  /\ txn' = [txn EXCEPT ![c] = NoTransaction]
  /\ UNCHANGED <<registry, files, published, begun, wrote>>

-----------------------------------------------------------------------------
(* Phase 3: the swap, one write transaction                                 *)

LandsIfThere(p) ==   \* an update only looks whether the table is there
  \/ p.expected # None /\ tables[p.tab] # None
  \/ p.expected = None /\ NamespaceExists(p.tab) /\ ~NameTaken(p.tab)

\* An update finds the record exactly as it was read; a create finds the
\* namespace, no view and no table.
Lands(p) ==
  \/ p.expected # None /\ tables[p.tab] = p.expected
  \/ p.expected = None /\ NamespaceExists(p.tab) /\ ~NameTaken(p.tab)

\* What did not land is a conflict with another commit, save a create whose
\* namespace is gone or whose name a view has taken: those are errors.
Conflicts(p) == p.expected # None \/ (NamespaceExists(p.tab) /\ views[p.tab] = None)

Refused(c) == {i \in DOMAIN txn[c].prepared : ~Lands(txn[c].prepared[i])}

NextRecord(p) ==
  [file |-> p.file, version |-> IF p.expected = None THEN 0 ELSE p.expected.version + 1]

OnlyFirst(c, t) ==   \* the transaction ends after its first table
  {i \in DOMAIN txn[c].prepared : i = 1 /\ txn[c].prepared[i].tab = t}

\* Where the prepared record of t is.
SwapOf(c, t) == {i \in DOMAIN txn[c].prepared : txn[c].prepared[i].tab = t}

\* Every check passed: all pointers move, and what was staged is consumed.
CommitSwap(c) ==
  /\ InPhase(c, "commit", "swap")
  /\ Refused(c) = {}
  /\ LET all == txn[c].prepared
     IN /\ tables' = [t \in Ident |->
             IF SwapOf(c, t) = {} THEN tables[t]
             ELSE NextRecord(all[CHOOSE i \in SwapOf(c, t) : TRUE])]
        /\ staged' = [t \in Ident |->
             IF \E i \in SwapOf(c, t) : all[i].expected = None THEN None ELSE staged[t]]
        /\ published' = published \cup {<<"table", all[i].file>> : i \in DOMAIN all}
  /\ Finish(c)
  /\ txn' = [txn EXCEPT ![c] = NoTransaction]
  /\ UNCHANGED <<namespaces, views, files, begun, wrote>>

\* The first check that fails aborts the transaction and names the error.
CommitSwapLost(c) ==
  /\ InPhase(c, "commit", "swap")
  /\ \E i \in Refused(c) :
       /\ \A j \in Refused(c) : i <= j
       /\ req' = [req EXCEPT ![c].phase =
                    IF Conflicts(txn[c].prepared[i]) THEN "discard" ELSE "abort"]
  /\ UNCHANGED <<registry, files, published, txn, begun, wrote>>

NoFile(c) == {}   \* nothing is cleaned up

WrittenByAttempt(c) == {txn[c].prepared[i].file : i \in DOMAIN txn[c].prepared}

\* The files of an attempt whose swap was lost are deleted, then it is retried
\* or the error answered.
CommitDiscard(c) ==
  /\ req[c].op = "commit"
  /\ files' = files \ WrittenByAttempt(c)
  /\ \/ /\ req[c].phase = "discard"
        /\ Retry(c)
     \/ /\ req[c].phase = "abort"
        /\ Finish(c)
        /\ txn' = [txn EXCEPT ![c] = NoTransaction]
  /\ UNCHANGED <<registry, published, begun, wrote>>
=============================================================================
