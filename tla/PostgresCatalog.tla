--------------------------- MODULE PostgresCatalog ---------------------------
(***************************************************************************)
(* The Postgres catalog backend: many replicas over one database and one   *)
(* object store, who waits for whom, and what must hold.                   *)
(***************************************************************************)
EXTENDS PostgresObjects, PostgresCommit

\* The row the next statement of an open transaction is about to lock.
Wants(c) ==
  CASE InPhase(c, "rename", "row")     -> <<req[c].kind, req[c].tab>>
    [] InPhase(c, "rename", "release") -> <<"name", req[c].tab>>
    [] req[c].phase = "cascade"        -> <<req[c].kind, req[c].tab>>
    [] InPhase(c, "commit", "lock")    -> RowOf(NextEntry(c))
    [] OTHER                           -> None

\* A set of transactions each of which waits for one of the others.
Deadlocked(S) ==
  /\ S # {}
  /\ \A c \in S : \E d \in S \ {c} : Wants(c) # None /\ Wants(c) \in held[d]

InDeadlock(c) == \E S \in SUBSET Client : c \in S /\ Deadlocked(S)

\* Postgres aborts one of them.  The error (40P01) is answered as it is: what
\* the request wrote to the store stays there.
DeadlockVictim(c) ==
  /\ InDeadlock(c)
  /\ Finish(c)
  /\ txn' = [txn EXCEPT ![c] = NoTransaction]
  /\ UNCHANGED <<relations, files, published, begun, wrote>>

Arrive(c) ==
  \/ \E op \in {"create", "stage"}, k \in Kind, t \in Ident : CreateWrite(c, op, k, t)
  \/ \E p \in published, t \in Ident : p[1] \in Kind /\ RegisterRead(c, p[1], t, p[2])
  \/ \E k \in Kind, t \in Ident : DropName(c, k, t)
  \/ \E t \in Ident : PurgeLoad(c, t)
  \/ \E k \in Kind, s, d \in Ident : RenameClaim(c, k, s, d)
  \/ \E v \in Ident : UpdateViewWrite(c, v)
  \/ CommitStart(c)

Continue(c) ==
  \/ Insert(c)
  \/ StageUpsert(c)
  \/ PurgeName(c)
  \/ Cascade(c)
  \/ PurgeDelete(c)
  \/ RenameRow(c)
  \/ RenameRelease(c)
  \/ UpdateViewSwap(c)
  \/ CommitPrepare(c)
  \/ CommitRefused(c)
  \/ CommitLock(c)
  \/ CommitNamespaceGone(c)
  \/ CommitLand(c)
  \/ CommitDiscard(c)

Next ==
  \/ \E n \in Namespace : CreateNamespace(n) \/ DropNamespace(n)
  \/ \E c \in Client : Arrive(c) \/ Continue(c) \/ Abandon(c) \/ DeadlockVictim(c)

Spec == Init /\ [][Next]_vars

-----------------------------------------------------------------------------
\* Type correctness, with what a request carries at each phase.
TypeOK ==
  /\ namespaces \subseteq Namespace
  /\ names \subseteq Ident
  /\ at \in [Kind -> [Ident -> MetadataFile \cup {None}]]
  /\ staged \in [Ident -> MetadataFile \cup {None}]
  /\ files \subseteq MetadataFile
  /\ published \subseteq {"table", "view", "staged"} \X MetadataFile
  /\ req \in [Client -> Request]
  /\ txn \in [Client -> Transaction]
  /\ held \in [Client -> SUBSET Row]
  /\ begun \in [Client -> 0..MaxRequests]
  /\ wrote \in [Client -> Nat]
  /\ \A c \in Client : held[c] # {} => req[c].phase \in {"cascade", "row", "release", "lock", "land"}

Rows(t) == {k \in Kind : at[k][t] # None}

\* Safety.  The names in use are exactly those of the tables and views, and each
\* is of one thing.  A name nothing holds would stop its namespace from ever being
\* dropped and the name from being used; a row without a name could be duplicated
\* (postgres.rs:177-190 and 500-505: two relations kept in step by hand, where a
\* drop and a rename of one table each lock the two rows in the other's order).
NamesMatchRows == \A t \in Ident : Cardinality(Rows(t)) = IF t \in names THEN 1 ELSE 0

\* Safety.  Every table, view and staging is in a namespace that exists, and
\* namespaces form a tree, however creations race the dropping of namespaces
\* (postgres.rs:147, 838-841).
ContentsHaveNamespace ==
  /\ \A t \in Ident : Rows(t) # {} \/ staged[t] # None => NsOf[t] \in namespaces
  /\ \A n \in namespaces : ParentOf[n] # None => ParentOf[n] \in namespaces

\* Safety.  Transactions that only commit never wait for one another in a circle:
\* "Two transactions that touch {A, B} and {B, A} would otherwise each hold one row
\* and wait for the other" (postgres.rs:1233-1237).
CommitsDoNotDeadlock ==
  \A S \in SUBSET {c \in Client : req[c].op = "commit"} : ~Deadlocked(S)

Abstract == INSTANCE CatalogSpec WITH
  tableAt <- at["table"], viewAt <- at["view"], stagedAt <- staged,
  known <- published, SeedPointer <- SeedFile

\* Refinement.  The contract the embedded backend also meets: each method changes
\* the registry at one moment, by one legal move.
Linearizable == Abstract!AbsSpec
=============================================================================
