----------------------------- MODULE CatalogSpec -----------------------------
(***************************************************************************)
(* What the catalog promises its callers about the registry, whatever      *)
(* backend keeps it (the CatalogStore trait of src/catalog/store.rs): each *)
(* method takes effect at once or not at all.  There are no requests in    *)
(* flight here, no version numbers, no retries and no object store.        *)
(*                                                                         *)
(* A pointer is the history of writes it is the result of, as in           *)
(* RedbState.  The one promise missing is that a table or view is created  *)
(* in a namespace that exists: only a first commit keeps it.               *)
(***************************************************************************)
EXTENDS Naturals, Sequences

CONSTANTS Namespace, ParentOf, Ident, NsOf, None, InitNamespaces, InitTables, InitViews,
          SeedPointer(_)   \* where each initial table and view points

VARIABLES
  namespaces,   \* the namespaces that exist
  tableAt,      \* where each table points, or None
  viewAt,       \* where each view points, or None
  stagedAt,     \* what is staged under each name, or None
  known         \* <<kind, pointer>> for every pointer there has ever been

absVars == <<namespaces, tableAt, viewAt, stagedAt, known>>

NameFree(t) == tableAt[t] = None /\ viewAt[t] = None

\* A pointer no record has ever held.
Fresh(f) == \A k \in known : k[2] # f

\* One more write on top of old.
WrittenOn(f, old) == Len(f) = Len(old) + 1 /\ SubSeq(f, 1, Len(old)) = old

AbsInit ==
  LET at(S) == [t \in Ident |-> IF t \in S THEN SeedPointer(t) ELSE None]
  IN /\ namespaces = InitNamespaces
     /\ tableAt = at(InitTables)
     /\ viewAt = at(InitViews)
     /\ stagedAt = [t \in Ident |-> None]
     /\ known = {<<"table", SeedPointer(t)>> : t \in InitTables}
                \cup {<<"view", SeedPointer(v)>> : v \in InitViews}

AbsCreateNamespace(n) ==
  /\ n \notin namespaces
  /\ ParentOf[n] # None => ParentOf[n] \in namespaces
  /\ namespaces' = namespaces \cup {n}
  /\ UNCHANGED <<tableAt, viewAt, stagedAt, known>>

\* Only an empty namespace goes, and what is staged in it goes too.
AbsDropNamespace(n) ==
  /\ n \in namespaces
  /\ \A t \in Ident : NsOf[t] = n => NameFree(t)
  /\ \A m \in namespaces : ParentOf[m] # n
  /\ namespaces' = namespaces \ {n}
  /\ stagedAt' = [t \in Ident |-> IF NsOf[t] = n THEN None ELSE stagedAt[t]]
  /\ UNCHANGED <<tableAt, viewAt, known>>

\* A table begins at a pointer of its own, or at one that is registered again.
AbsCreateTable(t, f) ==
  /\ NameFree(t) /\ f # None
  /\ Fresh(f) \/ <<"table", f>> \in known
  /\ tableAt' = [tableAt EXCEPT ![t] = f]
  /\ known' = known \cup {<<"table", f>>}
  /\ UNCHANGED <<namespaces, viewAt, stagedAt>>

AbsStage(t, f) ==
  /\ f # None
  /\ Fresh(f)
  /\ stagedAt' = [stagedAt EXCEPT ![t] = f]
  /\ known' = known \cup {<<"staged", f>>}
  /\ UNCHANGED <<namespaces, tableAt, viewAt>>

\* A transaction over the tables S, all at once: one that exists moves on by one
\* write, one that does not is made of something that was staged, and what is
\* staged under its name goes, unless it was staged meanwhile.
AbsCommit(S) ==
  /\ S # {}
  /\ DOMAIN tableAt' = Ident
  /\ \A t \in Ident \ S : tableAt'[t] = tableAt[t]
  /\ \A t \in S :
       /\ tableAt'[t] # None
       /\ Fresh(tableAt'[t])
       /\ IF tableAt[t] # None
          THEN WrittenOn(tableAt'[t], tableAt[t])
          ELSE /\ viewAt[t] = None
               /\ NsOf[t] \in namespaces
               /\ \E k \in known : k[1] = "staged" /\ WrittenOn(tableAt'[t], k[2])
  /\ DOMAIN stagedAt' = Ident
  /\ \A t \in Ident :
       \/ stagedAt'[t] = stagedAt[t]
       \/ t \in S /\ tableAt[t] = None /\ stagedAt'[t] = None
  /\ known' = known \cup {<<"table", tableAt'[t]>> : t \in S}
  /\ UNCHANGED <<namespaces, viewAt>>

AbsDropTable(t) ==
  /\ tableAt[t] # None
  /\ tableAt' = [tableAt EXCEPT ![t] = None]
  /\ UNCHANGED <<namespaces, viewAt, stagedAt, known>>

AbsRenameTable(s, d) ==
  /\ tableAt[s] # None /\ NameFree(d)
  /\ tableAt' = [tableAt EXCEPT ![d] = tableAt[s], ![s] = None]
  /\ UNCHANGED <<namespaces, viewAt, stagedAt, known>>

AbsCreateView(v, f) ==
  /\ NameFree(v) /\ f # None
  /\ Fresh(f) \/ <<"view", f>> \in known
  /\ viewAt' = [viewAt EXCEPT ![v] = f]
  /\ known' = known \cup {<<"view", f>>}
  /\ UNCHANGED <<namespaces, tableAt, stagedAt>>

AbsUpdateView(v, f) ==
  /\ viewAt[v] # None /\ f # None
  /\ Fresh(f) /\ WrittenOn(f, viewAt[v])
  /\ viewAt' = [viewAt EXCEPT ![v] = f]
  /\ known' = known \cup {<<"view", f>>}
  /\ UNCHANGED <<namespaces, tableAt, stagedAt>>

AbsDropView(v) ==
  /\ viewAt[v] # None
  /\ viewAt' = [viewAt EXCEPT ![v] = None]
  /\ UNCHANGED <<namespaces, tableAt, stagedAt, known>>

AbsRenameView(s, d) ==
  /\ viewAt[s] # None /\ NameFree(d)
  /\ viewAt' = [viewAt EXCEPT ![d] = viewAt[s], ![s] = None]
  /\ UNCHANGED <<namespaces, tableAt, stagedAt, known>>

AbsNext ==
  \/ \E n \in Namespace : AbsCreateNamespace(n) \/ AbsDropNamespace(n)
  \/ \E t \in Ident : AbsCreateTable(t, tableAt'[t])
  \/ \E t \in Ident : AbsStage(t, stagedAt'[t])
  \/ \E S \in SUBSET Ident : AbsCommit(S)
  \/ \E t \in Ident : AbsDropTable(t)
  \/ \E s, d \in Ident : AbsRenameTable(s, d)
  \/ \E v \in Ident : AbsCreateView(v, viewAt'[v])
  \/ \E v \in Ident : AbsUpdateView(v, viewAt'[v])
  \/ \E v \in Ident : AbsDropView(v)
  \/ \E s, d \in Ident : AbsRenameView(s, d)

AbsSpec == AbsInit /\ [][AbsNext]_absVars
=============================================================================
