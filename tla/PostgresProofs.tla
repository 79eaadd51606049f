---------------------------- MODULE PostgresProofs ----------------------------
(***************************************************************************)
(* Of the Postgres backend, for any number of replicas and clients, names  *)
(* and requests: its state keeps its type; its commits, which lock in the  *)
(* order of names, cannot deadlock one another; names and rows agree; what *)
(* a namespace holds keeps it there; and it implements the abstract        *)
(* catalog.                                                                *)
(***************************************************************************)
EXTENDS PostgresCatalog, FiniteSetTheorems, SequenceTheorems, WellFoundedInduction, TLAPS

-----------------------------------------------------------------------------
(* Least and greatest numbers                                               *)

Below == {p \in Nat \X Nat : p[1] < p[2]}

LEMMA Least ==
  ASSUME NEW Q, Q \subseteq Nat, Q # {}
  PROVE  \E m \in Q : \A n \in Q : m <= n
<1>1. IsWellFoundedOn(Below, Nat)
  BY NatLessThanWellFounded DEF OpToRel, Below
<1>2. \E m \in Q : \A n \in Q : <<n, m>> \notin Below
  BY <1>1, WFMin
<1>3. PICK m \in Q : \A n \in Q : <<n, m>> \notin Below
  BY <1>2
<1>4. ASSUME NEW n \in Q PROVE m <= n
  <2>1. m \in Nat /\ n \in Nat
    OBVIOUS
  <2>2. ~(n < m)
    BY <1>3, <2>1 DEF Below
  <2> QED
    BY <2>1, <2>2
<1> QED
  BY <1>4

LEMMA Greatest ==
  ASSUME NEW Q, Q \subseteq Nat, Q # {}, NEW z \in Nat, \A n \in Q : n <= z
  PROVE  \E m \in Q : \A n \in Q : n <= m
<1> DEFINE D == {z - n : n \in Q}
<1>1. D \subseteq Nat /\ D # {}
  <2>1. ASSUME NEW n \in Q PROVE z - n \in Nat
    <3>1. n \in Nat /\ n <= z
      OBVIOUS
    <3> QED
      BY <3>1
  <2> QED
    BY <2>1
<1>2. PICK d \in D : \A e \in D : d <= e
  <2> HIDE DEF D
  <2> QED
    BY <1>1, Least
<1>3. PICK m \in Q : d = z - m
  OBVIOUS
<1>4. ASSUME NEW n \in Q PROVE n <= m
  <2>1. m \in Nat /\ n \in Nat
    OBVIOUS
  <2>2. z - m <= z - n
    BY <1>2, <1>3
  <2> QED
    BY <2>1, <2>2
<1> QED
  BY <1>4

-----------------------------------------------------------------------------
(* What a request, its commit and its locks are at each phase               *)

CommitPhase == {"prepare", "lock", "land", "discard"}

Left(x) == DOMAIN x.prepared \ x.locked

\* A transaction prepares the tables it names, each named once, in turn.
WellFormed(x) ==
  /\ Len(x.changes) > 0
  /\ \A i, j \in DOMAIN x.changes : x.changes[i].tab = x.changes[j].tab => i = j
  /\ Len(x.prepared) <= Len(x.changes)
  /\ \A i \in DOMAIN x.prepared : x.prepared[i].tab = x.changes[i].tab
  /\ x.locked \subseteq DOMAIN x.prepared

\* The rows held are those of tables that sort before all that are left.
InOrder(x, h) ==
  /\ \A i \in x.locked, j \in Left(x) : Rank[x.prepared[i].tab] < Rank[x.prepared[j].tab]
  /\ \A r \in h : \E i \in x.locked : r[2] = x.prepared[i].tab

Fit(r, x, h) ==
  /\ r.op = "commit" => r.phase \in CommitPhase \cup {"idle"}
  /\ r.phase \notin CommitPhase \cup {"idle"} => r.tab \in Ident
  /\ r.phase \in {"row", "release"} => r.dest \in Ident
  /\ h # {} => r.phase \in {"cascade", "row", "release", "lock", "land"}
  /\ r.phase \in CommitPhase =>
       /\ WellFormed(x)
       /\ InOrder(x, h)
       /\ r.phase = "prepare" => x.locked = {} /\ Len(x.prepared) < Len(x.changes)
       /\ r.phase = "lock" => Left(x) # {}

Clients == /\ req \in [Client -> Request]
           /\ txn \in [Client -> Transaction]
           /\ held \in [Client -> SUBSET Row]
           /\ \A c \in Client :
                held[c] # {} => req[c].phase \in {"cascade", "row", "release", "lock", "land"}
           /\ \A c \in Client : Fit(req[c], txn[c], held[c])

Objects == /\ namespaces \subseteq Namespace
           /\ names \subseteq Ident
           /\ at \in [Kind -> [Ident -> MetadataFile \cup {None}]]
           /\ staged \in [Ident -> MetadataFile \cup {None}]
           /\ files \subseteq MetadataFile
           /\ published \subseteq {"table", "view", "staged"} \X MetadataFile
           /\ begun \in [Client -> 0..MaxRequests]
           /\ wrote \in [Client -> Nat]

\* The inductive invariant.
Inv == Objects /\ Clients

LEMMA InvType == Inv => TypeOK
  BY DEF Inv, TypeOK, Objects, Clients

\* Whatever a step does to one client's request, it is enough that what results
\* is of the right type and fits.
LEMMA ClientStep ==
  ASSUME Clients, NEW c \in Client,
         NEW r \in Request, NEW x \in Transaction, NEW h \in SUBSET Row, Fit(r, x, h),
         req' = [req EXCEPT ![c] = r], txn' = [txn EXCEPT ![c] = x],
         held' = [held EXCEPT ![c] = h]
  PROVE  Clients'
<1>1. /\ req' \in [Client -> Request]
      /\ txn' \in [Client -> Transaction]
      /\ held' \in [Client -> SUBSET Row]
  BY DEF Clients
<1>2. \A d \in Client : Fit(req'[d], txn'[d], held'[d])
  <2> TAKE d \in Client
  <2>1. CASE d = c
    BY <2>1 DEF Clients
  <2>2. CASE d # c
    <3>1. req'[d] = req[d] /\ txn'[d] = txn[d] /\ held'[d] = held[d]
      BY <2>2 DEF Clients
    <3> QED
      BY <3>1 DEF Clients
  <2> QED
    BY <2>1, <2>2
<1>3. \A d \in Client :
        held'[d] # {} => req'[d].phase \in {"cascade", "row", "release", "lock", "land"}
  BY <1>2 DEF Fit
<1> QED
  BY <1>1, <1>2, <1>3 DEF Clients

USE DEF Operation, Kind, Phase

LEMMA IdleType == Idle \in Request /\ Idle.phase = "idle" /\ <<>> \in MetadataFile
  BY DEF Idle, Request, MetadataFile

LEMMA NoTransactionType == NoTransaction \in Transaction
  BY BoundsAssumption DEF NoTransaction, Transaction

LEMMA IdleFits == \A x : Fit(Idle, x, {})
  BY IdleType DEF Fit, CommitPhase

LEMMA FinishStep ==
  ASSUME Clients, NEW c \in Client, Finish(c),
         NEW x \in Transaction, txn' = [txn EXCEPT ![c] = x]
  PROVE  Clients'
<1>1. req' = [req EXCEPT ![c] = Idle] /\ held' = [held EXCEPT ![c] = {}]
  BY DEF Finish
<1> QED
  BY <1>1, IdleType, IdleFits, ClientStep

LEMMA SameTransaction ==
  ASSUME Clients, NEW c \in Client, UNCHANGED txn
  PROVE  txn[c] \in Transaction /\ txn' = [txn EXCEPT ![c] = txn[c]]
  BY DEF Clients

LEMMA SameLocks ==
  ASSUME Clients, NEW c \in Client, UNCHANGED held
  PROVE  held[c] \in SUBSET Row /\ held' = [held EXCEPT ![c] = held[c]]
  BY DEF Clients

\* Requests other than commits fit whatever transaction record is left over.
LEMMA OthersFit ==
  ASSUME NEW r, NEW x, NEW h, r.phase \notin CommitPhase, r.op # "commit",
         r.phase # "idle" => r.tab \in Ident,
         r.phase \in {"row", "release"} => r.dest \in Ident,
         h # {} => r.phase \in {"cascade", "row", "release"}
  PROVE  Fit(r, x, h)
  BY DEF Fit

LEMMA FinishOther ==
  ASSUME Clients, NEW c \in Client, Finish(c), UNCHANGED txn
  PROVE  Clients'
  BY SameTransaction, FinishStep

LEMMA BeginType ==
  ASSUME Objects, NEW c \in Client, NEW r, Begin(c, r)
  PROVE  begun' \in [Client -> 0..MaxRequests]
  BY BoundsAssumption DEF Objects, Begin

\* A request that begins: its client was idle, and held nothing.
LEMMA BeginOther ==
  ASSUME Clients, NEW c \in Client, NEW r \in Request, Begin(c, r), UNCHANGED txn,
         r.phase \notin CommitPhase, r.op # "commit", r.tab \in Ident,
         r.phase \in {"row", "release"} => r.dest \in Ident,
         NEW h \in SUBSET Row, held' = [held EXCEPT ![c] = h],
         h # {} => r.phase \in {"cascade", "row", "release"}
  PROVE  Clients'
<1>1. txn[c] \in Transaction /\ txn' = [txn EXCEPT ![c] = txn[c]]
  BY SameTransaction
<1>2. Fit(r, txn[c], h)
  BY OthersFit
<1>3. req' = [req EXCEPT ![c] = r]
  BY DEF Begin
<1> QED
  BY <1>1, <1>2, <1>3, ClientStep

LEMMA IdleHoldsNothing ==
  ASSUME Clients, NEW c \in Client, req[c] = Idle
  PROVE  held[c] = {}
  BY IdleType DEF Clients

LEMMA OnType ==
  ASSUME NEW op \in Operation, NEW k \in Kind, NEW phase \in Phase, NEW t \in Ident
  PROVE  /\ On(op, k, phase, t) \in Request
         /\ On(op, k, phase, t).op = op
         /\ On(op, k, phase, t).phase = phase
         /\ On(op, k, phase, t).tab = t
<1>1. /\ On(op, k, phase, t).op = op /\ On(op, k, phase, t).phase = phase
      /\ On(op, k, phase, t).tab = t
  BY DEF On, Idle
<1> HIDE DEF Operation, Phase
<1> QED
  BY IdleType DEF On, Request, Idle

LEMMA CarryFile ==
  ASSUME NEW r \in Request, NEW f \in MetadataFile
  PROVE  /\ [r EXCEPT !.file = f] \in Request
         /\ [r EXCEPT !.file = f].op = r.op
         /\ [r EXCEPT !.file = f].phase = r.phase
         /\ [r EXCEPT !.file = f].tab = r.tab
  BY DEF Request

LEMMA CarryDest ==
  ASSUME NEW r \in Request, NEW d \in Ident
  PROVE  /\ [r EXCEPT !.dest = d] \in Request
         /\ [r EXCEPT !.dest = d].op = r.op
         /\ [r EXCEPT !.dest = d].phase = r.phase
         /\ [r EXCEPT !.dest = d].tab = r.tab
         /\ [r EXCEPT !.dest = d].dest = d
  BY DEF Request

\* A request other than a commit goes on.
LEMMA GoToOther ==
  ASSUME Clients, NEW c \in Client, NEW phase \in Phase \ (CommitPhase \cup {"idle"}),
         req[c].phase \notin CommitPhase \cup {"idle"},
         req' = [req EXCEPT ![c].phase = phase], UNCHANGED txn,
         phase \in {"row", "release"} => req[c].dest \in Ident,
         NEW h \in SUBSET Row, held' = [held EXCEPT ![c] = h],
         h # {} => phase \in {"cascade", "row", "release"}
  PROVE  Clients'
<1>1. req[c] \in Request /\ Fit(req[c], txn[c], held[c]) /\ req \in [Client -> Request]
  BY DEF Clients
<1> DEFINE r == [req[c] EXCEPT !.phase = phase]
<1>2. /\ r \in Request /\ r.op = req[c].op /\ r.phase = phase
      /\ r.tab = req[c].tab /\ r.dest = req[c].dest
  BY <1>1 DEF Request
<1>3. req' = [req EXCEPT ![c] = r]
  BY <1>1
<1> HIDE DEF r
<1>4. r.op # "commit" /\ r.tab \in Ident
  BY <1>1, <1>2 DEF Fit
<1>5. Fit(r, txn[c], h)
  BY <1>2, <1>4, OthersFit
<1> QED
  BY <1>2, <1>3, <1>5, SameTransaction, ClientStep

LEMMA FreshIdType ==
  ASSUME Objects, NEW c \in Client
  PROVE  FreshId(c) \in WriteId /\ <<FreshId(c)>> \in MetadataFile
  BY DEF Objects, FreshId, WriteId, MetadataFile

LEMMA AppendType ==
  ASSUME Objects, NEW c \in Client, NEW f \in MetadataFile
  PROVE  Append(f, FreshId(c)) \in MetadataFile
  BY FreshIdType DEF MetadataFile

LEMMA WriteFileType ==
  ASSUME Objects, NEW c \in Client, NEW f \in MetadataFile, WriteFile(c, f)
  PROVE  files' \subseteq MetadataFile /\ wrote' \in [Client -> Nat]
  BY DEF Objects, WriteFile

-----------------------------------------------------------------------------
(* The invariant holds at first and after every step of PostgresObjects     *)

LEMMA InitInv == Init => Inv
<1> SUFFICES ASSUME Init PROVE Inv
  OBVIOUS
<1>1. \A t \in Ident : SeedFile(t) \in MetadataFile
  BY DEF SeedFile, MetadataFile, WriteId
<1>2. Objects
  <2>1. at \in [Kind -> [Ident -> MetadataFile \cup {None}]]
    BY <1>1 DEF Init
  <2>2. begun \in [Client -> 0..MaxRequests]
    BY BoundsAssumption DEF Init
  <2> QED
    BY <1>1, <2>1, <2>2, NamesAssumption DEF Init, Objects
<1>3. Clients
  BY IdleType, IdleFits, NoTransactionType DEF Init, Clients
<1> QED
  BY <1>2, <1>3 DEF Inv

LEMMA InvNamespaces ==
  ASSUME Inv, NEW n \in Namespace, CreateNamespace(n) \/ DropNamespace(n)
  PROVE  Inv'
<1>1. Objects /\ Clients
  BY DEF Inv
<1>2. UNCHANGED <<req, txn, held>>
  BY DEF CreateNamespace, DropNamespace
<1>3. Clients'
  BY <1>1, <1>2 DEF Clients
<1>4. Objects'
  BY <1>1 DEF Objects, CreateNamespace, DropNamespace
<1> QED
  BY <1>3, <1>4 DEF Inv

LEMMA InvCreateWrite ==
  ASSUME Inv, NEW c \in Client, NEW op \in {"create", "stage"}, NEW k \in Kind,
         NEW t \in Ident, CreateWrite(c, op, k, t)
  PROVE  Inv'
<1>1. Objects /\ Clients
  BY DEF Inv
<1> DEFINE q == On(op, k, "insert", t)
           f == << FreshId(c) >>
           r == [q EXCEPT !.file = f]
<1>2. f \in MetadataFile
  BY <1>1, FreshIdType
<1>3. q \in Request /\ q.op = op /\ q.phase = "insert" /\ q.tab = t
  BY OnType
<1>4. /\ Begin(c, r) /\ WriteFile(c, f)
      /\ UNCHANGED <<relations, published, txn, held>>
  BY DEF CreateWrite
<1> HIDE DEF f, q
<1>5. r \in Request /\ r.op = op /\ r.phase = "insert" /\ r.tab = t
  BY <1>2, <1>3, CarryFile
<1> HIDE DEF r
<1>6. held[c] = {} /\ held' = [held EXCEPT ![c] = {}]
  BY <1>1, <1>4, IdleHoldsNothing, SameLocks DEF Begin
<1>7. Clients'
  BY <1>1, <1>4, <1>5, <1>6, BeginOther DEF CommitPhase
<1>8. Objects'
  BY <1>1, <1>2, <1>4, BeginType, WriteFileType DEF Objects, relations
<1> QED
  BY <1>7, <1>8 DEF Inv

LEMMA InvRegisterRead ==
  ASSUME Inv, NEW c \in Client, NEW p \in published, NEW t \in Ident, p[1] \in Kind,
         RegisterRead(c, p[1], t, p[2])
  PROVE  Inv'
<1>1. Objects /\ Clients
  BY DEF Inv
<1> DEFINE q == On("register", p[1], "insert", t)
           r == [q EXCEPT !.file = p[2]]
<1>2. p[2] \in MetadataFile
  BY <1>1 DEF Objects
<1>3. q \in Request /\ q.op = "register" /\ q.phase = "insert" /\ q.tab = t
  BY OnType
<1>4. Begin(c, r) /\ UNCHANGED <<relations, files, published, txn, held, wrote>>
  BY DEF RegisterRead
<1> HIDE DEF q
<1>5. r \in Request /\ r.op = "register" /\ r.phase = "insert" /\ r.tab = t
  BY <1>2, <1>3, CarryFile
<1> HIDE DEF r
<1>6. held[c] = {} /\ held' = [held EXCEPT ![c] = {}]
  BY <1>1, <1>4, IdleHoldsNothing, SameLocks DEF Begin
<1>7. Clients'
  BY <1>1, <1>4, <1>5, <1>6, BeginOther DEF CommitPhase
<1>8. Objects'
  BY <1>1, <1>4, BeginType DEF Objects, relations
<1> QED
  BY <1>7, <1>8 DEF Inv

LEMMA InvDropName ==
  ASSUME Inv, NEW c \in Client, NEW k \in Kind, NEW t \in Ident, DropName(c, k, t)
  PROVE  Inv'
<1>1. Objects /\ Clients
  BY DEF Inv
<1> DEFINE r == On("drop", k, "cascade", t)
<1>2. r \in Request /\ r.op = "drop" /\ r.phase = "cascade" /\ r.tab = t
  BY OnType
<1>3. /\ Begin(c, r) /\ UNCHANGED <<relations, files, published, txn, wrote>>
      /\ held' = [held EXCEPT ![c] = held[c] \cup {<<"name", t>>}]
  BY <1>1 DEF DropName, Lock, Clients
<1> HIDE DEF r
<1>4. held[c] \cup {<<"name", t>>} \in SUBSET Row
  BY <1>1 DEF Clients, Row
<1>5. Clients'
  BY <1>1, <1>2, <1>3, <1>4, BeginOther DEF CommitPhase
<1>6. Objects'
  BY <1>1, <1>3, BeginType DEF Objects, relations
<1> QED
  BY <1>5, <1>6 DEF Inv

LEMMA InvPurgeLoad ==
  ASSUME Inv, NEW c \in Client, NEW t \in Ident, PurgeLoad(c, t)
  PROVE  Inv'
<1>1. Objects /\ Clients
  BY DEF Inv
<1> DEFINE q == On("purge", "table", "drop", t)
           f == at["table"][t]
           r == [q EXCEPT !.file = f]
<1>2. f \in MetadataFile
  BY <1>1 DEF PurgeLoad, Objects
<1>3. q \in Request /\ q.op = "purge" /\ q.phase = "drop" /\ q.tab = t
  BY OnType
<1>4. Begin(c, r) /\ UNCHANGED <<relations, files, published, txn, held, wrote>>
  BY DEF PurgeLoad
<1> HIDE DEF q, f
<1>5. r \in Request /\ r.op = "purge" /\ r.phase = "drop" /\ r.tab = t
  BY <1>2, <1>3, CarryFile
<1> HIDE DEF r
<1>6. held[c] = {} /\ held' = [held EXCEPT ![c] = {}]
  BY <1>1, <1>4, IdleHoldsNothing, SameLocks DEF Begin
<1>7. Clients'
  BY <1>1, <1>4, <1>5, <1>6, BeginOther DEF CommitPhase
<1>8. Objects'
  BY <1>1, <1>4, BeginType DEF Objects, relations
<1> QED
  BY <1>7, <1>8 DEF Inv

LEMMA InvRenameClaim ==
  ASSUME Inv, NEW c \in Client, NEW k \in Kind, NEW s \in Ident, NEW d \in Ident,
         RenameClaim(c, k, s, d)
  PROVE  Inv'
<1>1. Objects /\ Clients
  BY DEF Inv
<1> DEFINE q == On("rename", k, "row", s)
           r == [q EXCEPT !.dest = d]
<1>2. q \in Request /\ q.op = "rename" /\ q.phase = "row" /\ q.tab = s
  BY OnType
<1>3. /\ Begin(c, r) /\ UNCHANGED <<relations, files, published, txn, wrote>>
      /\ held' = [held EXCEPT ![c] = held[c] \cup {<<"name", d>>}]
  BY <1>1 DEF RenameClaim, Lock, Clients
<1> HIDE DEF q
<1>4. r \in Request /\ r.op = "rename" /\ r.phase = "row" /\ r.tab = s /\ r.dest = d
  BY <1>2, CarryDest
<1> HIDE DEF r
<1>5. held[c] \cup {<<"name", d>>} \in SUBSET Row
  BY <1>1 DEF Clients, Row
<1>6. Clients'
  BY <1>1, <1>3, <1>4, <1>5, BeginOther DEF CommitPhase
<1>7. Objects'
  BY <1>1, <1>3, BeginType DEF Objects, relations
<1> QED
  BY <1>6, <1>7 DEF Inv

LEMMA InvUpdateViewWrite ==
  ASSUME Inv, NEW c \in Client, NEW v \in Ident, UpdateViewWrite(c, v)
  PROVE  Inv'
<1>1. Objects /\ Clients
  BY DEF Inv
<1> DEFINE old == at["view"][v]
           f == Append(old, FreshId(c))
           q == On("update_view", "view", "swap", v)
           r == [q EXCEPT !.file = f, !.expected = old]
<1>2. old \in MetadataFile
  BY <1>1 DEF UpdateViewWrite, Objects
<1>3. q \in Request /\ q.op = "update_view" /\ q.phase = "swap" /\ q.tab = v
  BY OnType
<1>4. Begin(c, r) /\ WriteFile(c, f) /\ UNCHANGED <<relations, published, txn, held>>
  BY DEF UpdateViewWrite
<1> HIDE DEF old
<1>5. f \in MetadataFile
  BY <1>1, <1>2, AppendType
<1> HIDE DEF f, q
<1>6. r \in Request /\ r.op = "update_view" /\ r.phase = "swap" /\ r.tab = v
  BY <1>2, <1>3, <1>5 DEF Request
<1> HIDE DEF r
<1>7. held[c] = {} /\ held' = [held EXCEPT ![c] = {}]
  BY <1>1, <1>4, IdleHoldsNothing, SameLocks DEF Begin
<1>8. Clients'
  BY <1>1, <1>4, <1>6, <1>7, BeginOther DEF CommitPhase
<1>9. Objects'
  BY <1>1, <1>4, <1>5, BeginType, WriteFileType DEF Objects, relations
<1> QED
  BY <1>8, <1>9 DEF Inv

\* What a request that is not a commit carries when it goes on.
LEMMA Carried ==
  ASSUME Clients, NEW c \in Client, req[c].phase \notin CommitPhase \cup {"idle"}
  PROVE  /\ req[c].tab \in Ident /\ req[c].kind \in Kind /\ req[c].file \in MetadataFile
         /\ req[c].phase \in {"row", "release"} => req[c].dest \in Ident
  BY DEF Clients, Fit, Request

LEMMA InvInsert ==
  ASSUME Inv, NEW c \in Client, Insert(c)
  PROVE  Inv'
<1>1. Objects /\ Clients
  BY DEF Inv
<1>2. req[c].tab \in Ident /\ req[c].kind \in Kind /\ req[c].file \in MetadataFile
  BY <1>1, Carried DEF Insert, CommitPhase
<1>3. Clients'
  BY <1>1, FinishOther DEF Insert
<1>4. /\ names' \subseteq Ident
      /\ at' \in [Kind -> [Ident -> MetadataFile \cup {None}]]
      /\ published' \subseteq {"table", "view", "staged"} \X MetadataFile
  BY <1>1, <1>2 DEF Insert, Objects
<1>5. Objects'
  BY <1>1, <1>4 DEF Insert, Objects
<1> QED
  BY <1>3, <1>5 DEF Inv

LEMMA InvStageUpsert ==
  ASSUME Inv, NEW c \in Client, StageUpsert(c)
  PROVE  Inv'
<1>1. Objects /\ Clients
  BY DEF Inv
<1>2. req[c].tab \in Ident /\ req[c].file \in MetadataFile
  BY <1>1, Carried DEF StageUpsert, InPhase, CommitPhase
<1>3. Clients'
  BY <1>1, FinishOther DEF StageUpsert
<1>4. Objects'
  BY <1>1, <1>2 DEF StageUpsert, Objects
<1> QED
  BY <1>3, <1>4 DEF Inv

LEMMA InvPurgeName ==
  ASSUME Inv, NEW c \in Client, PurgeName(c)
  PROVE  Inv'
<1>1. Objects /\ Clients
  BY DEF Inv
<1>2. req[c].tab \in Ident
  BY <1>1, Carried DEF PurgeName, InPhase, CommitPhase
<1>3. CASE Finish(c)
  BY <1>1, <1>3, FinishOther DEF PurgeName, Objects, Inv, relations
<1>4. CASE GoTo(c, "cascade") /\ Lock(c, {<<"name", req[c].tab>>})
  <2> DEFINE h == held[c] \cup {<<"name", req[c].tab>>}
  <2>1. h \in SUBSET Row /\ held' = [held EXCEPT ![c] = h]
    BY <1>1, <1>2, <1>4 DEF Clients, Row, Lock
  <2> HIDE DEF h
  <2>2. req' = [req EXCEPT ![c].phase = "cascade"] /\ UNCHANGED txn
    BY <1>4 DEF GoTo, PurgeName
  <2>3. Clients'
    BY <1>1, <2>1, <2>2, GoToOther DEF PurgeName, InPhase, CommitPhase
  <2> QED
    BY <1>1, <2>3 DEF PurgeName, Objects, Inv, relations
<1> QED
  BY <1>3, <1>4 DEF PurgeName

LEMMA InvCascade ==
  ASSUME Inv, NEW c \in Client, Cascade(c)
  PROVE  Inv'
<1>1. Objects /\ Clients
  BY DEF Inv
<1>2. req[c].tab \in Ident /\ req[c].kind \in Kind
  BY <1>1, Carried DEF Cascade, CommitPhase
<1>3. UNCHANGED txn /\ held' = [held EXCEPT ![c] = {}]
  BY DEF Cascade
<1>4. Clients'
  <2>1. CASE req[c].op = "purge"
    <3>1. req' = [req EXCEPT ![c].phase = "delete"]
      BY <2>1, <1>1 DEF Cascade, Clients
    <3> QED
      BY <1>1, <1>3, <3>1, GoToOther DEF Cascade, CommitPhase
  <2>2. CASE req[c].op # "purge"
    BY <1>1, <1>3, <2>2, FinishOther DEF Cascade, Finish
  <2> QED
    BY <2>1, <2>2
<1>5. Objects'
  BY <1>1, <1>2 DEF Cascade, Objects
<1> QED
  BY <1>4, <1>5 DEF Inv

LEMMA InvPurgeDelete ==
  ASSUME Inv, NEW c \in Client, PurgeDelete(c)
  PROVE  Inv'
<1>1. Objects /\ Clients
  BY DEF Inv
<1>2. Clients'
  BY <1>1, FinishOther DEF PurgeDelete
<1>3. Objects'
  BY <1>1 DEF PurgeDelete, Objects, relations
<1> QED
  BY <1>2, <1>3 DEF Inv

LEMMA InvRenameRow ==
  ASSUME Inv, NEW c \in Client, RenameRow(c)
  PROVE  Inv'
<1>1. Objects /\ Clients
  BY DEF Inv
<1> DEFINE r == <<req[c].kind, req[c].tab>>
<1>2. r \in Row /\ req[c].dest \in Ident
  BY <1>1, Carried DEF RenameRow, InPhase, CommitPhase, Row
<1>3. CASE Finish(c)
  BY <1>1, <1>3, FinishOther DEF RenameRow, Objects, Inv, relations
<1>4. CASE GoTo(c, "release") /\ Lock(c, {r})
  <2> HIDE DEF r
  <2> DEFINE h == held[c] \cup {r}
  <2>1. h \in SUBSET Row /\ held' = [held EXCEPT ![c] = h]
    BY <1>1, <1>2, <1>4 DEF Clients, Lock
  <2> HIDE DEF h
  <2>2. req' = [req EXCEPT ![c].phase = "release"] /\ UNCHANGED txn
    BY <1>4 DEF GoTo, RenameRow
  <2>3. Clients'
    BY <1>1, <1>2, <2>1, <2>2, GoToOther DEF RenameRow, InPhase, CommitPhase
  <2> QED
    BY <1>1, <2>3 DEF RenameRow, Objects, Inv, relations
<1> QED
  BY <1>3, <1>4 DEF RenameRow

LEMMA InvRenameRelease ==
  ASSUME Inv, NEW c \in Client, RenameRelease(c)
  PROVE  Inv'
<1>1. Objects /\ Clients
  BY DEF Inv
<1>2. req[c].tab \in Ident /\ req[c].kind \in Kind /\ req[c].dest \in Ident
  BY <1>1, Carried DEF RenameRelease, InPhase, CommitPhase
<1>3. Clients'
  BY <1>1, FinishOther DEF RenameRelease
<1>4. at' \in [Kind -> [Ident -> MetadataFile \cup {None}]] /\ names' \subseteq Ident
  BY <1>1, <1>2 DEF RenameRelease, NamesAfterRename, Objects
<1>5. Objects'
  BY <1>1, <1>4 DEF RenameRelease, Objects
<1> QED
  BY <1>3, <1>5 DEF Inv

LEMMA InvUpdateViewSwap ==
  ASSUME Inv, NEW c \in Client, UpdateViewSwap(c)
  PROVE  Inv'
<1>1. Objects /\ Clients
  BY DEF Inv
<1>2. req[c].tab \in Ident /\ req[c].file \in MetadataFile
  BY <1>1, Carried DEF UpdateViewSwap, InPhase, CommitPhase
<1>3. Clients'
  BY <1>1, FinishOther DEF UpdateViewSwap
<1>4. Objects'
  BY <1>1, <1>2 DEF UpdateViewSwap, Objects
<1> QED
  BY <1>3, <1>4 DEF Inv

\* Cut off, or aborted to break a deadlock.
LEMMA InvRollback ==
  ASSUME Inv, NEW c \in Client, Abandon(c) \/ DeadlockVictim(c)
  PROVE  Inv'
<1>1. Objects /\ Clients
  BY DEF Inv
<1>2. /\ Finish(c) /\ txn' = [txn EXCEPT ![c] = NoTransaction]
      /\ UNCHANGED <<relations, files, published, begun, wrote>>
  BY DEF Abandon, DeadlockVictim
<1>3. Clients'
  BY <1>1, <1>2, NoTransactionType, FinishStep
<1>4. Objects'
  BY <1>1, <1>2 DEF Objects, relations
<1> QED
  BY <1>3, <1>4 DEF Inv

-----------------------------------------------------------------------------
(* and after every step of a commit                                         *)

LEMMA RequestsAreChanges ==
  ASSUME Objects, NEW t \in Ident
  PROVE  Requests(t) \subseteq Change
<1>1. at["table"][t] # None => at["table"][t] \in MetadataFile
  BY DEF Objects
<1> QED
  BY <1>1, IdleType DEF Requests, Change

\* An attempt that begins has prepared and locked nothing.
LEMMA AttemptFits ==
  ASSUME NEW changes \in Seq(Change), NEW n \in 0..COMMIT_MAX_RETRIES, Len(changes) > 0,
         \A i, j \in DOMAIN changes : changes[i].tab = changes[j].tab => i = j,
         NEW r, r.op = "commit", r.phase = "prepare"
  PROVE  Attempt(changes, n) \in Transaction /\ Fit(r, Attempt(changes, n), {})
<1> DEFINE x == Attempt(changes, n)
<1>1. x.changes = changes /\ x.prepared = <<>> /\ x.locked = {}
  BY DEF Attempt
<1>2. x \in Transaction
  BY BoundsAssumption DEF Attempt, Transaction
<1> HIDE DEF x
<1>3. WellFormed(x) /\ Len(x.prepared) < Len(x.changes)
  BY <1>1 DEF WellFormed
<1>4. InOrder(x, {})
  BY <1>1 DEF InOrder
<1>5. Fit(r, x, {})
  BY <1>1, <1>3, <1>4 DEF Fit, CommitPhase
<1> QED
  BY <1>2, <1>5 DEF x

LEMMA InvCommitStart ==
  ASSUME Inv, NEW c \in Client, CommitStart(c)
  PROVE  Inv'
<1>1. Objects /\ Clients
  BY DEF Inv
<1> DEFINE r == [Idle EXCEPT !.op = "commit", !.phase = "prepare"]
<1>2. r \in Request /\ r.op = "commit" /\ r.phase = "prepare"
  BY IdleType DEF Idle, Request
<1>3. Begin(c, r) /\ UNCHANGED <<relations, files, published, held, wrote>>
  BY DEF CommitStart
<1> HIDE DEF r
<1>4. PICK n \in 1..MaxChanges :
        \E changes \in [1..n -> UNION {Requests(t) : t \in Ident}] :
          /\ \A i, j \in 1..n : changes[i].tab = changes[j].tab => i = j
          /\ txn' = [txn EXCEPT ![c] = Attempt(changes, 1)]
  BY DEF CommitStart
<1>5. PICK changes \in [1..n -> UNION {Requests(t) : t \in Ident}] :
          /\ \A i, j \in 1..n : changes[i].tab = changes[j].tab => i = j
          /\ txn' = [txn EXCEPT ![c] = Attempt(changes, 1)]
  BY <1>4
<1>6. changes \in Seq(Change) /\ Len(changes) > 0 /\ DOMAIN changes = 1..n
  <2>1. changes \in [1..n -> Change]
    BY <1>1, <1>5, RequestsAreChanges
  <2>2. n \in Nat /\ n > 0
    BY <1>4, BoundsAssumption
  <2> QED
    BY <2>1, <2>2
<1>7. 1 \in 0..COMMIT_MAX_RETRIES
  BY BoundsAssumption
<1>8. Attempt(changes, 1) \in Transaction /\ Fit(r, Attempt(changes, 1), {})
  BY <1>2, <1>5, <1>6, <1>7, AttemptFits
<1>9. held[c] = {} /\ held' = [held EXCEPT ![c] = {}]
  BY <1>1, <1>3, IdleHoldsNothing, SameLocks DEF Begin
<1>10. Clients'
  BY <1>1, <1>2, <1>3, <1>5, <1>8, <1>9, ClientStep DEF Begin
<1>11. Objects'
  BY <1>1, <1>3, BeginType DEF Objects, relations
<1> QED
  BY <1>10, <1>11 DEF Inv

\* What a commit has in hand.
LEMMA CommitCarried ==
  ASSUME Clients, NEW c \in Client, req[c].phase \in CommitPhase
  PROVE  /\ req[c] \in Request /\ txn[c] \in Transaction
         /\ txn[c].changes \in Seq(Change) /\ txn[c].prepared \in Seq(Prepared)
         /\ WellFormed(txn[c]) /\ InOrder(txn[c], held[c])
         /\ req[c].phase = "prepare" =>
              txn[c].locked = {} /\ Len(txn[c].prepared) < Len(txn[c].changes)
         /\ req[c].phase = "lock" => Left(txn[c]) # {}
         /\ req[c].phase \in {"prepare", "discard"} => held[c] = {}
<1>1. req[c] \in Request /\ txn[c] \in Transaction /\ Fit(req[c], txn[c], held[c])
  BY DEF Clients
<1> QED
  BY <1>1 DEF Fit, Transaction

LEMMA InvCommitPrepare ==
  ASSUME Inv, NEW c \in Client, CommitPrepare(c)
  PROVE  Inv'
<1>1. Objects /\ Clients
  BY DEF Inv
<1>2. req[c].op = "commit" /\ req[c].phase = "prepare" /\ req[c].phase \in CommitPhase
  BY DEF CommitPrepare, InPhase, CommitPhase
<1> DEFINE old == txn[c].prepared
           ch == NextChange(c)
           f == Append(Base(ch), FreshId(c))
           p == [tab |-> ch.tab, expected |-> at["table"][ch.tab], file |-> f]
           all == Append(old, p)
           next == IF Len(all) = Len(txn[c].changes) THEN "lock" ELSE "prepare"
           x == [txn[c] EXCEPT !.prepared = all]
           r == [req[c] EXCEPT !.phase = next]
<1>3. /\ req[c] \in Request /\ txn[c] \in Transaction /\ WellFormed(txn[c])
      /\ txn[c].changes \in Seq(Change) /\ old \in Seq(Prepared)
      /\ txn[c].locked = {} /\ Len(old) < Len(txn[c].changes) /\ held[c] = {}
  BY <1>1, <1>2, CommitCarried
<1>4. ch \in Change /\ ch = txn[c].changes[Len(old) + 1]
  BY <1>3 DEF NextChange
<1>5. ch.tab \in Ident
  BY <1>4 DEF Change
<1>6. f \in MetadataFile
  <2>1. Base(ch) \in MetadataFile
    BY <1>1 DEF CommitPrepare, NotFound, Objects
  <2> QED
    BY <1>1, <2>1, AppendType
<1>7. p \in Prepared /\ p.tab = ch.tab
  BY <1>1, <1>5, <1>6 DEF Prepared, Objects
<1>8. /\ WriteFile(c, f) /\ txn' = [txn EXCEPT ![c].prepared = all] /\ GoTo(c, next)
      /\ UNCHANGED <<relations, published, held, begun>>
  BY DEF CommitPrepare
<1> HIDE DEF f, p, ch
<1>9. /\ all \in Seq(Prepared) /\ Len(all) = Len(old) + 1 /\ all[Len(old) + 1] = p
      /\ \A i \in 1..Len(old) : all[i] = old[i]
  BY <1>3, <1>7
<1>10. /\ x \in Transaction /\ x.changes = txn[c].changes /\ x.prepared = all
       /\ x.locked = {} /\ txn' = [txn EXCEPT ![c] = x]
  BY <1>1, <1>3, <1>8, <1>9 DEF Transaction, Clients
<1>11. /\ r \in Request /\ r.op = "commit" /\ r.phase = next
       /\ req' = [req EXCEPT ![c] = r]
  BY <1>1, <1>2, <1>3, <1>8 DEF Request, GoTo, Clients
<1>12. WellFormed(x)
  <2>1. \A i \in DOMAIN all : all[i].tab = txn[c].changes[i].tab
    <3>1. \A i \in 1..Len(old) : all[i].tab = txn[c].changes[i].tab
      BY <1>3, <1>9 DEF WellFormed
    <3>2. all[Len(old) + 1].tab = txn[c].changes[Len(old) + 1].tab
      BY <1>4, <1>7, <1>9
    <3>3. DOMAIN all = 1..(Len(old) + 1) /\ Len(old) \in Nat
      BY <1>3, <1>9
    <3>4. DOMAIN all = 1..Len(old) \cup {Len(old) + 1}
      BY <3>3
    <3> HIDE DEF all
    <3> QED
      BY <3>1, <3>2, <3>4
  <2> HIDE DEF x, all
  <2> QED
    BY <1>3, <1>9, <1>10, <2>1 DEF WellFormed
<1>13. InOrder(x, {})
  BY <1>10 DEF InOrder
<1>14. Left(x) # {}
  <2>1. 1 \in DOMAIN all
    BY <1>3, <1>9
  <2> HIDE DEF x, all
  <2> QED
    BY <1>10, <2>1 DEF Left
<1>15. next = "prepare" => Len(x.prepared) < Len(x.changes)
  BY <1>3, <1>9, <1>10
<1> HIDE DEF x, r, all
<1>16. Fit(r, x, {})
  BY <1>10, <1>11, <1>12, <1>13, <1>14, <1>15 DEF Fit, CommitPhase
<1>17. held' = [held EXCEPT ![c] = {}]
  BY <1>1, <1>3, <1>8, SameLocks
<1>18. Clients'
  BY <1>1, <1>10, <1>11, <1>16, <1>17, ClientStep
<1>19. Objects'
  BY <1>1, <1>6, <1>8, WriteFileType DEF Objects, relations
<1> QED
  BY <1>18, <1>19 DEF Inv

LEMMA EntryType ==
  ASSUME NEW s \in Seq(Prepared), NEW i \in DOMAIN s
  PROVE  s[i] \in Prepared /\ s[i].tab \in Ident /\ i \in Nat
<1>1. s[i] \in Prepared /\ i \in Nat
  OBVIOUS
<1> QED
  BY <1>1 DEF Prepared

\* The entry taken next is left to lock, and no entry left sorts before it.
LEMMA NextIndexIsFirst ==
  ASSUME Clients, NEW c \in Client, req[c].phase = "lock"
  PROVE  /\ NextIndex(c) \in Left(txn[c])
         /\ \A j \in Left(txn[c]) :
              Rank[txn[c].prepared[NextIndex(c)].tab] <= Rank[txn[c].prepared[j].tab]
<1> DEFINE L == Left(txn[c])
           rank(i) == Rank[txn[c].prepared[i].tab]
<1>1. txn[c].prepared \in Seq(Prepared) /\ L # {} /\ Unlocked(c) = L
  BY CommitCarried DEF CommitPhase, Unlocked, Left
<1>2. \A i \in L : rank(i) \in Nat
  <2>1. \A i \in L : txn[c].prepared[i].tab \in Ident
    BY <1>1, EntryType DEF Left
  <2> QED
    BY <2>1, OrderAssumption
<1>3. \E i \in L : \A j \in L : rank(i) <= rank(j)
  <2> HIDE DEF L, rank
  <2> DEFINE Q == {rank(i) : i \in L}
  <2>1. Q \subseteq Nat /\ Q # {}
    BY <1>1, <1>2
  <2>2. \E m \in Q : \A n \in Q : m <= n
    <3> HIDE DEF Q
    <3> QED
      BY <2>1, Least
  <2> QED
    BY <2>2
<1>4. NextIndex(c) = CHOOSE i \in L : \A j \in L : rank(i) <= rank(j)
  BY <1>1 DEF NextIndex
<1> HIDE DEF L, rank
<1>5. NextIndex(c) \in L /\ \A j \in L : rank(NextIndex(c)) <= rank(j)
  BY <1>3, <1>4
<1> QED
  BY <1>5 DEF L, rank

LEMMA InvCommitLock ==
  ASSUME Inv, NEW c \in Client, CommitLock(c)
  PROVE  Inv'
<1>1. Objects /\ Clients
  BY DEF Inv
<1>2. req[c].op = "commit" /\ req[c].phase = "lock" /\ req[c].phase \in CommitPhase
  BY DEF CommitLock, InPhase, CommitPhase
<1> DEFINE k == NextIndex(c)
           p == NextEntry(c)
           old == txn[c]
           all == old.prepared
<1>3. /\ req[c] \in Request /\ old \in Transaction /\ WellFormed(old)
      /\ InOrder(old, held[c]) /\ all \in Seq(Prepared) /\ old.changes \in Seq(Change)
  BY <1>1, <1>2, CommitCarried
<1>4. /\ k \in Left(old)
      /\ \A j \in Left(old) : Rank[all[k].tab] <= Rank[all[j].tab]
  BY <1>1, <1>2, NextIndexIsFirst
<1>5. p = all[k] /\ p \in Prepared
  BY <1>3, <1>4 DEF NextEntry, Left
<1>6. Objects'
  BY <1>1 DEF CommitLock, Objects, relations
<1>7. CASE ~Lands(p)
  <2> DEFINE r == [req[c] EXCEPT !.phase = "discard"]
  <2>1. /\ r \in Request /\ r.op = "commit" /\ r.phase = "discard"
        /\ req' = [req EXCEPT ![c] = r]
    BY <1>1, <1>2, <1>3, <1>7 DEF Request, GoTo, Clients, CommitLock
  <2>2. held' = [held EXCEPT ![c] = {}] /\ UNCHANGED txn
    BY <1>7 DEF CommitLock
  <2> HIDE DEF r
  <2>3. InOrder(old, {})
    BY <1>3 DEF InOrder
  <2>4. Fit(r, old, {})
    <3> HIDE DEF old
    <3> QED
      BY <1>3, <2>1, <2>3 DEF Fit, CommitPhase
  <2>5. Clients'
    <3>1. txn' = [txn EXCEPT ![c] = old]
      BY <1>1, <2>2, SameTransaction
    <3> HIDE DEF old
    <3> QED
      BY <1>1, <1>3, <2>1, <2>2, <2>4, <3>1, ClientStep
  <2> QED
    BY <1>6, <2>5 DEF Inv
<1>8. CASE Lands(p)
  <2> DEFINE x == [old EXCEPT !.locked = @ \cup {k}]
             h == held[c] \cup {RowOf(p)} \cup StagingOf(p)
             next == IF Unlocked(c) = {k} THEN "land" ELSE "lock"
             r == [req[c] EXCEPT !.phase = next]
  <2>1. /\ Lock(c, {RowOf(p)} \cup StagingOf(p)) /\ GoTo(c, next)
        /\ txn' = [txn EXCEPT ![c].locked = @ \cup {k}]
    BY <1>8 DEF CommitLock
  <2>2. h \in SUBSET Row /\ held' = [held EXCEPT ![c] = h]
    <3>1. {RowOf(p)} \cup StagingOf(p) \subseteq Row
      BY <1>5 DEF RowOf, StagingOf, Row, Prepared
    <3> QED
      BY <1>1, <2>1, <3>1 DEF Lock, Clients
  <2>3. \A row \in h : row \in held[c] \/ row[2] = p.tab
    BY DEF RowOf, StagingOf
  <2>4. /\ r \in Request /\ r.op = "commit" /\ r.phase = next
        /\ req' = [req EXCEPT ![c] = r]
    BY <1>1, <1>2, <1>3, <2>1 DEF Request, GoTo, Clients
  <2>5. /\ x.changes = old.changes /\ x.prepared = all /\ x.locked = old.locked \cup {k}
        /\ x \in Transaction /\ txn' = [txn EXCEPT ![c] = x]
    <3>1. k \in Nat
      BY <1>3, <1>4, EntryType DEF Left
    <3> HIDE DEF k
    <3>2. txn' = [txn EXCEPT ![c] = x]
      BY <1>1, <2>1 DEF Clients
    <3> HIDE DEF old
    <3> QED
      BY <1>3, <3>1, <3>2 DEF Transaction
  <2>6. Left(x) = Left(old) \ {k} /\ Left(old) = Unlocked(c)
    BY <2>5 DEF Left, Unlocked
  <2> HIDE DEF x, h, r
  <2>7. WellFormed(x)
    <3> HIDE DEF old, k
    <3> QED
      BY <1>3, <1>4, <2>5 DEF WellFormed, Left
  <2>8. \A j \in Left(x) : Rank[p.tab] < Rank[all[j].tab]
    <3> TAKE j \in Left(x)
    <3>1. /\ j \in DOMAIN all /\ k \in DOMAIN all /\ j # k /\ j \in Left(old)
      BY <1>4, <2>6 DEF Left
    <3>2. all[j].tab \in Ident /\ all[k].tab \in Ident
      BY <1>3, <3>1, EntryType
    <3>3. all[j].tab # all[k].tab
      <4>1. j \in DOMAIN old.changes /\ k \in DOMAIN old.changes
        BY <1>3, <3>1 DEF WellFormed
      <4> QED
        BY <1>3, <3>1, <4>1 DEF WellFormed
    <3>4. Rank[all[j].tab] # Rank[all[k].tab]
      BY <3>2, <3>3, OrderAssumption
    <3>5. Rank[all[k].tab] <= Rank[all[j].tab]
      BY <1>4, <3>1
    <3>6. Rank[all[k].tab] \in Nat /\ Rank[all[j].tab] \in Nat
      BY <3>2, OrderAssumption
    <3> QED
      BY <1>5, <3>4, <3>5, <3>6
  <2>9. InOrder(x, h)
    <3>1. ASSUME NEW i \in x.locked, NEW j \in Left(x)
          PROVE  Rank[all[i].tab] < Rank[all[j].tab]
      <4>1. CASE i = k
        BY <1>5, <2>8, <4>1
      <4>2. CASE i \in old.locked
        BY <1>3, <2>6, <4>2 DEF InOrder
      <4> QED
        BY <2>5, <4>1, <4>2
    <3>2. ASSUME NEW row \in h
          PROVE  \E i \in x.locked : row[2] = all[i].tab
      <4>1. CASE row \in held[c]
        BY <1>3, <2>5, <4>1 DEF InOrder
      <4>2. CASE row[2] = p.tab
        BY <1>5, <2>5, <4>2
      <4> QED
        BY <2>3, <4>1, <4>2
    <3> QED
      BY <2>5, <3>1, <3>2 DEF InOrder
  <2>10. next = "lock" => Left(x) # {}
    BY <1>4, <2>6
  <2>11. Fit(r, x, h)
    <3> HIDE DEF next
    <3>1. next \in {"lock", "land"}
      BY DEF next
    <3> QED
      BY <2>4, <2>7, <2>9, <2>10, <3>1 DEF Fit, CommitPhase
  <2>12. Clients'
    BY <1>1, <2>2, <2>4, <2>5, <2>11, ClientStep
  <2> QED
    BY <1>6, <2>12 DEF Inv
<1> QED
  BY <1>7, <1>8

LEMMA InvCommitLand ==
  ASSUME Inv, NEW c \in Client, CommitLand(c)
  PROVE  Inv'
<1>1. Objects /\ Clients
  BY DEF Inv
<1> DEFINE all == txn[c].prepared
           new(t) == all[CHOOSE i \in SwapOf(c, t) : TRUE].file
<1>2. all \in Seq(Prepared)
  BY <1>1, CommitCarried DEF CommitLand, InPhase, CommitPhase
<1>3. \A i \in DOMAIN all : all[i].tab \in Ident /\ all[i].file \in MetadataFile
  BY <1>2, EntryType DEF Prepared
<1>4. \A t \in Ident : SwapOf(c, t) # {} => new(t) \in MetadataFile
  BY <1>3 DEF SwapOf
<1>5. /\ at' = [at EXCEPT !["table"] =
             [t \in Ident |-> IF SwapOf(c, t) = {} THEN @[t] ELSE new(t)]]
      /\ names' = names \cup {all[i].tab : i \in DOMAIN all}
      /\ published' = published \cup {<<"table", all[i].file>> : i \in DOMAIN all}
      /\ staged' = [t \in Ident |-> IF <<"staged", t>> \in held[c] THEN None ELSE staged[t]]
      /\ UNCHANGED <<namespaces, files, begun, wrote>>
  BY DEF CommitLand
<1> HIDE DEF all, new
<1>6. at' \in [Kind -> [Ident -> MetadataFile \cup {None}]]
  BY <1>1, <1>4, <1>5 DEF Objects
<1>7. names' \subseteq Ident /\ published' \subseteq {"table", "view", "staged"} \X MetadataFile
  BY <1>1, <1>3, <1>5 DEF Objects
<1>8. Objects'
  BY <1>1, <1>5, <1>6, <1>7 DEF Objects
<1>9. Clients'
  BY <1>1, NoTransactionType, FinishStep DEF CommitLand
<1> QED
  BY <1>8, <1>9 DEF Inv

LEMMA InvCommitFails ==
  ASSUME Inv, NEW c \in Client, CommitRefused(c) \/ CommitNamespaceGone(c)
  PROVE  Inv'
<1>1. Objects /\ Clients
  BY DEF Inv
<1>2. /\ Finish(c) /\ txn' = [txn EXCEPT ![c] = NoTransaction]
      /\ UNCHANGED <<relations, files, published, begun, wrote>>
  BY DEF CommitRefused, CommitNamespaceGone
<1>3. Clients'
  BY <1>1, <1>2, NoTransactionType, FinishStep
<1>4. Objects'
  BY <1>1, <1>2 DEF Objects, relations
<1> QED
  BY <1>3, <1>4 DEF Inv

LEMMA InvCommitDiscard ==
  ASSUME Inv, NEW c \in Client, CommitDiscard(c)
  PROVE  Inv'
<1>1. Objects /\ Clients
  BY DEF Inv
<1>2. req[c].op = "commit" /\ req[c].phase = "discard" /\ req[c].phase \in CommitPhase
  BY DEF CommitDiscard, InPhase, CommitPhase
<1>3. Objects'
  BY <1>1 DEF CommitDiscard, Objects, relations
<1>4. CASE txn[c].attempt < COMMIT_MAX_RETRIES
  <2> DEFINE changes == txn[c].changes
             n == txn[c].attempt + 1
             x == Attempt(changes, n)
             r == [req[c] EXCEPT !.phase = "prepare"]
  <2>1. /\ req[c] \in Request /\ changes \in Seq(Change) /\ WellFormed(txn[c])
        /\ held[c] = {} /\ txn[c].attempt \in 0..COMMIT_MAX_RETRIES
    BY <1>1, <1>2, CommitCarried DEF Transaction
  <2>2. n \in 0..COMMIT_MAX_RETRIES
    BY <1>4, <2>1, BoundsAssumption
  <2>3. /\ r \in Request /\ r.op = "commit" /\ r.phase = "prepare"
        /\ req' = [req EXCEPT ![c] = r]
    BY <1>1, <1>2, <1>4, <2>1 DEF Request, Clients, CommitDiscard, Retry, GoTo
  <2>4. txn' = [txn EXCEPT ![c] = x] /\ UNCHANGED held
    BY <1>1, <1>4 DEF CommitDiscard, Retry, Clients
  <2>5. /\ Len(changes) > 0
        /\ \A i, j \in DOMAIN changes : changes[i].tab = changes[j].tab => i = j
    BY <2>1 DEF WellFormed
  <2> HIDE DEF changes, n, r
  <2>6. x \in Transaction /\ Fit(r, x, {})
    BY <2>1, <2>2, <2>3, <2>5, AttemptFits
  <2> HIDE DEF x
  <2>7. Clients'
    BY <1>1, <2>1, <2>3, <2>4, <2>6, SameLocks, ClientStep
  <2> QED
    BY <1>3, <2>7 DEF Inv
<1>5. CASE ~(txn[c].attempt < COMMIT_MAX_RETRIES)
  BY <1>1, <1>3, <1>5, NoTransactionType, FinishStep DEF CommitDiscard, Retry, Inv
<1> QED
  BY <1>4, <1>5

LEMMA NextInv == Inv /\ [Next]_vars => Inv'
<1> SUFFICES ASSUME Inv, [Next]_vars PROVE Inv'
  OBVIOUS
<1>1. CASE \E n \in Namespace : CreateNamespace(n) \/ DropNamespace(n)
  BY <1>1, InvNamespaces
<1>2. ASSUME NEW c \in Client, Arrive(c) PROVE Inv'
  <2>1. CASE \E op \in {"create", "stage"}, k \in Kind, t \in Ident : CreateWrite(c, op, k, t)
    BY <2>1, InvCreateWrite
  <2>2. CASE \E p \in published, t \in Ident : p[1] \in Kind /\ RegisterRead(c, p[1], t, p[2])
    BY <2>2, InvRegisterRead
  <2>3. CASE \E k \in Kind, t \in Ident : DropName(c, k, t)
    BY <2>3, InvDropName
  <2>4. CASE \E t \in Ident : PurgeLoad(c, t)
    BY <2>4, InvPurgeLoad
  <2>5. CASE \E k \in Kind, s, d \in Ident : RenameClaim(c, k, s, d)
    BY <2>5, InvRenameClaim
  <2>6. CASE \E v \in Ident : UpdateViewWrite(c, v)
    BY <2>6, InvUpdateViewWrite
  <2>7. CASE CommitStart(c)
    BY <2>7, InvCommitStart
  <2> QED
    BY <1>2, <2>1, <2>2, <2>3, <2>4, <2>5, <2>6, <2>7 DEF Arrive
<1>3. ASSUME NEW c \in Client, Continue(c) PROVE Inv'
  BY <1>3, InvInsert, InvStageUpsert, InvPurgeName, InvCascade, InvPurgeDelete,
     InvRenameRow, InvRenameRelease, InvUpdateViewSwap, InvCommitPrepare, InvCommitFails,
     InvCommitLock, InvCommitLand, InvCommitDiscard DEF Continue
<1>4. ASSUME NEW c \in Client, Abandon(c) \/ DeadlockVictim(c) PROVE Inv'
  BY <1>4, InvRollback
<1>5. CASE UNCHANGED vars
  BY <1>5 DEF vars, relations, Inv, Objects, Clients
<1> QED
  BY <1>1, <1>2, <1>3, <1>4, <1>5 DEF Next

\* Type correctness (src/catalog/postgres.rs, all of CatalogStore): whatever is in
\* flight, the relations hold pointers and names, and row locks are held only
\* inside a transaction.
THEOREM TypeCorrect == Spec => []TypeOK
<1>1. Spec => []Inv
  BY InitInv, NextInv, PTL DEF Spec
<1> QED
  BY <1>1, InvType, PTL

-----------------------------------------------------------------------------
(* No deadlock among commits                                                *)

\* A commit that waits wants the row of the first entry it has left, and what it
\* holds are rows of tables before that one.
LEMMA WaitingCommit ==
  ASSUME Clients, NEW c \in Client, req[c].op = "commit", Wants(c) # None
  PROVE  /\ NextEntry(c).tab \in Ident
         /\ Wants(c)[2] = NextEntry(c).tab
         /\ \A r \in held[c] : r[2] \in Ident /\ Rank[r[2]] < Rank[NextEntry(c).tab]
<1>1. req[c].phase \in CommitPhase \cup {"idle"}
  BY DEF Clients, Fit
<1>2. InPhase(c, "commit", "lock") /\ Wants(c) = RowOf(NextEntry(c))
  BY <1>1 DEF Wants, InPhase, CommitPhase
<1>3. /\ txn[c].prepared \in Seq(Prepared) /\ WellFormed(txn[c])
      /\ InOrder(txn[c], held[c]) /\ NextIndex(c) \in Left(txn[c])
  BY <1>2, CommitCarried, NextIndexIsFirst DEF InPhase, CommitPhase
<1>4. NextEntry(c).tab \in Ident
  BY <1>3, EntryType DEF NextEntry, Left
<1>5. Wants(c)[2] = NextEntry(c).tab
  BY <1>2 DEF RowOf
<1>6. ASSUME NEW r \in held[c]
      PROVE  r[2] \in Ident /\ Rank[r[2]] < Rank[NextEntry(c).tab]
  <2>1. PICK i \in txn[c].locked : r[2] = txn[c].prepared[i].tab
    BY <1>3 DEF InOrder
  <2>2. Rank[r[2]] < Rank[NextEntry(c).tab]
    BY <1>3, <2>1 DEF InOrder, NextEntry
  <2>3. r[2] \in Ident
    BY <1>3, <2>1, EntryType DEF WellFormed
  <2> QED
    BY <2>2, <2>3
<1> QED
  BY <1>4, <1>5, <1>6

\* Of the commits that wait for one another take one that wants the last table:
\* whoever holds that row wants a later one.
LEMMA OrderPreventsDeadlock == Clients => CommitsDoNotDeadlock
<1> SUFFICES ASSUME Clients, NEW S \in SUBSET {c \in Client : req[c].op = "commit"},
                    Deadlocked(S)
             PROVE  FALSE
  BY DEF CommitsDoNotDeadlock
<1> DEFINE rank(c) == Rank[NextEntry(c).tab]
           Q == {rank(c) : c \in S}
<1>1. \A c \in S : c \in Client /\ req[c].op = "commit"
  OBVIOUS
<1>2. S # {} /\ \A c \in S : Wants(c) # None /\ \E d \in S : Wants(c) \in held[d]
  BY DEF Deadlocked
<1>3. \A c \in S : NextEntry(c).tab \in Ident
  BY <1>1, <1>2, WaitingCommit
<1>4. PICK z \in Ident : \A t \in Ident : Rank[t] <= Rank[z]
  BY <1>2, <1>3, OrderAssumption
<1>5. Rank[z] \in Nat /\ Q \subseteq Nat /\ Q # {} /\ \A n \in Q : n <= Rank[z]
  BY <1>2, <1>3, <1>4, OrderAssumption
<1>6. \E m \in Q : \A n \in Q : n <= m
  <2> HIDE DEF Q
  <2> QED
    BY <1>5, Greatest
<1>7. PICK c \in S : \A d \in S : rank(d) <= rank(c)
  BY <1>6
<1>8. PICK d \in S : Wants(c) \in held[d]
  BY <1>2
<1>9. Rank[Wants(c)[2]] < rank(d)
  BY <1>1, <1>2, <1>8, WaitingCommit
<1>10. rank(c) < rank(d)
  BY <1>1, <1>2, <1>9, WaitingCommit
<1>11. rank(c) \in Nat /\ rank(d) \in Nat
  BY <1>3, OrderAssumption
<1> HIDE DEF rank
<1> QED
  BY <1>7, <1>10, <1>11

\* However many commits run on however many replicas, none of them wait for one
\* another in a circle (the lock order of commit_tables_atomic,
\* src/catalog/postgres.rs:1233-1254).
THEOREM CommitsDoNotDeadlockHolds == Spec => []CommitsDoNotDeadlock
<1>1. Inv => CommitsDoNotDeadlock
  BY OrderPreventsDeadlock DEF Inv
<1> QED
  BY <1>1, InitInv, NextInv, PTL DEF Spec

-----------------------------------------------------------------------------
(* Names and rows: what the rows a transaction has locked let it rely on     *)

\* An entry of a commit whose row is locked still lands: the name of a table to
\* create is free and its namespace there, a table to update points where it did.
EntryHolds(p, h, ns, nm, pt) ==
  IF p.expected = None
  THEN <<"name", p.tab>> \in h /\ p.tab \notin nm /\ NsOf[p.tab] \in ns
  ELSE <<"table", p.tab>> \in h /\ pt["table"][p.tab] = p.expected

\* What holds, in the relations ns, nm and pt, of the request r with its commit x
\* and its locks h.
Relies(r, x, h, ns, nm, pt) ==
  /\ r.op = "purge" => r.kind = "table"
  /\ r.phase = "cascade" => <<"name", r.tab>> \in h /\ pt[r.kind][r.tab] # None
  /\ r.phase \in {"row", "release"} =>
       <<"name", r.dest>> \in h /\ r.dest \notin nm /\ NsOf[r.dest] \in ns
  /\ r.phase = "release" => <<r.kind, r.tab>> \in h /\ pt[r.kind][r.tab] # None
  /\ r.phase \in {"lock", "land"} =>
       /\ \A i \in x.locked : EntryHolds(x.prepared[i], h, ns, nm, pt)
       /\ \A t \in Ident : <<"staged", t>> \in h =>
            \E i \in x.locked : x.prepared[i].tab = t /\ x.prepared[i].expected = None
  /\ r.phase = "land" => Left(x) = {} /\ x.prepared # <<>>

Reliance == \A c \in Client : Relies(req[c], txn[c], held[c], namespaces, names, at)

\* A row is locked by one transaction.  (A staging may be by two, each of which
\* would have to hold the name: only the names and rows of tables and views count.)
Exclusive ==
  \A c, d \in Client, r \in Row : c # d /\ r \in held[c] /\ r[1] # "staged" => r \notin held[d]

\* A name is in use for one table or one view.
Named ==
  \A t \in Ident : /\ t \in names <=> at["table"][t] # None \/ at["view"][t] # None
                   /\ at["table"][t] = None \/ at["view"][t] = None

LockInv == Named /\ ContentsHaveNamespace /\ Exclusive /\ Reliance

\* What a step of another transaction leaves to one that holds the rows h.
Kept(h) ==
  /\ \A t \in Ident : <<"name", t>> \in h =>
       /\ t \in names' => t \in names
       /\ NsOf[t] \in namespaces => NsOf[t] \in namespaces'
       /\ \A k \in Kind : at[k][t] # None => at'[k][t] # None
  /\ \A k \in Kind, t \in Ident : <<k, t>> \in h /\ at[k][t] # None => at'[k][t] = at[k][t]

\* The only client whose request moves.
MovesAlone(c) ==
  \A d \in Client \ {c} : req'[d] = req[d] /\ txn'[d] = txn[d] /\ held'[d] = held[d]

Step(c) == Arrive(c) \/ Continue(c) \/ Abandon(c) \/ DeadlockVictim(c)

LEMMA StepsMoveAlone ==
  ASSUME Clients, NEW c \in Client, Step(c)
  PROVE  MovesAlone(c)
<1>1. /\ DOMAIN req = Client /\ DOMAIN txn = Client /\ DOMAIN held = Client
  BY DEF Clients
<1>2. CASE Arrive(c)
  <2>1. ASSUME NEW r, Begin(c, r), UNCHANGED txn, \A d \in Client \ {c} : held'[d] = held[d]
        PROVE  MovesAlone(c)
    BY <1>1, <2>1 DEF MovesAlone, Begin
  <2>2. ASSUME NEW op, NEW k, NEW t, CreateWrite(c, op, k, t) PROVE MovesAlone(c)
    BY <2>1, <2>2 DEF CreateWrite
  <2>3. ASSUME NEW k, NEW t, NEW f, RegisterRead(c, k, t, f) PROVE MovesAlone(c)
    BY <2>1, <2>3 DEF RegisterRead
  <2>4. ASSUME NEW k, NEW t, DropName(c, k, t) PROVE MovesAlone(c)
    BY <1>1, <2>1, <2>4 DEF DropName, Lock
  <2>5. ASSUME NEW t, PurgeLoad(c, t) PROVE MovesAlone(c)
    BY <2>1, <2>5 DEF PurgeLoad
  <2>6. ASSUME NEW k, NEW s, NEW d, RenameClaim(c, k, s, d) PROVE MovesAlone(c)
    BY <1>1, <2>1, <2>6 DEF RenameClaim, Lock
  <2>7. ASSUME NEW v, UpdateViewWrite(c, v) PROVE MovesAlone(c)
    BY <2>1, <2>7 DEF UpdateViewWrite
  <2>8. ASSUME CommitStart(c) PROVE MovesAlone(c)
    <3>1. \A d \in Client \ {c} : txn'[d] = txn[d]
      BY <1>1, <2>8 DEF CommitStart
    <3> QED
      BY <1>1, <2>8, <3>1 DEF CommitStart, Begin, MovesAlone
  <2> QED
    BY <1>2, <2>2, <2>3, <2>4, <2>5, <2>6, <2>7, <2>8 DEF Arrive
<1>3. CASE Insert(c) \/ StageUpsert(c) \/ PurgeName(c) \/ Cascade(c) \/ PurgeDelete(c)
           \/ RenameRow(c) \/ RenameRelease(c) \/ UpdateViewSwap(c)
  BY <1>1, <1>3 DEF MovesAlone, Insert, StageUpsert, PurgeName, Cascade, PurgeDelete, RenameRow,
     RenameRelease, UpdateViewSwap, Finish, GoTo, Lock
<1>4. CASE CommitPrepare(c) \/ CommitRefused(c) \/ CommitLock(c) \/ CommitNamespaceGone(c)
           \/ CommitLand(c) \/ CommitDiscard(c)
  BY <1>1, <1>4 DEF MovesAlone, CommitPrepare, CommitRefused, CommitLock, CommitNamespaceGone,
     CommitLand, CommitDiscard, Finish, GoTo, Lock, Retry
<1>5. CASE Abandon(c) \/ DeadlockVictim(c)
  BY <1>1, <1>5 DEF MovesAlone, Abandon, DeadlockVictim, Finish
<1> QED
  BY <1>2, <1>3, <1>4, <1>5 DEF Step, Continue

\* What a client names, by its type.
LEMMA NamesCarried ==
  ASSUME Clients, NEW d \in Client
  PROVE  /\ req[d].phase \in {"cascade", "row", "release"} =>
              req[d].tab \in Ident /\ req[d].kind \in Kind
         /\ req[d].phase \in {"row", "release"} => req[d].dest \in Ident
         /\ req[d].phase \in {"lock", "land"} =>
              \A i \in txn[d].locked :
                i \in DOMAIN txn[d].prepared /\ txn[d].prepared[i] \in Prepared
                /\ txn[d].prepared[i].tab \in Ident
<1>1. CASE req[d].phase \in {"cascade", "row", "release"}
  BY <1>1, Carried DEF CommitPhase
<1>2. CASE req[d].phase \in {"lock", "land"}
  <2>1. txn[d].prepared \in Seq(Prepared) /\ txn[d].locked \subseteq DOMAIN txn[d].prepared
    BY <1>2, CommitCarried DEF CommitPhase, WellFormed
  <2> QED
    BY <1>2, <2>1, EntryType
<1> QED
  BY <1>1, <1>2

LEMMA EntryKept ==
  ASSUME NEW p \in Prepared, NEW h, Kept(h), EntryHolds(p, h, namespaces, names, at)
  PROVE  EntryHolds(p, h, namespaces', names', at')
<1>1. p.tab \in Ident
  BY DEF Prepared
<1> QED
  BY <1>1 DEF EntryHolds, Kept

LEMMA ReliesKept ==
  ASSUME Clients, NEW d \in Client, Kept(held[d]),
         Relies(req[d], txn[d], held[d], namespaces, names, at)
  PROVE  Relies(req[d], txn[d], held[d], namespaces', names', at')
<1> DEFINE r == req[d]
           x == txn[d]
           h == held[d]
<1>1. r.phase \in {"lock", "land"} =>
        \A i \in x.locked : EntryHolds(x.prepared[i], h, namespaces', names', at')
  <2> SUFFICES ASSUME r.phase \in {"lock", "land"}, NEW i \in x.locked
               PROVE  EntryHolds(x.prepared[i], h, namespaces', names', at')
    OBVIOUS
  <2>1. x.prepared[i] \in Prepared
    BY NamesCarried
  <2>2. EntryHolds(x.prepared[i], h, namespaces, names, at)
    BY DEF Relies
  <2> QED
    BY <2>1, <2>2, EntryKept
<1>2. r.phase = "cascade" => at'[r.kind][r.tab] # None
  BY NamesCarried DEF Relies, Kept
<1>3. r.phase \in {"row", "release"} => r.dest \notin names' /\ NsOf[r.dest] \in namespaces'
  BY NamesCarried DEF Relies, Kept
<1>4. r.phase = "release" => at'[r.kind][r.tab] # None
  BY NamesCarried DEF Relies, Kept
<1> QED
  BY <1>1, <1>2, <1>3, <1>4 DEF Relies

\* If a step locks only rows that are free, takes nothing from the others and
\* leaves its own client what it relies on, so are all.
LEMMA RelianceStep ==
  ASSUME Clients, Exclusive, Reliance, NEW c \in Client, MovesAlone(c),
         held'[c] \subseteq Row,
         \A row \in held'[c] : row \in held[c] \/ ~Locked(c, row) \/ row[1] = "staged",
         Relies(req'[c], txn'[c], held'[c], namespaces', names', at'),
         \A d \in Client \ {c} : Kept(held[d])
  PROVE  Exclusive' /\ Reliance'
<1>1. ASSUME NEW d \in Client PROVE Relies(req'[d], txn'[d], held'[d], namespaces', names', at')
  <2>1. CASE d # c
    <3>1. Relies(req[d], txn[d], held[d], namespaces, names, at)
      BY DEF Reliance
    <3>2. Relies(req[d], txn[d], held[d], namespaces', names', at')
      BY <2>1, <3>1, ReliesKept
    <3> QED
      BY <2>1, <3>2 DEF MovesAlone
  <2> QED
    BY <2>1
<1>2. Exclusive'
  <2> SUFFICES ASSUME NEW d \in Client, NEW e \in Client, NEW row \in Row,
                      d # e, row \in held'[d], row[1] # "staged", row \in held'[e]
               PROVE  FALSE
    BY DEF Exclusive
  <2>1. CASE d # c /\ e # c
    BY <2>1 DEF Exclusive, MovesAlone
  <2>2. CASE d = c
    BY <2>2 DEF Exclusive, MovesAlone, Locked
  <2>3. CASE e = c
    BY <2>3 DEF Exclusive, MovesAlone, Locked
  <2> QED
    BY <2>1, <2>2, <2>3
<1> QED
  BY <1>1, <1>2 DEF Reliance

\* Steps that take no lock and change neither names nor rows.
LEMMA QuietReliance ==
  ASSUME Clients, Exclusive, Reliance, NEW c \in Client, MovesAlone(c),
         UNCHANGED <<namespaces, names, at>>, held'[c] \subseteq held[c],
         req'[c].phase \notin {"cascade", "row", "release", "lock", "land"},
         req'[c].op = "purge" => req'[c].kind = "table"
  PROVE  Exclusive' /\ Reliance'
<1>1. \A h : Kept(h)
  BY DEF Kept
<1>2. Relies(req'[c], txn'[c], held'[c], namespaces', names', at')
  BY DEF Relies
<1>3. held'[c] \subseteq Row
  BY DEF Clients
<1> QED
  BY <1>1, <1>2, <1>3, RelianceStep

LEMMA QuietRelations ==
  ASSUME Named, ContentsHaveNamespace, UNCHANGED <<namespaces, names, at, staged>>
  PROVE  Named' /\ ContentsHaveNamespace'
  BY DEF Named, ContentsHaveNamespace, Rows

LEMMA Finished ==
  ASSUME Clients, NEW c \in Client, Finish(c)
  PROVE  held'[c] = {} /\ req'[c].phase = "idle" /\ req'[c].kind = "table"
<1>1. Idle.phase = "idle" /\ Idle.kind = "table"
  BY DEF Idle
<1> QED
  BY <1>1 DEF Clients, Finish

\* A request is over, or goes on without locks: nothing it relied on is missed.
LEMMA FinishKeepsLocks ==
  ASSUME Clients, LockInv, NEW c \in Client, Step(c), Finish(c), UNCHANGED relations
  PROVE  LockInv'
<1>1. /\ held'[c] \subseteq held[c] /\ req'[c].kind = "table"
      /\ req'[c].phase \notin {"cascade", "row", "release", "lock", "land"}
  BY Finished
<1> QED
  BY <1>1, StepsMoveAlone, QuietReliance, QuietRelations DEF LockInv, relations

LEMMA LocksNamespaces ==
  ASSUME Clients, LockInv, NEW n \in Namespace, CreateNamespace(n) \/ DropNamespace(n)
  PROVE  LockInv'
<1>1. UNCHANGED <<req, txn, held, names, at>>
  BY DEF CreateNamespace, DropNamespace
<1>2. \A c \in Client : Kept(held[c])
  <2> SUFFICES ASSUME NEW c \in Client, NEW t \in Ident, <<"name", t>> \in held[c],
                      NsOf[t] \in namespaces
               PROVE  NsOf[t] \in namespaces'
    BY <1>1 DEF Kept
  <2>1. CASE CreateNamespace(n)
    BY <2>1 DEF CreateNamespace
  <2>2. CASE DropNamespace(n)
    <3>1. NsOf[t] # n
      <4>1. <<"name", t>> \in Row /\ <<"name", t>>[1] = "name" /\ <<"name", t>>[2] = t
        BY DEF Row
      <4> QED
        BY <2>2, <4>1 DEF DropNamespace
    <3> QED
      BY <2>2, <3>1 DEF DropNamespace
  <2> QED
    BY <2>1, <2>2
<1>3. Reliance'
  <2> SUFFICES ASSUME NEW c \in Client
               PROVE  Relies(req'[c], txn'[c], held'[c], namespaces', names', at')
    BY DEF Reliance
  <2>1. Relies(req[c], txn[c], held[c], namespaces', names', at')
    BY <1>2, ReliesKept DEF LockInv, Reliance
  <2> QED
    BY <1>1, <2>1
<1>4. Exclusive' /\ Named'
  BY <1>1 DEF LockInv, Exclusive, Named
<1>5. ContentsHaveNamespace'
  <2>1. CASE CreateNamespace(n)
    BY <2>1 DEF CreateNamespace, LockInv, ContentsHaveNamespace, Rows
  <2>2. CASE DropNamespace(n)
    <3>1. ASSUME NEW t \in Ident, Rows(t) # {} \/ staged'[t] # None
          PROVE  NsOf[t] \in namespaces'
      <4>1. NsOf[t] \in namespaces
        BY <2>2, <3>1 DEF DropNamespace, LockInv, ContentsHaveNamespace
      <4>2. Rows(t) # {} => t \in names
        BY DEF LockInv, Named, Rows
      <4>3. NsOf[t] # n
        BY <2>2, <3>1, <4>2 DEF DropNamespace, Unreferenced
      <4> QED
        BY <2>2, <4>1, <4>3 DEF DropNamespace
    <3>2. \A t \in Ident : Rows(t)' = Rows(t)
      BY <1>1 DEF Rows
    <3> QED
      BY <2>2, <3>1, <3>2 DEF DropNamespace, Unreferenced, LockInv, ContentsHaveNamespace
  <2> QED
    BY <2>1, <2>2
<1> QED
  BY <1>3, <1>4, <1>5 DEF LockInv

\* A request that arrives and holds nothing.
LEMMA ArrivesQuietly ==
  ASSUME Clients, LockInv, NEW c \in Client, NEW r, Begin(c, r), Step(c),
         UNCHANGED <<namespaces, names, at, staged, held>>,
         r.phase \notin {"cascade", "row", "release", "lock", "land"},
         r.op = "purge" => r.kind = "table"
  PROVE  LockInv'
<1>1. req'[c] = r /\ held'[c] = held[c]
  BY DEF Begin, Clients
<1> QED
  BY <1>1, StepsMoveAlone, QuietReliance, QuietRelations DEF LockInv

LEMMA LocksUpdateViewWrite ==
  ASSUME Clients, LockInv, NEW c \in Client, NEW v \in Ident, UpdateViewWrite(c, v)
  PROVE  LockInv'
<1> DEFINE old == at["view"][v]
           f == Append(old, FreshId(c))
           q == On("update_view", "view", "swap", v)
           r == [q EXCEPT !.file = f, !.expected = old]
<1>1. Begin(c, r) /\ UNCHANGED <<relations, published, txn, held>>
  BY DEF UpdateViewWrite
<1>2. Step(c)
  BY DEF Step, Arrive
<1> HIDE DEF old, f
<1>3. r.phase = "swap" /\ r.op = "update_view"
  BY DEF On, Idle
<1> HIDE DEF r
<1> QED
  BY <1>1, <1>2, <1>3, ArrivesQuietly DEF relations

LEMMA LocksQuietArrivals ==
  ASSUME Clients, LockInv, NEW c \in Client,
         \/ \E op \in {"create", "stage"}, k \in Kind, t \in Ident : CreateWrite(c, op, k, t)
         \/ \E p \in published, t \in Ident : p[1] \in Kind /\ RegisterRead(c, p[1], t, p[2])
         \/ \E t \in Ident : PurgeLoad(c, t)
         \/ \E v \in Ident : UpdateViewWrite(c, v)
         \/ CommitStart(c)
  PROVE  LockInv'
<1>1. Step(c)
  BY DEF Step, Arrive
<1>2. ASSUME NEW op \in {"create", "stage"}, NEW k \in Kind, NEW t \in Ident,
             CreateWrite(c, op, k, t)
      PROVE  LockInv'
  <2> DEFINE r == [On(op, k, "insert", t) EXCEPT !.file = << FreshId(c) >>]
  <2>1. r.phase = "insert" /\ r.op # "purge"
    BY DEF On, Idle
  <2>2. Begin(c, r) /\ UNCHANGED <<namespaces, names, at, staged, held>>
    BY <1>2 DEF CreateWrite, relations
  <2> HIDE DEF r
  <2> QED
    BY <1>1, <2>1, <2>2, ArrivesQuietly
<1>3. ASSUME NEW p \in published, NEW t \in Ident, RegisterRead(c, p[1], t, p[2])
      PROVE  LockInv'
  <2> DEFINE r == [On("register", p[1], "insert", t) EXCEPT !.file = p[2]]
  <2>1. r.phase = "insert" /\ r.op # "purge"
    BY DEF On, Idle
  <2>2. Begin(c, r) /\ UNCHANGED <<namespaces, names, at, staged, held>>
    BY <1>3 DEF RegisterRead, relations
  <2> HIDE DEF r
  <2> QED
    BY <1>1, <2>1, <2>2, ArrivesQuietly
<1>4. ASSUME NEW t \in Ident, PurgeLoad(c, t) PROVE LockInv'
  <2> DEFINE r == [On("purge", "table", "drop", t) EXCEPT !.file = at["table"][t]]
  <2>1. r.phase = "drop" /\ r.kind = "table"
    BY DEF On, Idle
  <2>2. Begin(c, r) /\ UNCHANGED <<namespaces, names, at, staged, held>>
    BY <1>4 DEF PurgeLoad, relations
  <2> HIDE DEF r
  <2> QED
    BY <1>1, <2>1, <2>2, ArrivesQuietly
<1>5. ASSUME NEW v \in Ident, UpdateViewWrite(c, v) PROVE LockInv'
  BY <1>5, LocksUpdateViewWrite
<1>6. CASE CommitStart(c)
  <2> DEFINE r == [Idle EXCEPT !.op = "commit", !.phase = "prepare"]
  <2>1. r.phase = "prepare" /\ r.op = "commit"
    BY DEF Idle
  <2>2. Begin(c, r) /\ UNCHANGED <<namespaces, names, at, staged, held>>
    BY <1>6 DEF CommitStart, relations
  <2> HIDE DEF r
  <2> QED
    BY <1>1, <2>1, <2>2, ArrivesQuietly
<1> QED
  BY <1>2, <1>3, <1>4, <1>5, <1>6

\* A transaction that opens by locking a name.
LEMMA LocksDropName ==
  ASSUME Clients, LockInv, NEW c \in Client, NEW k \in Kind, NEW t \in Ident,
         DropName(c, k, t)
  PROVE  LockInv'
<1> DEFINE r == On("drop", k, "cascade", t)
<1>1. /\ Step(c) /\ UNCHANGED relations
      /\ at[k][t] # None /\ ~Locked(c, <<"name", t>>)
      /\ Begin(c, r) /\ Lock(c, {<<"name", t>>})
  BY DEF Step, Arrive, DropName
<1>2. r.phase = "cascade" /\ r.op = "drop" /\ r.tab = t /\ r.kind = k
  BY DEF On, Idle
<1> HIDE DEF r
<1>3. req'[c] = r /\ held'[c] = held[c] \cup {<<"name", t>>} /\ held[c] = {}
  BY <1>1, IdleHoldsNothing DEF Begin, Lock, Clients
<1>4. Relies(req'[c], txn'[c], held'[c], namespaces', names', at')
  BY <1>1, <1>2, <1>3 DEF Relies, relations
<1>5. \A h : Kept(h)
  BY <1>1 DEF Kept, relations
<1>6. held'[c] \subseteq Row
  BY <1>3 DEF Row
<1>7. Exclusive' /\ Reliance'
  BY <1>1, <1>3, <1>4, <1>5, <1>6, StepsMoveAlone, RelianceStep DEF LockInv
<1> QED
  BY <1>1, <1>7, QuietRelations DEF LockInv, relations

LEMMA LocksRenameClaim ==
  ASSUME Clients, LockInv, NEW c \in Client, NEW k \in Kind, NEW s \in Ident, NEW d \in Ident,
         RenameClaim(c, k, s, d)
  PROVE  LockInv'
<1> DEFINE r == [On("rename", k, "row", s) EXCEPT !.dest = d]
<1>1. /\ Step(c) /\ UNCHANGED relations
      /\ NsOf[d] \in namespaces /\ d \notin names /\ ~Locked(c, <<"name", d>>)
      /\ Begin(c, r) /\ Lock(c, {<<"name", d>>})
  BY DEF Step, Arrive, RenameClaim, ReferenceHolds, NameTaken
<1>2. r.phase = "row" /\ r.op = "rename" /\ r.dest = d
  BY DEF On, Idle
<1> HIDE DEF r
<1>3. req'[c] = r /\ held'[c] = held[c] \cup {<<"name", d>>} /\ held[c] = {}
  BY <1>1, IdleHoldsNothing DEF Begin, Lock, Clients
<1>4. Relies(req'[c], txn'[c], held'[c], namespaces', names', at')
  BY <1>1, <1>2, <1>3 DEF Relies, relations
<1>5. \A h : Kept(h)
  BY <1>1 DEF Kept, relations
<1>6. held'[c] \subseteq Row
  BY <1>3 DEF Row
<1>7. Exclusive' /\ Reliance'
  BY <1>1, <1>3, <1>4, <1>5, <1>6, StepsMoveAlone, RelianceStep DEF LockInv
<1> QED
  BY <1>1, <1>7, QuietRelations DEF LockInv, relations

LEMMA LocksInsert ==
  ASSUME Inv, LockInv, NEW c \in Client, Insert(c)
  PROVE  LockInv'
<1> DEFINE t == req[c].tab
           k == req[c].kind
           f == req[c].file
<1>1. Objects /\ Clients /\ Step(c)
  BY DEF Inv, Step, Continue
<1>2. t \in Ident /\ k \in Kind /\ f \in MetadataFile /\ f # None
  BY <1>1, Carried, PointerAssumption DEF Insert, CommitPhase
<1>3. /\ ~Locked(c, <<"name", t>>) /\ Finish(c) /\ UNCHANGED <<namespaces, staged>>
      /\ \/ /\ NsOf[t] \in namespaces /\ t \notin names
            /\ names' = names \cup {t}
            /\ at' = [at EXCEPT ![k][t] = f]
         \/ UNCHANGED <<names, at>>
  BY DEF Insert, ReferenceHolds, NameTaken
<1>4. held'[c] = {} /\ req'[c].phase = "idle" /\ req'[c].kind = "table"
  BY <1>1, <1>3, Finished
<1>5. CASE UNCHANGED <<names, at>>
  BY <1>1, <1>3, <1>4, <1>5, StepsMoveAlone, QuietReliance, QuietRelations DEF LockInv
<1>6. CASE /\ NsOf[t] \in namespaces /\ t \notin names
           /\ names' = names \cup {t}
           /\ at' = [at EXCEPT ![k][t] = f]
  <2> HIDE DEF t, k, f
  <2>1. /\ at' \in [Kind -> [Ident -> MetadataFile \cup {None}]]
        /\ \A j \in Kind, u \in Ident : at'[j][u] = IF j = k /\ u = t THEN f ELSE at[j][u]
    BY <1>1, <1>2, <1>6 DEF Objects
  <2>2. at["table"][t] = None /\ at["view"][t] = None
    BY <1>2, <1>6 DEF LockInv, Named
  <2>3. ASSUME NEW d \in Client \ {c} PROVE Kept(held[d])
    <3>1. <<"name", t>> \notin held[d]
      BY <1>3 DEF Locked
    <3> QED
      BY <1>3, <1>6, <2>1, <2>2, <3>1 DEF Kept
  <2>4. Exclusive' /\ Reliance'
    <3>1. Relies(req'[c], txn'[c], held'[c], namespaces', names', at')
      BY <1>4 DEF Relies
    <3> QED
      BY <1>1, <1>4, <2>3, <3>1, StepsMoveAlone, RelianceStep DEF LockInv
  <2>5. Named'
    BY <1>2, <1>6, <2>1, <2>2 DEF LockInv, Named
  <2>6. ContentsHaveNamespace'
    <3>1. \A u \in Ident : Rows(u)' # {} => u = t \/ Rows(u) # {}
      BY <2>1 DEF Rows
    <3> QED
      BY <1>3, <1>6, <3>1 DEF LockInv, ContentsHaveNamespace
  <2> QED
    BY <2>4, <2>5, <2>6 DEF LockInv
<1> QED
  BY <1>3, <1>5, <1>6

LEMMA LocksStageUpsert ==
  ASSUME Inv, LockInv, NEW c \in Client, StageUpsert(c)
  PROVE  LockInv'
<1>1. Objects /\ Clients /\ Step(c)
  BY DEF Inv, Step, Continue
<1>2. Finish(c) /\ UNCHANGED <<namespaces, names, at>>
  BY DEF StageUpsert
<1>3. held'[c] = {} /\ req'[c].phase = "idle" /\ req'[c].kind = "table"
  BY <1>1, <1>2, Finished
<1>4. Exclusive' /\ Reliance'
  BY <1>1, <1>2, <1>3, StepsMoveAlone, QuietReliance DEF LockInv
<1>5. \A t \in Ident : staged'[t] # None => staged[t] # None \/ NsOf[t] \in namespaces
  BY <1>1 DEF StageUpsert, ReferenceHolds, Objects
<1>6. Named' /\ ContentsHaveNamespace'
  BY <1>2, <1>5 DEF LockInv, Named, ContentsHaveNamespace, Rows
<1> QED
  BY <1>4, <1>6 DEF LockInv

\* A transaction that goes on, with one more row locked.
LEMMA LocksOneMore ==
  ASSUME Clients, LockInv, NEW c \in Client, Step(c), UNCHANGED relations, UNCHANGED txn,
         NEW phase \in {"cascade", "release"}, GoTo(c, phase),
         NEW row \in Row, ~Locked(c, row), Lock(c, {row}),
         Relies([req[c] EXCEPT !.phase = phase], txn[c], held[c] \cup {row},
                namespaces, names, at)
  PROVE  LockInv'
<1>1. /\ req'[c] = [req[c] EXCEPT !.phase = phase] /\ txn'[c] = txn[c]
      /\ held'[c] = held[c] \cup {row}
  BY DEF GoTo, Lock, Clients
<1>2. \A h : Kept(h)
  BY DEF Kept, relations
<1>3. held'[c] \subseteq Row
  BY <1>1 DEF Clients
<1>4. Relies(req'[c], txn'[c], held'[c], namespaces', names', at')
  BY <1>1 DEF relations
<1>5. Exclusive' /\ Reliance'
  BY <1>1, <1>2, <1>3, <1>4, StepsMoveAlone, RelianceStep DEF LockInv
<1> QED
  BY <1>5, QuietRelations DEF LockInv, relations

LEMMA LocksPurgeName ==
  ASSUME Clients, LockInv, NEW c \in Client, PurgeName(c)
  PROVE  LockInv'
<1>1. Step(c) /\ UNCHANGED relations /\ UNCHANGED txn
  BY DEF PurgeName, Step, Continue
<1>2. CASE Finish(c)
  BY <1>1, <1>2, FinishKeepsLocks
<1>3. CASE /\ at["table"][req[c].tab] # None /\ GoTo(c, "cascade")
           /\ Lock(c, {<<"name", req[c].tab>>})
  <2> DEFINE r == [req[c] EXCEPT !.phase = "cascade"]
             row == <<"name", req[c].tab>>
  <2>1. /\ req[c].tab \in Ident /\ req[c] \in Request /\ req[c].op = "purge"
        /\ req[c].kind = "table"
    BY Carried DEF PurgeName, InPhase, CommitPhase, Clients, LockInv, Reliance, Relies
  <2>2. row \in Row /\ ~Locked(c, row)
    BY <2>1 DEF Row, PurgeName
  <2>3. r.phase = "cascade" /\ r.tab = req[c].tab /\ r.kind = "table"
    BY <2>1 DEF Request
  <2> HIDE DEF r, row
  <2>4. Relies(r, txn[c], held[c] \cup {row}, namespaces, names, at)
    BY <1>3, <2>1, <2>3 DEF Relies, row
  <2> QED
    BY <1>1, <1>3, <2>2, <2>4, LocksOneMore DEF r, row
<1> QED
  BY <1>2, <1>3 DEF PurgeName

LEMMA LocksCascade ==
  ASSUME Inv, LockInv, NEW c \in Client, Cascade(c)
  PROVE  LockInv'
<1> DEFINE t == req[c].tab
           k == req[c].kind
<1>1. Objects /\ Clients /\ Step(c)
  BY DEF Inv, Step, Continue
<1>2. t \in Ident /\ k \in Kind /\ req[c] \in Request
  BY <1>1, Carried DEF Cascade, CommitPhase, Clients
<1>3. Relies(req[c], txn[c], held[c], namespaces, names, at)
  BY DEF LockInv, Reliance
<1>4. <<"name", t>> \in held[c] /\ at[k][t] # None
      /\ (req[c].op = "purge" => req[c].kind = "table")
  BY <1>3 DEF Cascade, Relies
<1>5. /\ ~Locked(c, <<k, t>>) /\ UNCHANGED <<namespaces, staged>>
      /\ names' = names \ {t} /\ at' = [at EXCEPT ![k][t] = None] /\ held'[c] = {}
  BY <1>1 DEF Cascade, Clients
<1>6. Relies(req'[c], txn'[c], held'[c], namespaces', names', at')
  <2>1. req'[c] = IF req[c].op = "purge" THEN [req[c] EXCEPT !.phase = "delete"] ELSE Idle
    BY <1>1 DEF Cascade, Clients
  <2>2. /\ Idle.phase = "idle" /\ Idle.kind = "table"
        /\ [req[c] EXCEPT !.phase = "delete"].phase = "delete"
        /\ [req[c] EXCEPT !.phase = "delete"].kind = k
    BY <1>2 DEF Idle, Request
  <2> QED
    BY <1>4, <2>1, <2>2 DEF Relies
<1> HIDE DEF t, k
<1>7. \A j \in Kind, u \in Ident : at'[j][u] = IF j = k /\ u = t THEN None ELSE at[j][u]
  BY <1>1, <1>2, <1>5 DEF Objects
<1>8. ASSUME NEW d \in Client \ {c} PROVE Kept(held[d])
  <2>1. <<"name", t>> \in Row /\ <<"name", t>>[1] = "name"
    BY <1>2 DEF Row
  <2>2. <<"name", t>> \notin held[d] /\ <<k, t>> \notin held[d]
    BY <1>4, <1>5, <2>1 DEF LockInv, Exclusive, Locked
  <2> QED
    BY <1>5, <1>7, <2>2 DEF Kept
<1>9. Exclusive' /\ Reliance'
  BY <1>1, <1>5, <1>6, <1>8, StepsMoveAlone, RelianceStep DEF LockInv
<1>10. Named'
  BY <1>2, <1>4, <1>5, <1>7 DEF LockInv, Named
<1>11. ContentsHaveNamespace'
  <2>1. \A u \in Ident : Rows(u)' # {} => Rows(u) # {}
    BY <1>7 DEF Rows
  <2> QED
    BY <1>5, <2>1 DEF LockInv, ContentsHaveNamespace
<1> QED
  BY <1>9, <1>10, <1>11 DEF LockInv

LEMMA LocksRenameRow ==
  ASSUME Clients, LockInv, NEW c \in Client, RenameRow(c)
  PROVE  LockInv'
<1>1. Step(c) /\ UNCHANGED relations /\ UNCHANGED txn
  BY DEF RenameRow, Step, Continue
<1>2. CASE Finish(c)
  BY <1>1, <1>2, FinishKeepsLocks
<1>3. CASE /\ at[req[c].kind][req[c].tab] # None /\ GoTo(c, "release")
           /\ Lock(c, {<<req[c].kind, req[c].tab>>})
  <2> DEFINE r == [req[c] EXCEPT !.phase = "release"]
             row == <<req[c].kind, req[c].tab>>
  <2>1. /\ req[c] \in Request /\ req[c].op = "rename" /\ req[c].phase = "row"
        /\ req[c].tab \in Ident /\ req[c].kind \in Kind
    BY Carried DEF RenameRow, InPhase, CommitPhase, Clients
  <2>2. Relies(req[c], txn[c], held[c], namespaces, names, at)
    BY DEF LockInv, Reliance
  <2>3. row \in Row /\ ~Locked(c, row)
    BY <2>1 DEF Row, RenameRow
  <2>4. /\ r.phase = "release" /\ r.op = "rename" /\ r.tab = req[c].tab
        /\ r.kind = req[c].kind /\ r.dest = req[c].dest
    BY <2>1 DEF Request
  <2> HIDE DEF r, row
  <2>5. Relies(r, txn[c], held[c] \cup {row}, namespaces, names, at)
    BY <1>3, <2>1, <2>2, <2>4 DEF Relies, row
  <2> QED
    BY <1>1, <1>3, <2>3, <2>5, LocksOneMore DEF r, row
<1> QED
  BY <1>2, <1>3 DEF RenameRow

LEMMA LocksRenameRelease ==
  ASSUME Inv, LockInv, NEW c \in Client, RenameRelease(c)
  PROVE  LockInv'
<1> DEFINE s == req[c].tab
           d == req[c].dest
           k == req[c].kind
<1>1. Objects /\ Clients /\ Step(c)
  BY DEF Inv, Step, Continue
<1>2. s \in Ident /\ d \in Ident /\ k \in Kind
  BY <1>1, Carried DEF RenameRelease, InPhase, CommitPhase
<1>3. Relies(req[c], txn[c], held[c], namespaces, names, at)
  BY DEF LockInv, Reliance
<1>4. /\ <<"name", d>> \in held[c] /\ d \notin names /\ NsOf[d] \in namespaces
      /\ <<k, s>> \in held[c] /\ at[k][s] # None
  BY <1>3 DEF RenameRelease, InPhase, Relies
<1>5. /\ ~Locked(c, <<"name", s>>) /\ Finish(c) /\ UNCHANGED <<namespaces, staged>>
      /\ names' = (names \cup {d}) \ {s}
      /\ at' = [at EXCEPT ![k][d] = at[k][s], ![k][s] = None]
  BY DEF RenameRelease, NamesAfterRename
<1>6. held'[c] = {} /\ req'[c].phase = "idle" /\ req'[c].kind = "table"
  BY <1>1, <1>5, Finished
<1> HIDE DEF s, d, k
<1>7. s \in names /\ s # d /\ at["table"][d] = None /\ at["view"][d] = None
  BY <1>2, <1>4 DEF LockInv, Named
<1>8. \A j \in Kind, u \in Ident :
        at'[j][u] = IF j = k /\ u = s THEN None
                    ELSE IF j = k /\ u = d THEN at[k][s] ELSE at[j][u]
  BY <1>1, <1>2, <1>5, <1>7 DEF Objects
<1>9. ASSUME NEW e \in Client \ {c} PROVE Kept(held[e])
  <2>1. <<"name", d>> \in Row /\ <<"name", d>>[1] = "name" /\ <<k, s>> \in Row /\ <<k, s>>[1] = k
    BY <1>2 DEF Row
  <2>2. <<"name", d>> \notin held[e] /\ <<k, s>> \notin held[e] /\ <<"name", s>> \notin held[e]
    BY <1>2, <1>4, <1>5, <2>1 DEF LockInv, Exclusive, Locked
  <2>3. ASSUME NEW t \in Ident, <<"name", t>> \in held[e]
        PROVE  /\ t \in names' => t \in names
               /\ \A j \in Kind : at[j][t] # None => at'[j][t] # None
    <3>1. t # d /\ t # s
      BY <2>2, <2>3
    <3> QED
      BY <1>5, <1>8, <3>1
  <2>4. ASSUME NEW j \in Kind, NEW t \in Ident, <<j, t>> \in held[e], at[j][t] # None
        PROVE  at'[j][t] = at[j][t]
    <3>1. ~(j = k /\ t = s)
      BY <2>2, <2>4
    <3>2. t # d
      BY <1>7, <2>4
    <3> QED
      BY <1>8, <3>1, <3>2
  <2> QED
    BY <1>5, <2>3, <2>4 DEF Kept
<1>10. Exclusive' /\ Reliance'
  <2>1. Relies(req'[c], txn'[c], held'[c], namespaces', names', at')
    BY <1>6 DEF Relies
  <2> QED
    BY <1>1, <1>6, <1>9, <2>1, StepsMoveAlone, RelianceStep DEF LockInv
<1>11. Named'
  <2> SUFFICES ASSUME NEW t \in Ident
               PROVE  /\ t \in names' <=> at'["table"][t] # None \/ at'["view"][t] # None
                      /\ at'["table"][t] = None \/ at'["view"][t] = None
    BY DEF Named
  <2>1. /\ t \in names <=> at["table"][t] # None \/ at["view"][t] # None
        /\ at["table"][t] = None \/ at["view"][t] = None
    BY DEF LockInv, Named
  <2>2. CASE t = s
    BY <1>2, <1>4, <1>5, <1>7, <1>8, <2>1, <2>2
  <2>3. CASE t = d
    BY <1>2, <1>4, <1>5, <1>7, <1>8, <2>3
  <2>4. CASE t # s /\ t # d
    BY <1>5, <1>8, <2>1, <2>4
  <2> QED
    BY <2>2, <2>3, <2>4
<1>12. ContentsHaveNamespace'
  <2>1. \A u \in Ident : Rows(u)' # {} => u = d \/ Rows(u) # {}
    BY <1>8 DEF Rows
  <2> QED
    BY <1>4, <1>5, <2>1 DEF LockInv, ContentsHaveNamespace
<1> QED
  BY <1>10, <1>11, <1>12 DEF LockInv

LEMMA LocksUpdateViewSwap ==
  ASSUME Inv, LockInv, NEW c \in Client, UpdateViewSwap(c)
  PROVE  LockInv'
<1> DEFINE t == req[c].tab
           f == req[c].file
<1>1. Objects /\ Clients /\ Step(c)
  BY DEF Inv, Step, Continue
<1>2. t \in Ident /\ f # None /\ req[c].expected # None
  BY <1>1, Carried, PointerAssumption DEF UpdateViewSwap, InPhase, CommitPhase, Clients, Request
<1>3. /\ ~Locked(c, <<"view", t>>) /\ Finish(c) /\ UNCHANGED <<namespaces, names, staged>>
      /\ \/ at["view"][t] # None /\ at' = [at EXCEPT !["view"][t] = f]
         \/ UNCHANGED at
  BY <1>2 DEF UpdateViewSwap, WitnessHolds
<1>4. held'[c] = {} /\ req'[c].phase = "idle" /\ req'[c].kind = "table"
  BY <1>1, <1>3, Finished
<1>5. CASE UNCHANGED at
  BY <1>1, <1>3, <1>4, <1>5, StepsMoveAlone, QuietReliance, QuietRelations DEF LockInv
<1>6. CASE at["view"][t] # None /\ at' = [at EXCEPT !["view"][t] = f]
  <2> HIDE DEF t, f
  <2>1. \A j \in Kind, u \in Ident : at'[j][u] = IF j = "view" /\ u = t THEN f ELSE at[j][u]
    BY <1>1, <1>2, <1>6 DEF Objects
  <2>2. ASSUME NEW d \in Client \ {c} PROVE Kept(held[d])
    <3>1. <<"view", t>> \notin held[d]
      BY <1>3 DEF Locked
    <3> QED
      BY <1>2, <1>3, <2>1, <3>1 DEF Kept
  <2>3. Exclusive' /\ Reliance'
    <3>1. Relies(req'[c], txn'[c], held'[c], namespaces', names', at')
      BY <1>4 DEF Relies
    <3> QED
      BY <1>1, <1>4, <2>2, <3>1, StepsMoveAlone, RelianceStep DEF LockInv
  <2>4. \A j \in Kind, u \in Ident : at'[j][u] # None <=> at[j][u] # None
    BY <1>2, <1>6, <2>1
  <2>5. Named'
    BY <1>3, <2>4 DEF LockInv, Named
  <2>6. ContentsHaveNamespace'
    BY <1>3, <2>4 DEF LockInv, ContentsHaveNamespace, Rows
  <2> QED
    BY <2>3, <2>5, <2>6 DEF LockInv
<1> QED
  BY <1>3, <1>5, <1>6

\* A request that ends, or a commit that is refused.
LEMMA LocksEnd ==
  ASSUME Clients, LockInv, NEW c \in Client,
         \/ PurgeDelete(c) \/ Abandon(c) \/ DeadlockVictim(c)
         \/ CommitRefused(c) \/ CommitNamespaceGone(c)
  PROVE  LockInv'
<1>1. Step(c) /\ Finish(c) /\ UNCHANGED relations
  BY DEF Step, Continue, PurgeDelete, Abandon, DeadlockVictim, CommitRefused, CommitNamespaceGone
<1> QED
  BY <1>1, FinishKeepsLocks

LEMMA LocksCommitPrepare ==
  ASSUME Clients, LockInv, NEW c \in Client, CommitPrepare(c)
  PROVE  LockInv'
<1> DEFINE next == IF Len(Append(txn[c].prepared, [tab |-> NextChange(c).tab,
                            expected |-> at["table"][NextChange(c).tab],
                            file |-> Append(Base(NextChange(c)), FreshId(c))]))
                      = Len(txn[c].changes) THEN "lock" ELSE "prepare"
<1>1. /\ Step(c) /\ UNCHANGED relations /\ UNCHANGED held /\ GoTo(c, next)
      /\ req[c].op = "commit" /\ req[c].phase = "prepare"
  BY DEF CommitPrepare, Step, Continue, InPhase
<1>2. txn[c].locked = {} /\ held[c] = {} /\ req[c] \in Request
  BY <1>1, CommitCarried DEF CommitPhase
<1>3. txn'[c].locked = {}
  <2>1. \E all : txn' = [txn EXCEPT ![c].prepared = all]
    BY DEF CommitPrepare
  <2> QED
    BY <1>2, <2>1, CommitCarried DEF Clients, Transaction
<1>4. next \in {"lock", "prepare"}
  OBVIOUS
<1> HIDE DEF next
<1>5. req'[c].phase = next /\ req'[c].op = "commit"
  BY <1>1, <1>2, <1>4 DEF GoTo, Clients, Request
<1>6. held'[c] = {}
  BY <1>1, <1>2
<1>7. Relies(req'[c], txn'[c], held'[c], namespaces', names', at')
  BY <1>3, <1>4, <1>5, <1>6 DEF Relies
<1>8. \A h : Kept(h)
  BY <1>1 DEF Kept, relations
<1>9. Exclusive' /\ Reliance'
  BY <1>1, <1>6, <1>7, <1>8, StepsMoveAlone, RelianceStep DEF LockInv
<1> QED
  BY <1>1, <1>9, QuietRelations DEF LockInv, relations

LEMMA LocksCommitDiscard ==
  ASSUME Clients, LockInv, NEW c \in Client, CommitDiscard(c)
  PROVE  LockInv'
<1>1. Step(c) /\ UNCHANGED relations /\ req[c].op = "commit"
  BY DEF CommitDiscard, Step, Continue, InPhase
<1>2. CASE GoTo(c, "prepare") /\ UNCHANGED held
  <2>1. req'[c].phase = "prepare" /\ req'[c].op = "commit" /\ held'[c] = held[c]
    BY <1>1, <1>2 DEF GoTo, Clients, Request
  <2> QED
    BY <1>1, <2>1, StepsMoveAlone, QuietReliance, QuietRelations DEF LockInv, relations
<1>3. CASE Finish(c)
  BY <1>1, <1>3, FinishKeepsLocks
<1> QED
  BY <1>2, <1>3 DEF CommitDiscard, Retry

LEMMA LocksCommitLock ==
  ASSUME Inv, LockInv, NEW c \in Client, CommitLock(c)
  PROVE  LockInv'
<1> DEFINE k == NextIndex(c)
           p == NextEntry(c)
           x == txn[c]
<1>1. /\ Objects /\ Clients /\ Step(c) /\ UNCHANGED relations
      /\ req[c].op = "commit" /\ req[c].phase = "lock"
  BY DEF Inv, Step, Continue, CommitLock, InPhase
<1>2. /\ x \in Transaction /\ x.prepared \in Seq(Prepared) /\ k \in Left(x)
      /\ req[c] \in Request
  BY <1>1, CommitCarried, NextIndexIsFirst DEF CommitPhase
<1>3. p = x.prepared[k] /\ p \in Prepared /\ k \in DOMAIN x.prepared
  BY <1>2 DEF NextEntry, Left
<1>4. Relies(req[c], x, held[c], namespaces, names, at)
  BY DEF LockInv, Reliance
<1>5. \A h : Kept(h)
  BY <1>1 DEF Kept, relations
<1>6. CASE ~Lands(p)
  <2>1. GoTo(c, "discard") /\ held' = [held EXCEPT ![c] = {}]
    BY <1>6 DEF CommitLock
  <2>2. req'[c].phase = "discard" /\ req'[c].op = "commit" /\ held'[c] = {}
    BY <1>1, <1>2, <2>1 DEF GoTo, Clients, Request
  <2> QED
    BY <1>1, <2>2, StepsMoveAlone, QuietReliance, QuietRelations DEF LockInv, relations
<1>7. CASE Lands(p)
  <2> DEFINE next == IF Unlocked(c) = {k} THEN "land" ELSE "lock"
             h == held[c] \cup {RowOf(p)} \cup StagingOf(p)
             y == [x EXCEPT !.locked = @ \cup {k}]
  <2>1. /\ ~Locked(c, RowOf(p)) /\ (p.expected = None => NsOf[p.tab] \in namespaces)
        /\ Lock(c, {RowOf(p)} \cup StagingOf(p)) /\ GoTo(c, next)
        /\ txn' = [txn EXCEPT ![c].locked = @ \cup {k}]
    BY <1>7 DEF CommitLock, ReferenceHolds
  <2>2. txn'[c] = y /\ held'[c] = h
    BY <1>1, <2>1 DEF Clients, Lock
  <2>3. y.locked = x.locked \cup {k} /\ y.prepared = x.prepared
    BY <1>2 DEF Transaction
  <2>4. next \in {"land", "lock"} /\ (next = "land" => Left(y) = {} /\ y.prepared # <<>>)
    BY <1>2, <1>3, <2>3 DEF Left, Unlocked
  <2> HIDE DEF next
  <2>5. req'[c].phase = next /\ req'[c].op = "commit"
    BY <1>1, <1>2, <2>1, <2>4 DEF GoTo, Clients, Request
  <2>6. EntryHolds(p, h, namespaces, names, at)
    BY <1>7, <2>1 DEF EntryHolds, Lands, NameTaken, RowOf
  <2>7. \A row \in h : row \in held[c] \/ ~Locked(c, row) \/ row[1] = "staged"
    BY <2>1 DEF StagingOf
  <2>8. h \subseteq Row
    BY <1>1, <1>3 DEF Clients, RowOf, StagingOf, Row, Prepared
  <2>9. \A t \in Ident : <<"staged", t>> \in h =>
          <<"staged", t>> \in held[c] \/ (p.tab = t /\ p.expected = None)
    <3>1. \A t \in Ident : RowOf(p) # <<"staged", t>>
      BY DEF RowOf
    <3>2. \A t \in Ident : <<"staged", t>> \in StagingOf(p) => p.tab = t /\ p.expected = None
      BY DEF StagingOf
    <3> QED
      BY <3>1, <3>2
  <2>10. held[c] \subseteq h
    OBVIOUS
  <2> HIDE DEF h, y, x, p, k
  <2>11. \A i \in y.locked : EntryHolds(y.prepared[i], h, namespaces, names, at)
    BY <1>1, <1>3, <1>4, <2>3, <2>6, <2>10 DEF Relies, EntryHolds
  <2>12. \A t \in Ident : <<"staged", t>> \in h =>
           \E i \in y.locked : y.prepared[i].tab = t /\ y.prepared[i].expected = None
    BY <1>1, <1>3, <1>4, <2>3, <2>9 DEF Relies
  <2>13. Relies(req'[c], y, h, namespaces, names, at)
    BY <2>4, <2>5, <2>11, <2>12 DEF Relies
  <2>14. Relies(req'[c], txn'[c], held'[c], namespaces', names', at')
    BY <1>1, <2>2, <2>13 DEF relations
  <2>15. Exclusive' /\ Reliance'
    BY <1>1, <1>5, <2>2, <2>7, <2>8, <2>14, StepsMoveAlone, RelianceStep DEF LockInv
  <2> QED
    BY <1>1, <2>15, QuietRelations DEF LockInv, relations
<1> QED
  BY <1>6, <1>7

\* The tables a commit lands on, and where.
LEMMA Landing ==
  ASSUME Inv, LockInv, NEW c \in Client, CommitLand(c)
  PROVE  /\ \A i \in DOMAIN txn[c].prepared :
              /\ txn[c].prepared[i] \in Prepared /\ txn[c].prepared[i].tab \in Ident
              /\ EntryHolds(txn[c].prepared[i], held[c], namespaces, names, at)
         /\ DOMAIN txn[c].prepared # {}
         /\ at' \in [Kind -> [Ident -> MetadataFile \cup {None}]]
         /\ at'["view"] = at["view"]
         /\ \A t \in Ident :
              \/ at'["table"][t] = at["table"][t]
                 /\ \A i \in DOMAIN txn[c].prepared : txn[c].prepared[i].tab # t
              \/ \E i \in DOMAIN txn[c].prepared :
                   txn[c].prepared[i].tab = t /\ at'["table"][t] = txn[c].prepared[i].file
<1> DEFINE all == txn[c].prepared
           new(t) == all[CHOOSE i \in SwapOf(c, t) : TRUE].file
<1>1. Objects /\ Clients /\ req[c].phase = "land"
  BY DEF Inv, CommitLand, InPhase
<1>2. all \in Seq(Prepared) /\ txn[c].locked \subseteq DOMAIN all
  BY <1>1, CommitCarried DEF CommitPhase, WellFormed
<1>3. Relies(req[c], txn[c], held[c], namespaces, names, at)
  BY DEF LockInv, Reliance
<1>4. Left(txn[c]) = {} /\ all # <<>>
  BY <1>1, <1>3 DEF Relies
<1>5. txn[c].locked = DOMAIN all /\ DOMAIN all # {}
  <2>1. DOMAIN all \subseteq txn[c].locked
    BY <1>4 DEF Left
  <2>2. 1 \in DOMAIN all
    <3> HIDE DEF all
    <3> QED
      BY <1>2, <1>4
  <2> QED
    BY <1>2, <2>1, <2>2
<1>6. \A i \in DOMAIN all : all[i] \in Prepared /\ all[i].tab \in Ident
  BY <1>2, EntryType
<1>7. at' = [at EXCEPT !["table"] =
               [t \in Ident |-> IF SwapOf(c, t) = {} THEN @[t] ELSE new(t)]]
  BY DEF CommitLand
<1>8. \A t \in Ident : SwapOf(c, t) # {} =>
        \E i \in DOMAIN all : all[i].tab = t /\ new(t) = all[i].file
  BY DEF SwapOf
<1> HIDE DEF new
<1>9. \A t \in Ident : at'["table"][t] = IF SwapOf(c, t) = {} THEN at["table"][t] ELSE new(t)
  BY <1>1, <1>7 DEF Objects
<1>10. \A t \in Ident : SwapOf(c, t) = {} <=> \A i \in DOMAIN all : all[i].tab # t
  BY DEF SwapOf
<1>11. at'["view"] = at["view"]
  BY <1>1, <1>7 DEF Objects
<1>12. at' \in [Kind -> [Ident -> MetadataFile \cup {None}]]
  <2>1. \A t \in Ident : SwapOf(c, t) # {} => new(t) \in MetadataFile
    BY <1>6, <1>8 DEF Prepared
  <2> QED
    BY <1>1, <1>7, <2>1 DEF Objects
<1>13. \A i \in DOMAIN all : EntryHolds(all[i], held[c], namespaces, names, at)
  BY <1>1, <1>3, <1>5 DEF Relies
<1> HIDE DEF all
<1>14. \A t \in Ident :
              \/ at'["table"][t] = at["table"][t] /\ \A i \in DOMAIN all : all[i].tab # t
              \/ \E i \in DOMAIN all : all[i].tab = t /\ at'["table"][t] = all[i].file
  BY <1>8, <1>9, <1>10
<1> QED
  BY <1>5, <1>6, <1>11, <1>12, <1>13, <1>14 DEF all

LEMMA LocksCommitLand ==
  ASSUME Inv, LockInv, NEW c \in Client, CommitLand(c)
  PROVE  LockInv'
<1> DEFINE all == txn[c].prepared
<1>1. Objects /\ Clients /\ Step(c)
  BY DEF Inv, Step, Continue
<1>2. \A i \in DOMAIN all : /\ all[i] \in Prepared /\ all[i].tab \in Ident /\ all[i].file # None
                            /\ EntryHolds(all[i], held[c], namespaces, names, at)
  BY Landing, PointerAssumption DEF Prepared
<1>3. at'["view"] = at["view"]
  BY Landing
<1>4. \A t \in Ident : \/ at'["table"][t] = at["table"][t] /\ \A i \in DOMAIN all : all[i].tab # t
                       \/ \E i \in DOMAIN all : all[i].tab = t /\ at'["table"][t] = all[i].file
  BY Landing
<1>5. /\ names' = names \cup {all[i].tab : i \in DOMAIN all} /\ UNCHANGED namespaces
      /\ \A t \in Ident : staged'[t] # None => staged[t] # None
      /\ Finish(c)
  BY <1>1 DEF CommitLand, Objects
<1>6. held'[c] = {} /\ req'[c].phase = "idle" /\ req'[c].kind = "table"
  BY <1>1, <1>5, Finished
<1> HIDE DEF all
\* a table it lands on was there already, or its name was free
<1>7. \A i \in DOMAIN all :
        LET p == all[i]
        IN /\ at'["table"][p.tab] # None /\ at["view"][p.tab] = None
           /\ NsOf[p.tab] \in namespaces
           /\ \/ p.expected = None /\ <<"name", p.tab>> \in held[c] /\ at["table"][p.tab] = None
              \/ p.tab \in names /\ <<"table", p.tab>> \in held[c]
  <2> SUFFICES ASSUME NEW i \in DOMAIN all
               PROVE  LET p == all[i]
                      IN /\ at'["table"][p.tab] # None /\ at["view"][p.tab] = None
                         /\ NsOf[p.tab] \in namespaces
                         /\ \/ /\ p.expected = None /\ <<"name", p.tab>> \in held[c]
                               /\ at["table"][p.tab] = None
                            \/ p.tab \in names /\ <<"table", p.tab>> \in held[c]
    OBVIOUS
  <2> DEFINE p == all[i]
  <2>1. p.tab \in Ident /\ EntryHolds(p, held[c], namespaces, names, at)
    BY <1>2
  <2>2. at'["table"][p.tab] # None
    BY <1>2, <1>4, <2>1
  <2>3. CASE p.expected = None
    BY <2>1, <2>2, <2>3 DEF EntryHolds, LockInv, Named
  <2>4. CASE p.expected # None
    <3>1. at["table"][p.tab] # None /\ <<"table", p.tab>> \in held[c]
      BY <2>1, <2>4 DEF EntryHolds
    <3>2. p.tab \in names /\ at["view"][p.tab] = None
      BY <2>1, <3>1 DEF LockInv, Named
    <3>3. NsOf[p.tab] \in namespaces
      BY <2>1, <3>1 DEF LockInv, ContentsHaveNamespace, Rows
    <3> QED
      BY <2>2, <3>1, <3>2, <3>3
  <2> QED
    BY <2>3, <2>4
<1>8. ASSUME NEW d \in Client \ {c} PROVE Kept(held[d])
  <2>1. \A t \in Ident : <<"name", t>> \in held[c] => <<"name", t>> \notin held[d]
    <3> TAKE t \in Ident
    <3>1. <<"name", t>> \in Row /\ <<"name", t>>[1] = "name"
      BY DEF Row
    <3> QED
      BY <3>1 DEF LockInv, Exclusive
  <2>2. \A t \in Ident : <<"table", t>> \in held[c] => <<"table", t>> \notin held[d]
    <3> TAKE t \in Ident
    <3>1. <<"table", t>> \in Row /\ <<"table", t>>[1] = "table"
      BY DEF Row
    <3> QED
      BY <3>1 DEF LockInv, Exclusive
  <2>3. ASSUME NEW t \in Ident, <<"name", t>> \in held[d]
        PROVE  /\ t \in names' => t \in names
               /\ \A j \in Kind : at[j][t] # None => at'[j][t] # None
    <3>1. \A i \in DOMAIN all : all[i].tab = t => t \in names
      BY <1>7, <2>1, <2>3
    <3>2. t \in names' => t \in names
      BY <1>5, <3>1
    <3>3. at["table"][t] # None => at'["table"][t] # None
      BY <1>2, <1>4
    <3> QED
      BY <1>3, <3>2, <3>3
  <2>4. ASSUME NEW j \in Kind, NEW t \in Ident, <<j, t>> \in held[d], at[j][t] # None
        PROVE  at'[j][t] = at[j][t]
    <3>1. CASE j = "view"
      BY <1>3, <3>1
    <3>2. CASE j = "table"
      <4>1. \A i \in DOMAIN all : all[i].tab # t
        BY <1>7, <2>2, <2>4, <3>2
      <4> QED
        BY <1>4, <3>2, <4>1
    <3> QED
      BY <3>1, <3>2
  <2> QED
    BY <1>5, <2>3, <2>4 DEF Kept
<1>9. Exclusive' /\ Reliance'
  <2>1. Relies(req'[c], txn'[c], held'[c], namespaces', names', at')
    BY <1>6 DEF Relies
  <2> QED
    BY <1>1, <1>6, <1>8, <2>1, StepsMoveAlone, RelianceStep DEF LockInv
<1>10. Named'
  <2> SUFFICES ASSUME NEW t \in Ident
               PROVE  /\ t \in names' <=> at'["table"][t] # None \/ at'["view"][t] # None
                      /\ at'["table"][t] = None \/ at'["view"][t] = None
    BY DEF Named
  <2>1. /\ t \in names <=> at["table"][t] # None \/ at["view"][t] # None
        /\ at["table"][t] = None \/ at["view"][t] = None
    BY DEF LockInv, Named
  <2>2. CASE \E i \in DOMAIN all : all[i].tab = t
    BY <1>3, <1>5, <1>7, <2>2
  <2>3. CASE \A i \in DOMAIN all : all[i].tab # t
    BY <1>3, <1>4, <1>5, <2>1, <2>3
  <2> QED
    BY <2>2, <2>3
<1>11. ContentsHaveNamespace'
  <2>1. ASSUME NEW t \in Ident, Rows(t)' # {} PROVE NsOf[t] \in namespaces
    <3>1. CASE \E i \in DOMAIN all : all[i].tab = t
      BY <1>7, <3>1
    <3>2. CASE \A i \in DOMAIN all : all[i].tab # t
      <4>1. Rows(t) # {}
        BY <1>3, <1>4, <2>1, <3>2 DEF Rows
      <4> QED
        BY <4>1 DEF LockInv, ContentsHaveNamespace
    <3> QED
      BY <3>1, <3>2
  <2> QED
    BY <1>5, <2>1 DEF LockInv, ContentsHaveNamespace
<1> QED
  BY <1>9, <1>10, <1>11 DEF LockInv

LEMMA NextLockInv == Inv /\ LockInv /\ [Next]_vars => LockInv'
<1> SUFFICES ASSUME Inv, LockInv, [Next]_vars PROVE LockInv'
  OBVIOUS
<1>1. Clients
  BY DEF Inv
<1>2. CASE \E n \in Namespace : CreateNamespace(n) \/ DropNamespace(n)
  BY <1>1, <1>2, LocksNamespaces
<1>3. ASSUME NEW c \in Client, Arrive(c) PROVE LockInv'
  BY <1>1, <1>3, LocksQuietArrivals, LocksDropName, LocksRenameClaim DEF Arrive
<1>4. ASSUME NEW c \in Client, Continue(c) PROVE LockInv'
  BY <1>1, <1>4, LocksInsert, LocksStageUpsert, LocksPurgeName, LocksCascade, LocksEnd,
     LocksRenameRow, LocksRenameRelease, LocksUpdateViewSwap, LocksCommitPrepare,
     LocksCommitLock, LocksCommitLand, LocksCommitDiscard DEF Continue
<1>5. ASSUME NEW c \in Client, Abandon(c) \/ DeadlockVictim(c) PROVE LockInv'
  BY <1>1, <1>5, LocksEnd
<1>6. CASE UNCHANGED vars
  BY <1>6 DEF vars, relations, LockInv, Named, ContentsHaveNamespace, Rows, Exclusive, Reliance
<1> QED
  BY <1>2, <1>3, <1>4, <1>5, <1>6 DEF Next

LEMMA InitLockInv == Init => LockInv
<1> SUFFICES ASSUME Init PROVE LockInv
  OBVIOUS
<1>1. \A t \in Ident : SeedFile(t) # None
  BY PointerAssumption DEF SeedFile, MetadataFile, WriteId
<1>2. \A t \in Ident : /\ at["table"][t] # None <=> t \in InitTables
                       /\ at["view"][t] # None <=> t \in InitViews
  BY <1>1 DEF Init
<1>3. Named
  BY <1>2, NamesAssumption DEF Init, Named
<1>4. ContentsHaveNamespace
  BY <1>2, NamesAssumption DEF Init, ContentsHaveNamespace, Rows
<1>5. Exclusive
  BY DEF Init, Exclusive
<1>6. Reliance
  <2>1. Idle.phase = "idle" /\ Idle.kind = "table"
    BY DEF Idle
  <2> QED
    BY <2>1 DEF Init, Reliance, Relies
<1> QED
  BY <1>3, <1>4, <1>5, <1>6 DEF LockInv

LEMMA LocksHold == Spec => [](Inv /\ LockInv)
<1>1. Init => Inv /\ LockInv
  BY InitInv, InitLockInv
<1>2. Inv /\ LockInv /\ [Next]_vars => (Inv /\ LockInv)'
  BY NextInv, NextLockInv
<1> QED
  BY <1>1, <1>2, PTL DEF Spec

LEMMA NamedMatches == Named => NamesMatchRows
<1> SUFFICES ASSUME Named, NEW t \in Ident
             PROVE  Cardinality(Rows(t)) = IF t \in names THEN 1 ELSE 0
  BY DEF NamesMatchRows
<1>1. CASE t \in names
  <2>1. PICK k \in Kind : Rows(t) = {k}
    BY <1>1 DEF Named, Rows
  <2> QED
    BY <1>1, <2>1, FS_Singleton
<1>2. CASE t \notin names
  <2>1. Rows(t) = {}
    BY <1>2 DEF Named, Rows
  <2> QED
    BY <1>2, <2>1, FS_EmptySet
<1> QED
  BY <1>1, <1>2

\* Every name in use is that of one table or one view and no other name is taken,
\* however creations, drops, renames and commits race (the statements that keep
\* rustberg_object_names in step with the two relations, src/catalog/postgres.rs:177-190
\* and 500-505).
THEOREM NamesMatchRowsHolds == Spec => []NamesMatchRows
<1>1. LockInv => NamesMatchRows
  BY NamedMatches DEF LockInv
<1> QED
  BY <1>1, LocksHold, PTL

\* Whatever a table, view or staging is in exists, and so does the parent of every
\* namespace, whoever drops a namespace meanwhile (the foreign keys and the locks
\* they take, src/catalog/postgres.rs:147 and 838-841).
THEOREM ContentsHaveNamespaceHolds == Spec => []ContentsHaveNamespace
<1>1. LockInv => ContentsHaveNamespace
  BY DEF LockInv
<1> QED
  BY <1>1, LocksHold, PTL

-----------------------------------------------------------------------------
(* The refinement: where the pointers that requests carry come from          *)

WrittenOnto(f, old) == Len(f) = Len(old) + 1 /\ SubSeq(f, 1, Len(old)) = old

\* The files a request has written and no row points at yet.
Pending(r, x) ==
  IF \/ r.op \in {"create", "stage"} /\ r.phase = "insert"
     \/ r.op = "update_view" /\ r.phase = "swap"
  THEN {r.file}
  ELSE IF r.phase \in CommitPhase THEN {x.prepared[i].file : i \in DOMAIN x.prepared} ELSE {}

\* c wrote the file, among the first w it wrote, and no row has pointed at it.
Unseen(c, f, w, pub) ==
  /\ f # <<>> /\ \E n \in 1..w : f[Len(f)] = <<c, n>>
  /\ \A k \in pub : k[2] # f

\* An entry of a commit is one write on top of what it replaces, or of a staging.
EntryMade(p, pub) ==
  IF p.expected = None
  THEN \E k \in pub : k[1] = "staged" /\ WrittenOnto(p.file, k[2])
  ELSE WrittenOnto(p.file, p.expected)

Made(c, r, x, w, pub) ==
  /\ \A f \in Pending(r, x) : Unseen(c, f, w, pub)
  /\ r.op = "register" /\ r.phase = "insert" => <<r.kind, r.file>> \in pub
  /\ r.op = "update_view" /\ r.phase = "swap" => WrittenOnto(r.file, r.expected)
  /\ r.phase \in CommitPhase => \A i \in DOMAIN x.prepared : EntryMade(x.prepared[i], pub)

\* No row points at a file that is yet to be written.
NotAhead ==
  \A k \in published, c \in Client :
    \A n \in Nat : k[2][Len(k[2])] = <<c, n>> /\ k[2] # <<>> => n <= wrote[c]

StagingsKnown == \A t \in Ident : staged[t] # None => <<"staged", staged[t]>> \in published

MadeInv ==
  /\ NotAhead
  /\ StagingsKnown
  /\ \A c \in Client : Made(c, req[c], txn[c], wrote[c], published)

\* A file just written, on top of another or as a first one.
LEMMA AppendMakes ==
  ASSUME NEW old \in MetadataFile, NEW w \in WriteId
  PROVE  /\ Append(old, w) # <<>> /\ WrittenOnto(Append(old, w), old)
         /\ Append(old, w)[Len(Append(old, w))] = w
<1> DEFINE f == Append(old, w)
<1>1. /\ f \in Seq(WriteId) /\ Len(f) = Len(old) + 1 /\ f[Len(old) + 1] = w
      /\ \A i \in 1..Len(old) : f[i] = old[i]
  BY DEF MetadataFile
<1>2. Len(old) \in Nat /\ old \in Seq(WriteId)
  BY DEF MetadataFile
<1> HIDE DEF f
<1>3. SubSeq(f, 1, Len(old)) = old
  <2>1. /\ SubSeq(f, 1, Len(old)) \in Seq(WriteId)
        /\ Len(SubSeq(f, 1, Len(old))) = Len(old)
        /\ \A i \in 1..Len(old) : SubSeq(f, 1, Len(old))[i] = old[i]
    <3>1. \A i \in 1..Len(old) : i \in 1..Len(f)
      BY <1>1, <1>2
    <3> QED
      BY <1>1, <1>2, <3>1
  <2> QED
    BY <1>2, <2>1, SeqEqual
<1>4. f # <<>> /\ WrittenOnto(f, old) /\ f[Len(f)] = w
  BY <1>1, <1>2, <1>3 DEF WrittenOnto
<1> QED
  BY <1>4 DEF f

LEMMA FreshUnseen ==
  ASSUME Objects, NotAhead, NEW c \in Client, NEW f, f # <<>>, f[Len(f)] = FreshId(c)
  PROVE  Unseen(c, f, wrote[c] + 1, published)
<1>1. wrote[c] \in Nat /\ wrote[c] + 1 \in 1..(wrote[c] + 1) /\ ~(wrote[c] + 1 <= wrote[c])
  BY DEF Objects
<1>2. \A k \in published : k[2] # f
  BY <1>1 DEF NotAhead, FreshId
<1> QED
  BY <1>1, <1>2 DEF Unseen, FreshId

\* What is known of a request stays known while others write and publish.
LEMMA MadeStays ==
  ASSUME NEW d \in Client, NEW r, NEW x, NEW w \in Nat, NEW v \in Nat, w <= v,
         NEW pub, NEW more, pub \subseteq more, Made(d, r, x, w, pub),
         \A k \in more : k \in pub \/ k[2] \notin Pending(r, x)
  PROVE  Made(d, r, x, v, more)
<1>1. \A f \in Pending(r, x) : Unseen(d, f, v, more)
  <2> TAKE f \in Pending(r, x)
  <2>1. Unseen(d, f, w, pub)
    BY DEF Made
  <2>2. 1..w \subseteq 1..v
    OBVIOUS
  <2> QED
    BY <2>1, <2>2 DEF Unseen
<1>2. \A p : EntryMade(p, pub) => EntryMade(p, more)
  BY DEF EntryMade
<1> QED
  BY <1>1, <1>2 DEF Made

\* A step of c that publishes, of what is new, only what c wrote.
LEMMA MadeStep ==
  ASSUME Objects, MadeInv, NEW c \in Client, MovesAlone(c),
         wrote' \in [Client -> Nat], \A d \in Client : wrote[d] <= wrote'[d],
         published \subseteq published',
         \A k \in published' : k \in published \/ Unseen(c, k[2], wrote'[c], published),
         Made(c, req'[c], txn'[c], wrote'[c], published'),
         \A t \in Ident : staged'[t] \in {None, staged[t]} \/ <<"staged", staged'[t]>> \in published'
  PROVE  MadeInv'
<1>1. wrote \in [Client -> Nat]
  BY DEF Objects
<1>2. ASSUME NEW d \in Client PROVE Made(d, req'[d], txn'[d], wrote'[d], published')
  <2>1. CASE d # c
    <3>1. Made(d, req[d], txn[d], wrote[d], published)
      BY DEF MadeInv
    <3>2. ASSUME NEW k \in published', k \notin published
          PROVE  k[2] \notin Pending(req[d], txn[d])
      <4>1. Unseen(c, k[2], wrote'[c], published)
        BY <3>2
      <4> SUFFICES ASSUME k[2] \in Pending(req[d], txn[d]) PROVE FALSE
        OBVIOUS
      <4>2. Unseen(d, k[2], wrote[d], published)
        BY <3>1 DEF Made
      <4>3. \E m, n : <<c, m>> = <<d, n>>
        BY <4>1, <4>2 DEF Unseen
      <4> QED
        BY <2>1, <4>3
    <3>3. wrote[d] \in Nat /\ wrote'[d] \in Nat /\ wrote[d] <= wrote'[d]
      BY <1>1
    <3>4. Made(d, req[d], txn[d], wrote'[d], published')
      BY <3>1, <3>2, <3>3, MadeStays
    <3> QED
      BY <2>1, <3>4 DEF MovesAlone
  <2> QED
    BY <2>1
<1>3. NotAhead'
  <2> SUFFICES ASSUME NEW k \in published', NEW d \in Client, NEW n \in Nat,
                      k[2][Len(k[2])] = <<d, n>>, k[2] # <<>>
               PROVE  n <= wrote'[d]
    BY DEF NotAhead
  <2>1. CASE k \in published
    <3>1. n <= wrote[d]
      BY <2>1 DEF MadeInv, NotAhead
    <3> QED
      BY <1>1, <3>1
  <2>2. CASE k \notin published
    <3>1. PICK m \in 1..wrote'[c] : k[2][Len(k[2])] = <<c, m>>
      BY <2>2 DEF Unseen
    <3>2. d = c /\ n = m
      BY <3>1
    <3> QED
      BY <3>1, <3>2
  <2> QED
    BY <2>1, <2>2
<1>4. StagingsKnown'
  BY DEF StagingsKnown, MadeInv
<1> QED
  BY <1>2, <1>3, <1>4 DEF MadeInv

\* Of a step that publishes nothing and changes no staging.
LEMMA QuietMade ==
  ASSUME Objects, MadeInv, NEW c \in Client, MovesAlone(c),
         UNCHANGED <<published, staged, wrote>>, Made(c, req'[c], txn'[c], wrote[c], published)
  PROVE  MadeInv'
<1>1. wrote \in [Client -> Nat]
  BY DEF Objects
<1> QED
  BY <1>1, MadeStep

LEMMA NothingPending ==
  ASSUME NEW c, NEW r, NEW x, NEW w, NEW pub, r.phase \notin {"insert", "swap"} \cup CommitPhase
  PROVE  Made(c, r, x, w, pub)
  BY DEF Made, Pending

\* Every step keeps what is known of the pointers.
LEMMA MadeFinish ==
  ASSUME Objects, Clients, MadeInv, NEW c \in Client, MovesAlone(c), Finish(c),
         UNCHANGED <<staged, wrote>>, published \subseteq published',
         \A k \in published' : k \in published \/ k[2] \in Pending(req[c], txn[c])
  PROVE  MadeInv'
<1>1. Made(c, req'[c], txn'[c], wrote'[c], published')
  BY Finished, NothingPending DEF CommitPhase
<1>2. wrote \in [Client -> Nat]
  BY DEF Objects
<1>3. \A k \in published' : k \in published \/ Unseen(c, k[2], wrote'[c], published)
  BY DEF MadeInv, Made
<1> QED
  BY <1>1, <1>2, <1>3, MadeStep

\* A request that arrives without a file, or goes on to a phase that holds none.
LEMMA MadeElsewhere ==
  ASSUME Objects, MadeInv, NEW c \in Client, MovesAlone(c),
         UNCHANGED <<published, staged, wrote>>,
         req'[c].phase \notin {"insert", "swap"} \cup CommitPhase
  PROVE  MadeInv'
  BY NothingPending, QuietMade

LEMMA MadeArrivals ==
  ASSUME Objects, Clients, MadeInv, NEW c \in Client, Step(c),
         \/ \E k \in Kind, t \in Ident : DropName(c, k, t)
         \/ \E t \in Ident : PurgeLoad(c, t)
         \/ \E k \in Kind, s, d \in Ident : RenameClaim(c, k, s, d)
  PROVE  MadeInv'
<1>1. MovesAlone(c)
  BY StepsMoveAlone
<1>2. ASSUME NEW r, Begin(c, r), UNCHANGED <<published, relations, wrote>>,
             r.phase \in {"cascade", "drop", "row"}
      PROVE  MadeInv'
  <2>1. req'[c].phase \notin {"insert", "swap"} \cup CommitPhase
    BY <1>2 DEF Begin, Clients, CommitPhase
  <2> QED
    BY <1>1, <1>2, <2>1, MadeElsewhere DEF relations
<1>3. ASSUME NEW k \in Kind, NEW t \in Ident, DropName(c, k, t) PROVE MadeInv'
  <2>1. On("drop", k, "cascade", t).phase = "cascade"
    BY DEF On, Idle
  <2> QED
    BY <1>2, <1>3, <2>1 DEF DropName
<1>4. ASSUME NEW t \in Ident, PurgeLoad(c, t) PROVE MadeInv'
  <2>1. [On("purge", "table", "drop", t) EXCEPT !.file = at["table"][t]].phase = "drop"
    BY DEF On, Idle
  <2> QED
    BY <1>2, <1>4, <2>1 DEF PurgeLoad
<1>5. ASSUME NEW k \in Kind, NEW s \in Ident, NEW d \in Ident, RenameClaim(c, k, s, d)
      PROVE  MadeInv'
  <2>1. [On("rename", k, "row", s) EXCEPT !.dest = d].phase = "row"
    BY DEF On, Idle
  <2> QED
    BY <1>2, <1>5, <2>1 DEF RenameClaim
<1> QED
  BY <1>3, <1>4, <1>5

\* A request that arrives with a file of its own.
LEMMA MadeWithFile ==
  ASSUME Objects, Clients, MadeInv, NEW c \in Client, MovesAlone(c), NEW r, Begin(c, r),
         WriteFile(c, r.file), UNCHANGED <<published, staged>>,
         r.file # <<>>, r.file[Len(r.file)] = FreshId(c),
         r.phase \notin CommitPhase, r.op # "register",
         r.op = "update_view" => WrittenOnto(r.file, r.expected)
  PROVE  MadeInv'
<1>1. req'[c] = r
  BY DEF Begin, Clients
<1>2. wrote' \in [Client -> Nat] /\ wrote'[c] = wrote[c] + 1 /\ \A d \in Client : wrote[d] <= wrote'[d]
  BY DEF WriteFile, Objects
<1>3. Unseen(c, r.file, wrote[c] + 1, published)
  BY FreshUnseen DEF MadeInv
<1>4. Made(c, r, txn'[c], wrote[c] + 1, published)
  BY <1>3 DEF Made, Pending
<1> QED
  BY <1>1, <1>2, <1>4, MadeStep

LEMMA MadeCreateWrite ==
  ASSUME Objects, Clients, MadeInv, NEW c \in Client, NEW op \in {"create", "stage"},
         NEW k \in Kind, NEW t \in Ident, CreateWrite(c, op, k, t)
  PROVE  MadeInv'
<1> DEFINE f == << FreshId(c) >>
           r == [On(op, k, "insert", t) EXCEPT !.file = f]
<1>1. Step(c) /\ Begin(c, r) /\ WriteFile(c, f) /\ UNCHANGED <<relations, published, txn, held>>
  BY DEF Step, Arrive, CreateWrite
<1>2. f # <<>> /\ f[Len(f)] = FreshId(c)
  OBVIOUS
<1> HIDE DEF f
<1>3. r.file = f /\ r.phase = "insert" /\ r.op = op
  BY DEF On, Idle
<1> HIDE DEF r
<1>4. r.phase \notin CommitPhase /\ r.op \notin {"register", "update_view"}
  BY <1>3 DEF CommitPhase
<1> QED
  BY <1>1, <1>2, <1>3, <1>4, StepsMoveAlone, MadeWithFile DEF relations

LEMMA MadeUpdateViewWrite ==
  ASSUME Objects, Clients, MadeInv, NEW c \in Client, NEW v \in Ident, UpdateViewWrite(c, v)
  PROVE  MadeInv'
<1> DEFINE old == at["view"][v]
           f == Append(old, FreshId(c))
           q == On("update_view", "view", "swap", v)
           r == [q EXCEPT !.file = f, !.expected = old]
<1>1. Begin(c, r) /\ WriteFile(c, f) /\ UNCHANGED <<relations, published, txn, held>>
  BY DEF UpdateViewWrite
<1>2. Step(c)
  BY DEF Step, Arrive
<1>3. old \in MetadataFile /\ FreshId(c) \in WriteId
  BY FreshIdType DEF UpdateViewWrite, Objects
<1> HIDE DEF old
<1>4. f # <<>> /\ f[Len(f)] = FreshId(c) /\ WrittenOnto(f, old)
  BY <1>3, AppendMakes
<1> HIDE DEF f
<1>5. r.file = f /\ r.expected = old /\ r.phase = "swap" /\ r.op = "update_view"
  BY DEF On, Idle
<1> HIDE DEF r
<1>6. r.phase \notin CommitPhase /\ r.op # "register"
  BY <1>5 DEF CommitPhase
<1> QED
  BY <1>1, <1>2, <1>4, <1>5, <1>6, StepsMoveAlone, MadeWithFile DEF relations

LEMMA MadeRegisterRead ==
  ASSUME Objects, Clients, MadeInv, NEW c \in Client, NEW p \in published, NEW t \in Ident,
         p[1] \in Kind, RegisterRead(c, p[1], t, p[2])
  PROVE  MadeInv'
<1> DEFINE r == [On("register", p[1], "insert", t) EXCEPT !.file = p[2]]
<1>1. Begin(c, r) /\ UNCHANGED <<relations, files, published, txn, held, wrote>> /\ Step(c)
  BY DEF Step, Arrive, RegisterRead
<1>2. <<p[1], p[2]>> \in published
  BY DEF RegisterRead
<1>3. r.file = p[2] /\ r.kind = p[1] /\ r.phase = "insert" /\ r.op = "register"
  BY DEF On, Idle
<1> HIDE DEF r
<1>4. Made(c, r, txn'[c], wrote[c], published)
  BY <1>2, <1>3 DEF Made, Pending, CommitPhase
<1>5. req'[c] = r
  BY <1>1 DEF Begin, Clients
<1> QED
  BY <1>1, <1>4, <1>5, StepsMoveAlone, QuietMade DEF relations

LEMMA MadeCommitStart ==
  ASSUME Objects, Clients, MadeInv, NEW c \in Client, CommitStart(c)
  PROVE  MadeInv'
<1> DEFINE r == [Idle EXCEPT !.op = "commit", !.phase = "prepare"]
<1>1. Begin(c, r) /\ UNCHANGED <<relations, files, published, held, wrote>> /\ Step(c)
  BY DEF Step, Arrive, CommitStart
<1>2. r.phase = "prepare" /\ r.op = "commit"
  BY DEF Idle
<1> HIDE DEF r
<1>3. req'[c] = r
  BY <1>1 DEF Begin, Clients
<1>4. txn'[c].prepared = <<>>
  <2>1. \E changes : txn' = [txn EXCEPT ![c] = Attempt(changes, 1)]
    BY DEF CommitStart
  <2> QED
    BY <2>1 DEF Attempt, Clients
<1>5. Made(c, r, txn'[c], wrote[c], published)
  BY <1>2, <1>4 DEF Made, Pending, CommitPhase
<1> QED
  BY <1>1, <1>3, <1>5, StepsMoveAlone, QuietMade DEF relations

LEMMA MadeInsert ==
  ASSUME Objects, Clients, MadeInv, NEW c \in Client, Insert(c)
  PROVE  MadeInv'
<1>1. /\ Step(c) /\ Finish(c) /\ UNCHANGED <<staged, wrote>>
      /\ req[c].op \in {"create", "register"} /\ req[c].phase = "insert"
      /\ published' \in {published, published \cup {<<req[c].kind, req[c].file>>}}
  BY DEF Insert, Step, Continue
<1>2. Made(c, req[c], txn[c], wrote[c], published)
  BY DEF MadeInv
<1>3. req[c].op = "register" => <<req[c].kind, req[c].file>> \in published
  BY <1>1, <1>2 DEF Made
<1>4. req[c].op = "create" => req[c].file \in Pending(req[c], txn[c])
  BY <1>1 DEF Pending
<1>5. \A k \in published' : k \in published \/ k[2] \in Pending(req[c], txn[c])
  BY <1>1, <1>3, <1>4
<1> QED
  BY <1>1, <1>5, StepsMoveAlone, MadeFinish

LEMMA MadeStageUpsert ==
  ASSUME Objects, Clients, MadeInv, NEW c \in Client, StageUpsert(c)
  PROVE  MadeInv'
<1> DEFINE t == req[c].tab
           f == req[c].file
<1>1. /\ Step(c) /\ Finish(c) /\ UNCHANGED wrote
      /\ req[c].op = "stage" /\ req[c].phase = "insert"
      /\ \/ staged' = [staged EXCEPT ![t] = f] /\ published' = published \cup {<<"staged", f>>}
         \/ UNCHANGED <<staged, published>>
  BY DEF StageUpsert, Step, Continue, InPhase
<1>2. Unseen(c, f, wrote[c], published)
  BY <1>1 DEF MadeInv, Made, Pending
<1>3. Made(c, req'[c], txn'[c], wrote'[c], published')
  BY <1>1, Finished, NothingPending DEF CommitPhase
<1>4. wrote \in [Client -> Nat] /\ staged \in [Ident -> MetadataFile \cup {None}]
  BY DEF Objects
<1>5. \A k \in published' : k \in published \/ Unseen(c, k[2], wrote'[c], published)
  BY <1>1, <1>2
<1>6. \A u \in Ident : staged'[u] \in {None, staged[u]} \/ <<"staged", staged'[u]>> \in published'
  BY <1>1, <1>4
<1> QED
  BY <1>1, <1>3, <1>4, <1>5, <1>6, StepsMoveAlone, MadeStep

LEMMA MadeUpdateViewSwap ==
  ASSUME Objects, Clients, MadeInv, NEW c \in Client, UpdateViewSwap(c)
  PROVE  MadeInv'
<1>1. /\ Step(c) /\ Finish(c) /\ UNCHANGED <<staged, wrote>>
      /\ req[c].op = "update_view" /\ req[c].phase = "swap"
      /\ published' \in {published, published \cup {<<"view", req[c].file>>}}
  BY DEF UpdateViewSwap, Step, Continue, InPhase
<1>2. \A k \in published' : k \in published \/ k[2] \in Pending(req[c], txn[c])
  BY <1>1 DEF Pending
<1> QED
  BY <1>1, <1>2, StepsMoveAlone, MadeFinish

LEMMA MadeCommitLand ==
  ASSUME Objects, Clients, MadeInv, NEW c \in Client, CommitLand(c)
  PROVE  MadeInv'
<1> DEFINE all == txn[c].prepared
<1>1. /\ Step(c) /\ Finish(c) /\ UNCHANGED wrote
      /\ req[c].op = "commit" /\ req[c].phase = "land"
      /\ published' = published \cup {<<"table", all[i].file>> : i \in DOMAIN all}
      /\ staged' = [t \in Ident |-> IF <<"staged", t>> \in held[c] THEN None ELSE staged[t]]
  BY DEF CommitLand, Step, Continue, InPhase
<1>2. \A k \in published' : k \in published \/ k[2] \in Pending(req[c], txn[c])
  BY <1>1 DEF Pending, CommitPhase
<1>3. Made(c, req'[c], txn'[c], wrote'[c], published')
  BY <1>1, Finished, NothingPending DEF CommitPhase
<1>4. \A k \in published' : k \in published \/ Unseen(c, k[2], wrote'[c], published)
  BY <1>1, <1>2 DEF MadeInv, Made
<1>5. /\ wrote' \in [Client -> Nat] /\ published \subseteq published'
      /\ \A d \in Client : wrote[d] <= wrote'[d]
  BY <1>1 DEF Objects
<1>6. \A t \in Ident : staged'[t] \in {None, staged[t]} \/ <<"staged", staged'[t]>> \in published'
  BY <1>1
<1> HIDE DEF all
<1> QED
  BY <1>1, <1>3, <1>4, <1>5, <1>6, StepsMoveAlone, MadeStep

LEMMA MadeCommitPrepare ==
  ASSUME Objects, Clients, MadeInv, NEW c \in Client, CommitPrepare(c)
  PROVE  MadeInv'
<1> DEFINE old == txn[c].prepared
           ch == NextChange(c)
           f == Append(Base(ch), FreshId(c))
           p == [tab |-> ch.tab, expected |-> at["table"][ch.tab], file |-> f]
           all == Append(old, p)
           next == IF Len(all) = Len(txn[c].changes) THEN "lock" ELSE "prepare"
<1>1. /\ Step(c) /\ req[c].op = "commit" /\ req[c].phase = "prepare" /\ ~NotFound(ch)
      /\ WriteFile(c, f) /\ txn' = [txn EXCEPT ![c].prepared = all] /\ GoTo(c, next)
      /\ UNCHANGED <<relations, published, held, begun>>
  BY DEF CommitPrepare, Step, Continue, InPhase
<1>2. /\ req[c] \in Request /\ txn[c] \in Transaction /\ old \in Seq(Prepared)
      /\ txn[c].changes \in Seq(Change) /\ Len(old) < Len(txn[c].changes)
  BY <1>1, CommitCarried DEF CommitPhase
<1>3. ch.tab \in Ident
  <2>1. ch \in Change
    BY <1>2 DEF NextChange
  <2> QED
    BY <2>1 DEF Change
<1>4. /\ Base(ch) \in MetadataFile /\ FreshId(c) \in WriteId
      /\ IF at["table"][ch.tab] # None THEN Base(ch) = at["table"][ch.tab]
         ELSE <<"staged", Base(ch)>> \in published
  <2>1. Base(ch) \in files
    BY <1>1 DEF NotFound
  <2>2. at["table"][ch.tab] = None => staged[ch.tab] # None
    BY <1>1 DEF NotFound
  <2> QED
    BY <1>3, <2>1, <2>2, FreshIdType DEF Base, Objects, MadeInv, StagingsKnown
<1>5. f # <<>> /\ f[Len(f)] = FreshId(c) /\ WrittenOnto(f, Base(ch))
  BY <1>4, AppendMakes
<1>6. next \in {"lock", "prepare"}
  OBVIOUS
<1> HIDE DEF f, next
<1>7. EntryMade(p, published)
  <2>1. p.file = f /\ p.expected = at["table"][ch.tab]
    OBVIOUS
  <2> HIDE DEF p
  <2>2. CASE at["table"][ch.tab] # None
    BY <1>4, <1>5, <2>1, <2>2 DEF EntryMade
  <2>3. CASE at["table"][ch.tab] = None
    <3> DEFINE k == <<"staged", Base(ch)>>
    <3>1. k \in published /\ k[1] = "staged" /\ k[2] = Base(ch)
      BY <1>4, <2>3
    <3> HIDE DEF k
    <3> QED
      BY <1>5, <2>1, <2>3, <3>1 DEF EntryMade
  <2> QED
    BY <2>2, <2>3
<1>8. p.file = f /\ p \in Prepared
  <2>1. f \in MetadataFile
    BY <1>4, AppendType DEF f
  <2> QED
    BY <1>3, <2>1 DEF Prepared, Objects
<1> HIDE DEF p, old
<1>9. \A i \in DOMAIN all : all[i] = p \/ (i \in DOMAIN old /\ all[i] = old[i])
  BY <1>2, <1>8
<1>10. txn'[c].prepared = all
  BY <1>1, <1>2 DEF Clients, Transaction, old
<1> HIDE DEF all
<1>11. req'[c].op = "commit" /\ req'[c].phase = next
  BY <1>1, <1>2 DEF GoTo, Clients, Request
<1>12. wrote' = [wrote EXCEPT ![c] = @ + 1] /\ wrote \in [Client -> Nat]
  BY <1>1 DEF WriteFile, Objects
<1>13. Unseen(c, f, wrote[c] + 1, published)
  BY <1>5, FreshUnseen DEF MadeInv
<1>14. Made(c, req[c], txn[c], wrote[c], published) /\ wrote[c] \in Nat
  BY <1>12 DEF MadeInv
<1>15. Made(c, req[c], txn[c], wrote[c] + 1, published)
  <2>1. wrote[c] + 1 \in Nat /\ wrote[c] <= wrote[c] + 1
    BY <1>14
  <2> QED
    BY <1>14, <2>1, MadeStays
<1>16. Made(c, req'[c], txn'[c], wrote'[c], published')
  <2>1. /\ \A i \in DOMAIN old : EntryMade(old[i], published)
        /\ \A i \in DOMAIN old : Unseen(c, old[i].file, wrote[c] + 1, published)
    BY <1>1, <1>15 DEF Made, Pending, CommitPhase, old
  <2>2. /\ \A i \in DOMAIN all : EntryMade(all[i], published)
        /\ \A i \in DOMAIN all : Unseen(c, all[i].file, wrote[c] + 1, published)
    BY <1>7, <1>8, <1>9, <1>13, <2>1
  <2>3. wrote'[c] = wrote[c] + 1 /\ published' = published
    BY <1>1, <1>12
  <2>4. Pending(req'[c], txn'[c]) = {all[i].file : i \in DOMAIN all}
    BY <1>6, <1>10, <1>11 DEF Pending, CommitPhase
  <2> QED
    BY <1>6, <1>10, <1>11, <2>2, <2>3, <2>4 DEF Made
<1> QED
  BY <1>1, <1>12, <1>16, StepsMoveAlone, MadeStep DEF relations

\* Steps of a commit that write nothing.
LEMMA MadeCommitOther ==
  ASSUME Objects, Clients, MadeInv, NEW c \in Client, CommitLock(c) \/ CommitDiscard(c)
  PROVE  MadeInv'
<1>1. /\ Step(c) /\ UNCHANGED <<published, staged, wrote>> /\ req[c].op = "commit"
      /\ req[c].phase \in CommitPhase
  BY DEF Step, Continue, CommitLock, CommitDiscard, relations, InPhase, CommitPhase
<1>2. Made(c, req[c], txn[c], wrote[c], published) /\ txn[c] \in Transaction /\ req[c] \in Request
  BY DEF MadeInv, Clients
<1>3. ASSUME NEW phase \in CommitPhase, GoTo(c, phase),
             txn'[c].prepared \in {<<>>, txn[c].prepared}
      PROVE  MadeInv'
  <2>1. req'[c].op = "commit" /\ req'[c].phase = phase
    BY <1>1, <1>2, <1>3 DEF GoTo, Clients, Request
  <2>2. Made(c, req'[c], txn'[c], wrote[c], published)
    <3>1. CASE txn'[c].prepared = <<>>
      BY <2>1, <3>1 DEF Made, Pending, CommitPhase
    <3>2. CASE txn'[c].prepared = txn[c].prepared
      BY <1>1, <1>2, <2>1, <3>2 DEF Made, Pending, CommitPhase
    <3> QED
      BY <1>3, <3>1, <3>2
  <2> QED
    BY <1>1, <2>2, StepsMoveAlone, QuietMade
<1>4. CASE CommitLock(c)
  <2>1. PICK phase \in CommitPhase : GoTo(c, phase)
    BY <1>4 DEF CommitLock, CommitPhase
  <2>2. txn' = txn \/ \E l : txn' = [txn EXCEPT ![c].locked = l]
    BY <1>4 DEF CommitLock
  <2>3. txn'[c].prepared = txn[c].prepared
    BY <1>2, <2>2 DEF Clients, Transaction
  <2> QED
    BY <1>3, <2>1, <2>3
<1>5. CASE CommitDiscard(c)
  <2>1. CASE Finish(c)
    BY <1>1, <2>1, StepsMoveAlone, MadeFinish
  <2>2. CASE txn' = [txn EXCEPT ![c] = Attempt(@.changes, @.attempt + 1)] /\ GoTo(c, "prepare")
    <3>1. txn'[c].prepared = <<>>
      BY <2>2 DEF Clients, Attempt
    <3> QED
      BY <1>3, <2>2, <3>1 DEF CommitPhase
  <2> QED
    BY <1>5, <2>1, <2>2 DEF CommitDiscard, Retry
<1> QED
  BY <1>4, <1>5

LEMMA MadeNamespaces ==
  ASSUME Objects, MadeInv, NEW n \in Namespace, CreateNamespace(n) \/ DropNamespace(n)
  PROVE  MadeInv'
<1>1. UNCHANGED <<published, req, txn, wrote>>
  BY DEF CreateNamespace, DropNamespace
<1>2. \A t \in Ident : staged'[t] \in {None, staged[t]}
  BY DEF CreateNamespace, DropNamespace
<1> QED
  BY <1>1, <1>2 DEF MadeInv, NotAhead, StagingsKnown

LEMMA NextMade == Inv /\ MadeInv /\ [Next]_vars => MadeInv'
<1> SUFFICES ASSUME Inv, MadeInv, [Next]_vars PROVE MadeInv'
  OBVIOUS
<1>1. Objects /\ Clients
  BY DEF Inv
<1>2. CASE \E n \in Namespace : CreateNamespace(n) \/ DropNamespace(n)
  BY <1>1, <1>2, MadeNamespaces
<1>3. ASSUME NEW c \in Client, Arrive(c) PROVE MadeInv'
  <2>1. Step(c)
    BY <1>3 DEF Step
  <2> QED
    BY <1>1, <1>3, <2>1, MadeArrivals, MadeCreateWrite, MadeUpdateViewWrite, MadeRegisterRead,
       MadeCommitStart DEF Arrive
<1>4. ASSUME NEW c \in Client, Continue(c) PROVE MadeInv'
  <2>1. MovesAlone(c)
    BY <1>1, <1>4, StepsMoveAlone DEF Step
  <2>2. CASE PurgeDelete(c) \/ CommitRefused(c) \/ CommitNamespaceGone(c)
    <3>1. Finish(c) /\ UNCHANGED <<staged, wrote, published>>
      BY <2>2 DEF PurgeDelete, CommitRefused, CommitNamespaceGone, relations
    <3> QED
      BY <1>1, <2>1, <3>1, MadeFinish
  <2>3. CASE PurgeName(c) \/ RenameRow(c)
    <3>1. UNCHANGED <<staged, wrote, published>>
      BY <2>3 DEF PurgeName, RenameRow, relations
    <3>2. CASE Finish(c)
      BY <1>1, <2>1, <3>1, <3>2, MadeFinish
    <3>3. CASE GoTo(c, "cascade") \/ GoTo(c, "release")
      <4>1. req'[c].phase \in {"cascade", "release"}
        BY <1>1, <3>3 DEF GoTo, Clients, Request
      <4> QED
        BY <1>1, <2>1, <3>1, <4>1, MadeElsewhere DEF CommitPhase
    <3> QED
      BY <2>3, <3>2, <3>3 DEF PurgeName, RenameRow
  <2>4. CASE Cascade(c)
    <3>1. UNCHANGED <<staged, wrote, published>>
      BY <2>4 DEF Cascade
    <3>2. req'[c].phase \in {"delete", "idle"}
      BY <1>1, <2>4, IdleType DEF Cascade, Clients, Request
    <3> QED
      BY <1>1, <2>1, <3>1, <3>2, MadeElsewhere DEF CommitPhase
  <2>5. CASE RenameRelease(c)
    BY <1>1, <2>1, <2>5, MadeFinish DEF RenameRelease
  <2> QED
    BY <1>1, <1>4, <2>2, <2>3, <2>4, <2>5, MadeInsert, MadeStageUpsert, MadeUpdateViewSwap,
       MadeCommitPrepare, MadeCommitOther, MadeCommitLand DEF Continue
<1>5. ASSUME NEW c \in Client, Abandon(c) \/ DeadlockVictim(c) PROVE MadeInv'
  <2>1. MovesAlone(c)
    BY <1>1, <1>5, StepsMoveAlone DEF Step
  <2>2. Finish(c) /\ UNCHANGED <<staged, wrote, published>>
    BY <1>5 DEF Abandon, DeadlockVictim, relations
  <2> QED
    BY <1>1, <2>1, <2>2, MadeFinish
<1>6. CASE UNCHANGED vars
  BY <1>6 DEF vars, relations, MadeInv, NotAhead, StagingsKnown
<1> QED
  BY <1>2, <1>3, <1>4, <1>5, <1>6 DEF Next

LEMMA InitMade == Init => MadeInv
<1> SUFFICES ASSUME Init PROVE MadeInv
  OBVIOUS
<1>1. NotAhead
  <2> SUFFICES ASSUME NEW k \in published, NEW c \in Client, NEW n \in Nat,
                      k[2][Len(k[2])] = <<c, n>>
               PROVE  n <= wrote[c]
    BY DEF NotAhead
  <2>1. PICK t \in Ident : k[2] = SeedFile(t)
    BY NamesAssumption DEF Init
  <2>2. k[2][Len(k[2])] = <<t, 0>>
    BY <2>1 DEF SeedFile
  <2>3. n = 0 /\ wrote[c] = 0
    BY <2>2 DEF Init
  <2> QED
    BY <2>3
<1>2. StagingsKnown
  BY DEF Init, StagingsKnown
<1>3. ASSUME NEW c \in Client PROVE Made(c, req[c], txn[c], wrote[c], published)
  <2>1. req[c].phase = "idle"
    BY IdleType DEF Init
  <2> QED
    BY <2>1, NothingPending DEF CommitPhase
<1> QED
  BY <1>1, <1>2, <1>3 DEF MadeInv

-----------------------------------------------------------------------------
(* and every step is one of the contract's, or none                          *)

AbsStep == [Abstract!AbsNext]_Abstract!absVars

LEMMA AbsStutter ==
  ASSUME UNCHANGED <<namespaces, at, staged, published>>
  PROVE  AbsStep
  BY DEF AbsStep, Abstract!absVars

LEMMA AbsNamespaces ==
  ASSUME Objects, LockInv, NEW n \in Namespace, CreateNamespace(n) \/ DropNamespace(n)
  PROVE  AbsStep
<1>1. CASE CreateNamespace(n)
  <2>1. Abstract!AbsCreateNamespace(n)
    BY <1>1 DEF CreateNamespace, Abstract!AbsCreateNamespace
  <2> QED
    BY <2>1 DEF AbsStep, Abstract!AbsNext
<1>2. CASE DropNamespace(n)
  <2>1. \A t \in Ident : NsOf[t] = n => Abstract!NameFree(t)
    BY <1>2 DEF DropNamespace, Unreferenced, LockInv, Named, Abstract!NameFree
  <2>2. Abstract!AbsDropNamespace(n)
    BY <1>2, <2>1 DEF DropNamespace, Unreferenced, Abstract!AbsDropNamespace
  <2> QED
    BY <2>2 DEF AbsStep, Abstract!AbsNext
<1> QED
  BY <1>1, <1>2

LEMMA AbsInsert ==
  ASSUME Inv, LockInv, MadeInv, NEW c \in Client, Insert(c)
  PROVE  AbsStep
<1> DEFINE t == req[c].tab
           k == req[c].kind
           f == req[c].file
<1>1. Objects /\ Clients
  BY DEF Inv
<1>2. t \in Ident /\ k \in Kind /\ f \in MetadataFile /\ f # None
  BY <1>1, Carried, PointerAssumption DEF Insert, CommitPhase
<1>3. CASE UNCHANGED <<names, at, published>>
  BY <1>3, AbsStutter DEF Insert
<1>4. CASE /\ t \notin names
           /\ at' = [at EXCEPT ![k][t] = f]
           /\ published' = published \cup {<<k, f>>}
  <2>1. Abstract!NameFree(t)
    BY <1>2, <1>4 DEF LockInv, Named, Abstract!NameFree
  <2>2. Abstract!Fresh(f) \/ <<k, f>> \in published
    BY DEF Insert, MadeInv, Made, Pending, Unseen, Abstract!Fresh
  <2>3. UNCHANGED <<namespaces, staged>>
    BY DEF Insert
  <2> HIDE DEF t, k, f
  <2>4. CASE k = "table"
    <3>1. at'["table"] = [at["table"] EXCEPT ![t] = f] /\ at'["view"] = at["view"]
          /\ at'["table"][t] = f
      BY <1>1, <1>2, <1>4, <2>4 DEF Objects
    <3>2. Abstract!AbsCreateTable(t, at'["table"][t])
      BY <1>2, <1>4, <2>1, <2>2, <2>3, <2>4, <3>1 DEF Abstract!AbsCreateTable
    <3> QED
      BY <1>2, <3>2 DEF AbsStep, Abstract!AbsNext
  <2>5. CASE k = "view"
    <3>1. at'["view"] = [at["view"] EXCEPT ![t] = f] /\ at'["table"] = at["table"]
          /\ at'["view"][t] = f
      BY <1>1, <1>2, <1>4, <2>5 DEF Objects
    <3>2. Abstract!AbsCreateView(t, at'["view"][t])
      BY <1>2, <1>4, <2>1, <2>2, <2>3, <2>5, <3>1 DEF Abstract!AbsCreateView
    <3> QED
      BY <1>2, <3>2 DEF AbsStep, Abstract!AbsNext
  <2> QED
    BY <1>2, <2>4, <2>5
<1> QED
  BY <1>3, <1>4 DEF Insert, NameTaken

LEMMA AbsStageUpsert ==
  ASSUME Inv, MadeInv, NEW c \in Client, StageUpsert(c)
  PROVE  AbsStep
<1> DEFINE t == req[c].tab
           f == req[c].file
<1>1. Objects /\ Clients
  BY DEF Inv
<1>2. t \in Ident /\ f \in MetadataFile /\ f # None
  BY <1>1, Carried, PointerAssumption DEF StageUpsert, InPhase, CommitPhase
<1>3. CASE UNCHANGED <<staged, published>>
  BY <1>3, AbsStutter DEF StageUpsert
<1>4. CASE /\ staged' = [staged EXCEPT ![t] = f]
           /\ published' = published \cup {<<"staged", f>>}
  <2>1. Abstract!Fresh(f)
    BY DEF StageUpsert, InPhase, MadeInv, Made, Pending, Unseen, Abstract!Fresh
  <2>2. UNCHANGED <<namespaces, at>>
    BY DEF StageUpsert
  <2> HIDE DEF t, f
  <2>3. staged'[t] = f
    BY <1>1, <1>2, <1>4 DEF Objects
  <2>4. Abstract!AbsStage(t, staged'[t])
    BY <1>2, <1>4, <2>1, <2>2, <2>3 DEF Abstract!AbsStage
  <2> QED
    BY <1>2, <2>4 DEF AbsStep, Abstract!AbsNext
<1> QED
  BY <1>3, <1>4 DEF StageUpsert

LEMMA AbsCascade ==
  ASSUME Inv, LockInv, NEW c \in Client, Cascade(c)
  PROVE  AbsStep
<1> DEFINE t == req[c].tab
           k == req[c].kind
<1>1. Objects /\ Clients
  BY DEF Inv
<1>2. t \in Ident /\ k \in Kind /\ at[k][t] # None
  BY <1>1, Carried DEF Cascade, CommitPhase, LockInv, Reliance, Relies
<1>3. at' = [at EXCEPT ![k][t] = None] /\ UNCHANGED <<namespaces, staged, published>>
  BY DEF Cascade
<1> HIDE DEF t, k
<1>4. CASE k = "table"
  <2>1. at'["table"] = [at["table"] EXCEPT ![t] = None] /\ at'["view"] = at["view"]
    BY <1>1, <1>2, <1>3, <1>4 DEF Objects
  <2>2. Abstract!AbsDropTable(t)
    BY <1>2, <1>3, <1>4, <2>1 DEF Abstract!AbsDropTable
  <2> QED
    BY <1>2, <2>2 DEF AbsStep, Abstract!AbsNext
<1>5. CASE k = "view"
  <2>1. at'["view"] = [at["view"] EXCEPT ![t] = None] /\ at'["table"] = at["table"]
    BY <1>1, <1>2, <1>3, <1>5 DEF Objects
  <2>2. Abstract!AbsDropView(t)
    BY <1>2, <1>3, <1>5, <2>1 DEF Abstract!AbsDropView
  <2> QED
    BY <1>2, <2>2 DEF AbsStep, Abstract!AbsNext
<1> QED
  BY <1>2, <1>4, <1>5

LEMMA AbsRenameRelease ==
  ASSUME Inv, LockInv, NEW c \in Client, RenameRelease(c)
  PROVE  AbsStep
<1> DEFINE s == req[c].tab
           d == req[c].dest
           k == req[c].kind
<1>1. Objects /\ Clients
  BY DEF Inv
<1>2. s \in Ident /\ d \in Ident /\ k \in Kind
  BY <1>1, Carried DEF RenameRelease, InPhase, CommitPhase
<1>3. d \notin names /\ at[k][s] # None
  BY DEF RenameRelease, InPhase, LockInv, Reliance, Relies
<1>4. /\ at' = [at EXCEPT ![k][d] = at[k][s], ![k][s] = None]
      /\ UNCHANGED <<namespaces, staged, published>>
  BY DEF RenameRelease
<1> HIDE DEF s, d, k
<1>5. Abstract!NameFree(d)
  BY <1>2, <1>3 DEF LockInv, Named, Abstract!NameFree
<1>6. CASE k = "table"
  <2>1. /\ at'["table"] = [at["table"] EXCEPT ![d] = at["table"][s], ![s] = None]
        /\ at'["view"] = at["view"]
    BY <1>1, <1>2, <1>4, <1>6 DEF Objects
  <2>2. Abstract!AbsRenameTable(s, d)
    BY <1>3, <1>4, <1>5, <1>6, <2>1 DEF Abstract!AbsRenameTable
  <2> QED
    BY <1>2, <2>2 DEF AbsStep, Abstract!AbsNext
<1>7. CASE k = "view"
  <2>1. /\ at'["view"] = [at["view"] EXCEPT ![d] = at["view"][s], ![s] = None]
        /\ at'["table"] = at["table"]
    BY <1>1, <1>2, <1>4, <1>7 DEF Objects
  <2>2. Abstract!AbsRenameView(s, d)
    BY <1>3, <1>4, <1>5, <1>7, <2>1 DEF Abstract!AbsRenameView
  <2> QED
    BY <1>2, <2>2 DEF AbsStep, Abstract!AbsNext
<1> QED
  BY <1>2, <1>6, <1>7

LEMMA AbsUpdateViewSwap ==
  ASSUME Inv, MadeInv, NEW c \in Client, UpdateViewSwap(c)
  PROVE  AbsStep
<1> DEFINE v == req[c].tab
           f == req[c].file
<1>1. Objects /\ Clients
  BY DEF Inv
<1>2. /\ v \in Ident /\ f \in MetadataFile /\ f # None
      /\ req[c].expected \in MetadataFile /\ req[c].expected # None
  BY <1>1, Carried, PointerAssumption DEF UpdateViewSwap, InPhase, CommitPhase, Clients, Request
<1>3. CASE UNCHANGED <<at, published>>
  BY <1>3, AbsStutter DEF UpdateViewSwap
<1>4. CASE /\ at["view"][v] = req[c].expected
           /\ at' = [at EXCEPT !["view"][v] = f]
           /\ published' = published \cup {<<"view", f>>}
  <2>1. WrittenOnto(f, at["view"][v]) /\ \A k \in published : k[2] # f
    BY <1>4 DEF UpdateViewSwap, InPhase, MadeInv, Made, Pending, Unseen
  <2>2. Abstract!Fresh(f) /\ Abstract!WrittenOn(f, at["view"][v])
    BY <2>1 DEF WrittenOnto, Abstract!WrittenOn, Abstract!Fresh
  <2>3. UNCHANGED <<namespaces, staged>>
    BY DEF UpdateViewSwap
  <2>4. at["view"][v] # None
    BY <1>2, <1>4
  <2> HIDE DEF v, f
  <2>5. /\ at'["view"] = [at["view"] EXCEPT ![v] = f] /\ at'["table"] = at["table"]
        /\ at'["view"][v] = f
    BY <1>1, <1>2, <1>4 DEF Objects
  <2>6. Abstract!AbsUpdateView(v, at'["view"][v])
    BY <1>2, <1>4, <2>2, <2>3, <2>4, <2>5 DEF Abstract!AbsUpdateView
  <2> QED
    BY <1>2, <2>6 DEF AbsStep, Abstract!AbsNext
<1> QED
  BY <1>3, <1>4 DEF UpdateViewSwap, WitnessHolds

\* A transaction prepares each table once.
LEMMA PreparedOnce ==
  ASSUME Clients, NEW c \in Client, req[c].phase \in CommitPhase,
         NEW i \in DOMAIN txn[c].prepared, NEW j \in DOMAIN txn[c].prepared,
         txn[c].prepared[i].tab = txn[c].prepared[j].tab
  PROVE  i = j
<1>1. WellFormed(txn[c]) /\ txn[c].prepared \in Seq(Prepared) /\ txn[c].changes \in Seq(Change)
  BY CommitCarried
<1>2. i \in DOMAIN txn[c].changes /\ j \in DOMAIN txn[c].changes
  BY <1>1 DEF WellFormed
<1> QED
  BY <1>1, <1>2 DEF WellFormed

LEMMA AbsCommitLand ==
  ASSUME Inv, LockInv, MadeInv, NEW c \in Client, CommitLand(c)
  PROVE  AbsStep
<1> DEFINE all == txn[c].prepared
           S == {all[i].tab : i \in DOMAIN all}
<1>1. Objects /\ Clients /\ req[c].phase = "land" /\ req[c].phase \in CommitPhase
  BY DEF Inv, CommitLand, InPhase, CommitPhase
<1>2. /\ \A i \in DOMAIN all : /\ all[i] \in Prepared /\ all[i].tab \in Ident /\ all[i].file # None
                               /\ EntryHolds(all[i], held[c], namespaces, names, at)
      /\ DOMAIN all # {}
      /\ at' \in [Kind -> [Ident -> MetadataFile \cup {None}]]
      /\ at'["view"] = at["view"]
  BY Landing, PointerAssumption DEF Prepared
<1>3. \A t \in Ident : \/ at'["table"][t] = at["table"][t] /\ \A i \in DOMAIN all : all[i].tab # t
                       \/ \E i \in DOMAIN all : all[i].tab = t /\ at'["table"][t] = all[i].file
  BY Landing
<1>4. \A i, j \in DOMAIN all : all[i].tab = all[j].tab => i = j
  BY <1>1, PreparedOnce
<1>5. /\ staged' = [t \in Ident |-> IF <<"staged", t>> \in held[c] THEN None ELSE staged[t]]
      /\ published' = published \cup {<<"table", all[i].file>> : i \in DOMAIN all}
      /\ UNCHANGED namespaces
  BY DEF CommitLand
<1>6. \A i \in DOMAIN all : /\ EntryMade(all[i], published)
                            /\ \A k \in published : k[2] # all[i].file
  BY <1>1 DEF MadeInv, Made, Pending, Unseen
<1>7. \A t \in Ident : <<"staged", t>> \in held[c] =>
        \E i \in DOMAIN all : all[i].tab = t /\ all[i].expected = None
  <2>1. Relies(req[c], txn[c], held[c], namespaces, names, at)
    BY DEF LockInv, Reliance
  <2>2. txn[c].locked \subseteq DOMAIN all
    BY <1>1, CommitCarried DEF WellFormed
  <2> QED
    BY <1>1, <2>1, <2>2 DEF Relies
<1> HIDE DEF all
<1>8. \A i \in DOMAIN all : at'["table"][all[i].tab] = all[i].file
  BY <1>2, <1>3, <1>4
\* what one entry does
<1>9. ASSUME NEW i \in DOMAIN all
      PROVE  LET t == all[i].tab
             IN /\ at'["table"][t] # None
                /\ Abstract!Fresh(at'["table"][t])
                /\ IF at["table"][t] # None
                   THEN Abstract!WrittenOn(at'["table"][t], at["table"][t])
                   ELSE /\ at["view"][t] = None
                        /\ NsOf[t] \in namespaces
                        /\ \E k \in published :
                             k[1] = "staged" /\ Abstract!WrittenOn(at'["table"][t], k[2])
                /\ all[i].expected = None => at["table"][t] = None
  <2> DEFINE p == all[i]
  <2>1. /\ p.tab \in Ident /\ p.file # None /\ at'["table"][p.tab] = p.file
        /\ EntryHolds(p, held[c], namespaces, names, at)
        /\ EntryMade(p, published) /\ \A k \in published : k[2] # p.file
    BY <1>2, <1>6, <1>8
  <2> HIDE DEF p
  <2>2. Abstract!Fresh(p.file)
    BY <2>1 DEF Abstract!Fresh
  <2>3. CASE p.expected = None
    <3>1. at["table"][p.tab] = None /\ at["view"][p.tab] = None /\ NsOf[p.tab] \in namespaces
      BY <2>1, <2>3 DEF EntryHolds, LockInv, Named
    <3>2. \E k \in published : k[1] = "staged" /\ Abstract!WrittenOn(p.file, k[2])
      BY <2>1, <2>3 DEF EntryMade, WrittenOnto, Abstract!WrittenOn
    <3> QED
      BY <2>1, <2>2, <3>1, <3>2 DEF p
  <2>4. CASE p.expected # None
    <3>1. at["table"][p.tab] = p.expected /\ Abstract!WrittenOn(p.file, p.expected)
      BY <2>1, <2>4 DEF EntryHolds, EntryMade, WrittenOnto, Abstract!WrittenOn
    <3> QED
      BY <2>1, <2>2, <2>4, <3>1 DEF p
  <2> QED
    BY <2>3, <2>4
<1>10. Abstract!AbsCommit(S)
  <2>1. S # {} /\ DOMAIN (at'["table"]) = Ident /\ DOMAIN staged' = Ident
    BY <1>2, <1>5
  <2>2. \A t \in Ident \ S : at'["table"][t] = at["table"][t]
    BY <1>3
  <2>3. ASSUME NEW t \in S
        PROVE  /\ at'["table"][t] # None
               /\ Abstract!Fresh(at'["table"][t])
               /\ IF at["table"][t] # None
                  THEN Abstract!WrittenOn(at'["table"][t], at["table"][t])
                  ELSE /\ at["view"][t] = None
                       /\ NsOf[t] \in namespaces
                       /\ \E k \in published :
                            k[1] = "staged" /\ Abstract!WrittenOn(at'["table"][t], k[2])
    <3>1. PICK i \in DOMAIN all : t = all[i].tab
      OBVIOUS
    <3> QED
      BY <1>9, <3>1
  <2>4. \A t \in Ident : \/ staged'[t] = staged[t]
                         \/ t \in S /\ at["table"][t] = None /\ staged'[t] = None
    <3> TAKE t \in Ident
    <3>1. CASE <<"staged", t>> \in held[c]
      <4>1. PICK i \in DOMAIN all : all[i].tab = t /\ all[i].expected = None
        BY <1>7, <3>1
      <4>2. at["table"][t] = None
        BY <1>9, <4>1
      <4> QED
        BY <1>5, <3>1, <4>1, <4>2
    <3>2. CASE <<"staged", t>> \notin held[c]
      BY <1>5, <3>2
    <3> QED
      BY <3>1, <3>2
  <2>5. published' = published \cup {<<"table", at'["table"][t]>> : t \in S}
    BY <1>5, <1>8
  <2> HIDE DEF S
  <2> QED
    BY <1>2, <1>5, <2>1, <2>2, <2>3, <2>4, <2>5 DEF Abstract!AbsCommit
<1>11. S \in SUBSET Ident
  BY <1>2
<1> HIDE DEF S
<1> QED
  BY <1>10, <1>11 DEF AbsStep, Abstract!AbsNext

LEMMA NextAbs == Inv /\ LockInv /\ MadeInv /\ [Next]_vars => AbsStep
<1> SUFFICES ASSUME Inv, LockInv, MadeInv, [Next]_vars PROVE AbsStep
  OBVIOUS
<1>1. Objects
  BY DEF Inv
<1>2. CASE \E n \in Namespace : CreateNamespace(n) \/ DropNamespace(n)
  BY <1>1, <1>2, AbsNamespaces
<1>3. ASSUME NEW c \in Client, Arrive(c) PROVE AbsStep
  <2>1. ASSUME NEW op, NEW k, NEW t, CreateWrite(c, op, k, t) PROVE AbsStep
    BY <2>1, AbsStutter DEF CreateWrite, relations
  <2>2. ASSUME NEW k, NEW t, NEW f, RegisterRead(c, k, t, f) PROVE AbsStep
    BY <2>2, AbsStutter DEF RegisterRead, relations
  <2>3. ASSUME NEW k, NEW t, DropName(c, k, t) PROVE AbsStep
    BY <2>3, AbsStutter DEF DropName, relations
  <2>4. ASSUME NEW t, PurgeLoad(c, t) PROVE AbsStep
    BY <2>4, AbsStutter DEF PurgeLoad, relations
  <2>5. ASSUME NEW k, NEW s, NEW d, RenameClaim(c, k, s, d) PROVE AbsStep
    BY <2>5, AbsStutter DEF RenameClaim, relations
  <2>6. ASSUME NEW v, UpdateViewWrite(c, v) PROVE AbsStep
    BY <2>6, AbsStutter DEF UpdateViewWrite, relations
  <2>7. CASE CommitStart(c)
    BY <2>7, AbsStutter DEF CommitStart, relations
  <2> QED
    BY <1>3, <2>1, <2>2, <2>3, <2>4, <2>5, <2>6, <2>7 DEF Arrive
<1>4. ASSUME NEW c \in Client, Continue(c) PROVE AbsStep
  <2>1. CASE \/ PurgeName(c) \/ PurgeDelete(c) \/ RenameRow(c) \/ CommitPrepare(c)
             \/ CommitRefused(c) \/ CommitLock(c) \/ CommitNamespaceGone(c) \/ CommitDiscard(c)
    <3>1. UNCHANGED <<namespaces, at, staged, published>>
      BY <2>1 DEF PurgeName, PurgeDelete, RenameRow, CommitPrepare, CommitRefused, CommitLock,
         CommitNamespaceGone, CommitDiscard, relations
    <3> QED
      BY <3>1, AbsStutter
  <2> QED
    BY <1>4, <2>1, AbsInsert, AbsStageUpsert, AbsCascade, AbsRenameRelease, AbsUpdateViewSwap,
       AbsCommitLand DEF Continue
<1>5. ASSUME NEW c \in Client, Abandon(c) \/ DeadlockVictim(c) PROVE AbsStep
  BY <1>5, AbsStutter DEF Abandon, DeadlockVictim, relations
<1>6. CASE UNCHANGED vars
  BY <1>6, AbsStutter DEF vars, relations
<1> QED
  BY <1>2, <1>3, <1>4, <1>5, <1>6 DEF Next

LEMMA InitAbs == Init => Abstract!AbsInit
<1> SUFFICES ASSUME Init PROVE Abstract!AbsInit
  OBVIOUS
<1>1. /\ at["table"] = [t \in Ident |-> IF t \in InitTables THEN SeedFile(t) ELSE None]
      /\ at["view"] = [t \in Ident |-> IF t \in InitViews THEN SeedFile(t) ELSE None]
  BY DEF Init
<1>2. published = {<<"table", SeedFile(t)>> : t \in InitTables}
                  \cup {<<"view", SeedFile(v)>> : v \in InitViews}
  BY DEF Init
<1> QED
  BY <1>1, <1>2 DEF Init, Abstract!AbsInit

\* The backend implements the catalog's contract (the CatalogStore trait of
\* src/catalog/store.rs): however requests, replicas and crashes interleave, the
\* relations change only by the contract's moves, each of them at once, and a commit
\* over several tables is one move (src/catalog/postgres.rs).
THEOREM LinearizableHolds == Spec => Linearizable
<1>1. Init => Inv /\ LockInv /\ MadeInv
  BY InitInv, InitLockInv, InitMade
<1>2. Inv /\ LockInv /\ MadeInv /\ [Next]_vars => (Inv /\ LockInv /\ MadeInv)'
  BY NextInv, NextLockInv, NextMade
<1>3. Inv /\ LockInv /\ MadeInv /\ [Next]_vars => [Abstract!AbsNext]_Abstract!absVars
  BY NextAbs DEF AbsStep
<1> QED
  BY <1>1, <1>2, <1>3, InitAbs, PTL DEF Spec, Linearizable, Abstract!AbsSpec
=============================================================================
