-------------------------- MODULE RedbCatalogProofs --------------------------
(***************************************************************************)
(* What RedbCatalog's runs check on small instances, for any clients,      *)
(* namespaces, names, request mixes and bounds: types, one kind of thing   *)
(* per name, a closed namespace tree, no lost commit, the refinement of    *)
(* the abstract catalog, transactions that land whole, and, of the         *)
(* requests that allow it, files that stay and none left behind.           *)
(***************************************************************************)
EXTENDS RedbCatalog, SequenceTheorems, TLAPS

-----------------------------------------------------------------------------
(* The steps a handler is made of keep its variables in their types.         *)

USE DEF Operation, Phase

LEMMA IdleType == Idle \in Request
  BY DEF Idle, Request, Record, MetadataFile

LEMMA OnType ==
  ASSUME NEW op \in Operation, NEW phase \in Phase, NEW t \in Ident
  PROVE  /\ On(op, phase, t) \in Request
         /\ On(op, phase, t).op = op
         /\ On(op, phase, t).phase = phase
         /\ On(op, phase, t).tab = t
<1> HIDE DEF Operation, Phase
<1>1. /\ On(op, phase, t).op = op /\ On(op, phase, t).phase = phase
      /\ On(op, phase, t).tab = t
  BY DEF On, Idle
<1>2. <<>> \in MetadataFile
  BY DEF MetadataFile
<1> QED
  BY <1>1, <1>2 DEF On, Request, Idle

LEMMA CarryType ==
  ASSUME NEW r \in Request, NEW f \in MetadataFile, NEW d \in Ident
  PROVE  /\ [r EXCEPT !.file = f] \in Request
         /\ [r EXCEPT !.file = f].op = r.op
         /\ [r EXCEPT !.file = f].phase = r.phase
         /\ [r EXCEPT !.file = f].tab = r.tab
         /\ [r EXCEPT !.dest = d] \in Request
         /\ [r EXCEPT !.dest = d].op = r.op
         /\ [r EXCEPT !.dest = d].tab = r.tab
         /\ [r EXCEPT !.dest = d].dest = d
  BY DEF Request

LEMMA BeginType ==
  ASSUME TypeOK, NEW c \in Client, NEW r \in Request, Begin(c, r)
  PROVE  req' \in [Client -> Request] /\ begun' \in [Client -> 0..MaxRequests]
  BY BoundsAssumption DEF TypeOK, Begin

LEMMA FinishType ==
  ASSUME TypeOK, NEW c \in Client, Finish(c)
  PROVE  req' \in [Client -> Request]
  BY IdleType DEF TypeOK, Finish

LEMMA AdvanceType ==
  ASSUME TypeOK, NEW c \in Client, NEW phase \in Phase, NEW f \in MetadataFile,
         Advance(c, phase, f)
  PROVE  req' \in [Client -> Request]
<1>1. req[c] \in Request /\ req \in [Client -> Request]
  BY DEF TypeOK
<1>2. [req[c] EXCEPT !.phase = phase, !.file = f] \in Request
  BY <1>1 DEF Request
<1> QED
  BY <1>1, <1>2 DEF Advance

LEMMA FreshIdType ==
  ASSUME TypeOK, NEW c \in Client
  PROVE  FreshId(c) \in WriteId /\ <<FreshId(c)>> \in MetadataFile
  BY DEF TypeOK, FreshId, WriteId, MetadataFile

LEMMA WriteFileType ==
  ASSUME TypeOK, NEW c \in Client, NEW f \in MetadataFile, WriteFile(c, f)
  PROVE  files' \subseteq MetadataFile /\ wrote' \in [Client -> Nat]
  BY DEF TypeOK, WriteFile

LEMMA InsertTableType ==
  ASSUME TypeOK, NEW t \in Ident, NEW f \in MetadataFile, InsertTable(t, f)
  PROVE  /\ tables' \in [Ident -> Record \cup {None}]
         /\ published' \subseteq {"table", "view", "staged"} \X MetadataFile
  BY DEF TypeOK, InsertTable, Record

LEMMA InsertViewType ==
  ASSUME TypeOK, NEW v \in Ident, NEW f \in MetadataFile, InsertView(v, f)
  PROVE  /\ views' \in [Ident -> Record \cup {None}]
         /\ published' \subseteq {"table", "view", "staged"} \X MetadataFile
  BY DEF TypeOK, InsertView, Record

-----------------------------------------------------------------------------
(* Type correctness, one step per action.                                    *)

LEMMA TypeInit == Init => TypeOK
<1> SUFFICES ASSUME Init PROVE TypeOK
  OBVIOUS
<1>1. \A t \in Ident : SeedFile(t) \in MetadataFile
  BY DEF SeedFile, MetadataFile, WriteId
<1>2. \A S : SeedRecords(S) \in [Ident -> Record \cup {None}]
  BY <1>1 DEF SeedRecords, Record
<1>3. NoTransaction \in Transaction
  BY BoundsAssumption DEF NoTransaction, Transaction
<1>4. begun \in [Client -> 0..MaxRequests]
  BY BoundsAssumption DEF Init
<1>5. RequestsFitPhase
  BY DEF Init, Idle, RequestsFitPhase
<1> QED
  BY <1>1, <1>2, <1>3, <1>4, <1>5, IdleType, NamesAssumption DEF Init, TypeOK

LEMMA FitBegin ==
  ASSUME TypeOK, NEW c \in Client, NEW r \in Request, Begin(c, r), txn' = txn,
         r.op # "commit", r.tab \in Ident, r.phase = "move" => r.dest \in Ident
  PROVE  RequestsFitPhase'
  BY DEF TypeOK, RequestsFitPhase, Begin

LEMMA FitFinish ==
  ASSUME TypeOK, NEW c \in Client, Finish(c), \A d \in Client \ {c} : txn'[d] = txn[d]
  PROVE  RequestsFitPhase'
  BY DEF TypeOK, RequestsFitPhase, Finish, Idle

LEMMA FitAdvance ==
  ASSUME TypeOK, NEW c \in Client, NEW phase \in Phase \ {"move"}, NEW f \in MetadataFile,
         Advance(c, phase, f), txn' = txn, req[c].phase # "idle", req[c].op # "commit"
  PROVE  RequestsFitPhase'
<1> DEFINE r == [req[c] EXCEPT !.phase = phase, !.file = f]
<1>1. req \in [Client -> Request] /\ req[c] \in Request
  BY DEF TypeOK
<1>2. r.op = req[c].op /\ r.tab = req[c].tab /\ r.phase = phase
  BY <1>1 DEF Request
<1>3. req' = [req EXCEPT ![c] = r]
  BY DEF Advance
<1> HIDE DEF r
<1> QED
  BY <1>1, <1>2, <1>3 DEF TypeOK, RequestsFitPhase

LEMMA TypeNamespaces ==
  ASSUME TypeOK, NEW n \in Namespace, CreateNamespace(n) \/ DropNamespace(n)
  PROVE  TypeOK'
<1>1. CASE CreateNamespace(n)
  BY <1>1 DEF TypeOK, CreateNamespace, clients, RequestsFitPhase
<1>2. CASE DropNamespace(n)
  BY <1>2 DEF TypeOK, DropNamespace, clients, RequestsFitPhase
<1> QED
  BY <1>1, <1>2

LEMMA TypeDrops ==
  ASSUME TypeOK, NEW t \in Ident, DropTable(t) \/ DropView(t)
  PROVE  TypeOK'
<1>1. CASE DropTable(t)
  BY <1>1 DEF TypeOK, DropTable, clients, RequestsFitPhase
<1>2. CASE DropView(t)
  BY <1>2 DEF TypeOK, DropView, clients, RequestsFitPhase
<1> QED
  BY <1>1, <1>2

\* Every request but a commit begins by reading, and changes nothing else.
LEMMA TypeBegin ==
  ASSUME TypeOK, NEW c \in Client, NEW r \in Request, Begin(c, r),
         r.op # "commit", r.tab \in Ident, r.phase = "move" => r.dest \in Ident,
         UNCHANGED <<registry, files, published, txn, wrote>>
  PROVE  TypeOK'
<1>1. RequestsFitPhase'
  BY FitBegin
<1>2. req' \in [Client -> Request] /\ begun' \in [Client -> 0..MaxRequests]
  BY BeginType
<1> QED
  BY <1>1, <1>2 DEF TypeOK, registry

LEMMA TypeArrivals ==
  ASSUME TypeOK, NEW c \in Client, NEW s \in Ident, NEW d \in Ident,
         \/ CreateTableStart(c, s) \/ StageCreateStart(c, s) \/ RegisterTableStart(c, s)
         \/ PurgeTableLoad(c, s) \/ RenameTableStart(c, s, d)
         \/ CreateViewStart(c, s) \/ RegisterViewStart(c, s) \/ UpdateViewStart(c, s)
         \/ RenameViewStart(c, s, d)
  PROVE  TypeOK'
<1>1. ASSUME NEW op \in Operation, NEW phase \in Phase, op # "commit", phase # "move"
      PROVE  /\ On(op, phase, s) \in Request /\ On(op, phase, s).op # "commit"
             /\ On(op, phase, s).tab \in Ident /\ On(op, phase, s).phase # "move"
  <2> HIDE DEF Operation, Phase
  <2>1. /\ On(op, phase, s) \in Request /\ On(op, phase, s).op = op
        /\ On(op, phase, s).phase = phase /\ On(op, phase, s).tab = s
    BY OnType
  <2> QED
    BY <1>1, <2>1
<1>2. ASSUME NEW op \in Operation, NEW phase \in Phase, NEW f \in MetadataFile, NEW r,
             op # "commit", phase # "move", r = [On(op, phase, s) EXCEPT !.file = f]
      PROVE  r \in Request /\ r.op # "commit" /\ r.tab \in Ident /\ r.phase # "move"
  <2> HIDE DEF Operation, Phase
  <2> DEFINE q == On(op, phase, s)
  <2>1. q \in Request /\ q.op = op /\ q.phase = phase /\ q.tab = s
    BY OnType
  <2> HIDE DEF q
  <2>2. [q EXCEPT !.file = f] \in Request /\ [q EXCEPT !.file = f].op = q.op
        /\ [q EXCEPT !.file = f].phase = q.phase /\ [q EXCEPT !.file = f].tab = q.tab
    BY <2>1, CarryType
  <2>3. r = [q EXCEPT !.file = f]
    BY <1>2 DEF q
  <2> QED
    BY <1>2, <2>1, <2>2, <2>3
<1>3. ASSUME NEW op \in Operation, NEW r, op # "commit",
             r = [On(op, "move", s) EXCEPT !.dest = d]
      PROVE  r \in Request /\ r.op # "commit" /\ r.tab \in Ident /\ r.dest \in Ident
  <2> DEFINE q == On(op, "move", s)
  <2>1. q \in Request /\ q.op = op /\ q.tab = s
    BY OnType
  <2> HIDE DEF q
  <2>2. [q EXCEPT !.dest = d] \in Request /\ [q EXCEPT !.dest = d].op = q.op
        /\ [q EXCEPT !.dest = d].tab = q.tab /\ [q EXCEPT !.dest = d].dest = d
    BY <2>1, <<>> \in MetadataFile, CarryType DEF MetadataFile
  <2>3. r = [q EXCEPT !.dest = d]
    BY <1>3 DEF q
  <2> QED
    BY <1>3, <2>1, <2>2, <2>3
<1>4. CASE CreateTableStart(c, s)
  BY <1>1, <1>4, TypeBegin DEF CreateTableStart, CreateStart
<1>5. CASE StageCreateStart(c, s)
  BY <1>1, <1>5, TypeBegin DEF StageCreateStart, CreateStart
<1>6. CASE RegisterTableStart(c, s)
  BY <1>1, <1>6, TypeBegin DEF RegisterTableStart
<1>7. CASE PurgeTableLoad(c, s)
  <2>1. tables[s].file \in MetadataFile
    BY <1>7 DEF TypeOK, PurgeTableLoad, PurgeStart, Record
  <2> QED
    BY <1>2, <1>7, <2>1, TypeBegin DEF PurgeTableLoad, PurgeStart
<1>8. CASE RenameTableStart(c, s, d)
  BY <1>3, <1>8, TypeBegin DEF RenameTableStart
<1>9. CASE CreateViewStart(c, s)
  BY <1>1, <1>9, TypeBegin DEF CreateViewStart
<1>10. CASE RegisterViewStart(c, s)
  BY <1>1, <1>10, TypeBegin DEF RegisterViewStart
<1>11. CASE UpdateViewStart(c, s)
  <2>1. views[s].file \in MetadataFile
    BY <1>11 DEF TypeOK, UpdateViewStart, Record
  <2> QED
    BY <1>2, <1>11, <2>1, TypeBegin DEF UpdateViewStart
<1>12. CASE RenameViewStart(c, s, d)
  BY <1>3, <1>12, TypeBegin DEF RenameViewStart
<1> QED
  BY <1>4, <1>5, <1>6, <1>7, <1>8, <1>9, <1>10, <1>11, <1>12

-----------------------------------------------------------------------------
(* The later steps of every request but a commit.                            *)

LEMMA InFlight ==
  ASSUME TypeOK, NEW c \in Client, req[c].phase # "idle", req[c].op # "commit"
  PROVE  /\ req[c] \in Request
         /\ req[c].tab \in Ident
         /\ req[c].file \in MetadataFile
         /\ req[c].phase = "move" => req[c].dest \in Ident
  BY DEF TypeOK, RequestsFitPhase, Request

LEMMA TypeFirstFile ==
  ASSUME TypeOK, NEW c \in Client, CreateTablePrepare(c) \/ StageCreatePrepare(c)
  PROVE  TypeOK'
<1>1. req[c].phase = "prepare" /\ req[c].op # "commit" /\ FirstFile(c)
  BY DEF CreateTablePrepare, StageCreatePrepare, InPhase
<1>2. UNCHANGED <<registry, published, txn, begun>>
  BY DEF CreateTablePrepare, StageCreatePrepare
<1>3. /\ req' \in [Client -> Request]
      /\ files' \subseteq MetadataFile /\ wrote' \in [Client -> Nat]
      /\ RequestsFitPhase'
  <2>1. CASE Finish(c) /\ UNCHANGED <<files, wrote>>
    BY <1>2, <2>1, FinishType, FitFinish DEF TypeOK
  <2>2. CASE Advance(c, "insert", <<FreshId(c)>>) /\ WriteFile(c, <<FreshId(c)>>)
    BY <1>1, <1>2, <2>2, FreshIdType, AdvanceType, WriteFileType, FitAdvance
  <2> QED
    BY <1>1, <2>1, <2>2 DEF FirstFile
<1> QED
  BY <1>2, <1>3 DEF TypeOK, registry

\* The handler's last step: it answers, having changed at most these relations.
LEMMA TypeAnswer ==
  ASSUME TypeOK, NEW c \in Client, Finish(c),
         UNCHANGED <<namespaces, txn, begun, wrote>>, files' \subseteq MetadataFile,
         tables' \in [Ident -> Record \cup {None}],
         views' \in [Ident -> Record \cup {None}],
         staged' \in [Ident -> MetadataFile \cup {None}],
         published' \subseteq {"table", "view", "staged"} \X MetadataFile
  PROVE  TypeOK'
  BY FinishType, FitFinish DEF TypeOK

LEMMA TypeTableSteps ==
  ASSUME TypeOK, NEW c \in Client,
         \/ CreateTableInsert(c) \/ StageCreateInsert(c) \/ RegisterTableInsert(c)
         \/ PurgeTableDrop(c) \/ PurgeTableDelete(c) \/ RenameTableMove(c)
  PROVE  TypeOK'
<1>1. req[c].phase # "idle" /\ req[c].op # "commit"
  BY DEF CreateTableInsert, StageCreateInsert, RegisterTableInsert, PurgeTableDrop,
         PurgeTableDelete, RenameTableMove, InPhase
<1>2. req[c].tab \in Ident /\ req[c].file \in MetadataFile
  BY <1>1, InFlight
<1>3. CASE CreateTableInsert(c)
  BY <1>2, <1>3, InsertTableType, TypeAnswer DEF CreateTableInsert, TypeOK
<1>4. CASE StageCreateInsert(c)
  BY <1>2, <1>4, TypeAnswer DEF StageCreateInsert, TypeOK
<1>5. CASE RegisterTableInsert(c)
  BY <1>2, <1>5, InsertTableType, TypeAnswer DEF RegisterTableInsert, TypeOK
<1>6. CASE PurgeTableDrop(c)
  <2>1. CASE tables[req[c].tab] # None
    <3>1. Advance(c, "delete", req[c].file) /\ tables' = [tables EXCEPT ![req[c].tab] = None]
      BY <1>6, <2>1 DEF PurgeTableDrop
    <3>2. req' \in [Client -> Request] /\ RequestsFitPhase'
      BY <1>1, <1>2, <1>6, <3>1, AdvanceType, FitAdvance DEF PurgeTableDrop
    <3> QED
      BY <1>6, <3>1, <3>2 DEF PurgeTableDrop, TypeOK
  <2>2. CASE tables[req[c].tab] = None
    BY <1>6, <2>2, TypeAnswer DEF PurgeTableDrop, TypeOK
  <2> QED
    BY <2>1, <2>2
<1>7. CASE PurgeTableDelete(c)
  BY <1>7, TypeAnswer DEF PurgeTableDelete, TypeOK, registry
<1>8. CASE RenameTableMove(c)
  <2>1. req[c].dest \in Ident
    BY <1>1, <1>8, InFlight DEF RenameTableMove, InPhase
  <2>2. tables' \in [Ident -> Record \cup {None}]
    BY <1>2, <1>8, <2>1 DEF RenameTableMove, TypeOK, Record
  <2> QED
    BY <1>8, <2>2, TypeAnswer DEF RenameTableMove, TypeOK
<1> QED
  BY <1>3, <1>4, <1>5, <1>6, <1>7, <1>8

LEMMA TypeRegisterRead ==
  ASSUME TypeOK, NEW c \in Client, NEW f, RegisterTableRead(c, f) \/ RegisterViewRead(c, f)
  PROVE  TypeOK'
<1>1. req[c].phase # "idle" /\ req[c].op # "commit" /\ f \in MetadataFile
  BY DEF RegisterTableRead, RegisterViewRead, InPhase, TypeOK
<1>2. UNCHANGED <<registry, files, published, txn, begun, wrote>>
  BY DEF RegisterTableRead, RegisterViewRead
<1>3. CASE Advance(c, "insert", f)
  BY <1>1, <1>2, <1>3, AdvanceType, FitAdvance DEF TypeOK, registry
<1>4. CASE Finish(c)
  BY <1>2, <1>4, TypeAnswer DEF TypeOK, registry
<1> QED
  BY <1>3, <1>4 DEF RegisterTableRead, RegisterViewRead

LEMMA TypeViewSteps ==
  ASSUME TypeOK, NEW c \in Client,
         \/ CreateViewPrepare(c) \/ ViewInsert(c)
         \/ UpdateViewSwap(c) \/ RenameViewMove(c)
  PROVE  TypeOK'
<1>1. req[c].phase # "idle" /\ req[c].op # "commit"
  BY DEF CreateViewPrepare, ViewInsert, UpdateViewSwap, RenameViewMove, InPhase
<1>2. req[c].tab \in Ident /\ req[c].file \in MetadataFile
  BY <1>1, InFlight
<1>3. CASE CreateViewPrepare(c)
  <2>1. Advance(c, "insert", <<FreshId(c)>>) /\ WriteFile(c, <<FreshId(c)>>)
    BY <1>3 DEF CreateViewPrepare
  <2> QED
    BY <1>1, <1>3, <2>1, FreshIdType, AdvanceType, WriteFileType, FitAdvance
    DEF CreateViewPrepare, TypeOK, registry
<1>4. CASE ViewInsert(c)
  BY <1>2, <1>4, InsertViewType, TypeAnswer DEF ViewInsert, TypeOK
<1>5. CASE UpdateViewSwap(c)
  <2>1. req[c].expected \in Record \cup {None}
    BY DEF TypeOK, Request
  <2>2. /\ views' \in [Ident -> Record \cup {None}]
        /\ published' \subseteq {"table", "view", "staged"} \X MetadataFile
    <3>1. CASE Unmoved(c)
      <4>1. req[c].expected.version + 1 \in Nat
        BY <1>2, <2>1, <3>1 DEF Unmoved, Record
      <4> QED
        BY <1>2, <1>5, <3>1, <4>1 DEF UpdateViewSwap, TypeOK, Record
    <3>2. CASE ~Unmoved(c)
      BY <1>5, <3>2 DEF UpdateViewSwap, TypeOK
    <3> QED
      BY <3>1, <3>2
  <2> QED
    BY <1>5, <2>2, TypeAnswer DEF UpdateViewSwap, TypeOK
<1>6. CASE RenameViewMove(c)
  <2>1. req[c].dest \in Ident
    BY <1>1, <1>6, InFlight DEF RenameViewMove, InPhase
  <2>2. views' \in [Ident -> Record \cup {None}]
    BY <1>2, <1>6, <2>1 DEF RenameViewMove, TypeOK, Record
  <2> QED
    BY <1>6, <2>2, TypeAnswer DEF RenameViewMove, TypeOK
<1> QED
  BY <1>3, <1>4, <1>5, <1>6

LEMMA TypeUpdateViewPrepare ==
  ASSUME TypeOK, NEW c \in Client, UpdateViewPrepare(c)
  PROVE  TypeOK'
<1>1. req[c].phase # "idle" /\ req[c].op # "commit"
  BY DEF UpdateViewPrepare, InPhase
<1>2. /\ req \in [Client -> Request] /\ req[c] \in Request
      /\ req[c].tab \in Ident /\ req[c].file \in MetadataFile
  BY <1>1, InFlight DEF TypeOK
<1>3. CASE WitnessHolds(c)
  <2> DEFINE f == Append(req[c].file, FreshId(c))
             r == [req[c] EXCEPT !.phase = "swap", !.file = f, !.expected = views[req[c].tab]]
  <2>1. f \in MetadataFile
    BY <1>2, FreshIdType DEF MetadataFile
  <2>2. views[req[c].tab] \in Record \cup {None}
    BY <1>2 DEF TypeOK
  <2>3. req' = [req EXCEPT ![c] = r] /\ WriteFile(c, f)
    BY <1>3 DEF UpdateViewPrepare
  <2> HIDE DEF f
  <2>4. r \in Request /\ r.op = req[c].op /\ r.tab = req[c].tab /\ r.phase = "swap"
    BY <1>2, <2>1, <2>2 DEF Request
  <2> HIDE DEF r
  <2>5. req' \in [Client -> Request] /\ txn' = txn
    BY <1>2, <2>3, <2>4 DEF UpdateViewPrepare
  <2>6. RequestsFitPhase'
    BY <1>1, <1>2, <2>3, <2>4, <2>5 DEF TypeOK, RequestsFitPhase
  <2> QED
    BY <2>1, <2>3, <2>5, <2>6, WriteFileType DEF UpdateViewPrepare, TypeOK, registry
<1>4. CASE ~WitnessHolds(c)
  BY <1>4, TypeAnswer DEF UpdateViewPrepare, TypeOK, registry
<1> QED
  BY <1>3, <1>4

LEMMA TypeAbandon ==
  ASSUME TypeOK, NEW c \in Client, Abandon(c)
  PROVE  TypeOK'
<1>1. NoTransaction \in Transaction
  BY BoundsAssumption DEF NoTransaction, Transaction
<1>2. Finish(c) /\ txn' = [txn EXCEPT ![c] = NoTransaction]
  BY DEF Abandon
<1>3. txn' \in [Client -> Transaction] /\ \A d \in Client \ {c} : txn'[d] = txn[d]
  BY <1>1, <1>2 DEF TypeOK
<1> QED
  BY <1>2, <1>3, FinishType, FitFinish DEF Abandon, TypeOK, registry

-----------------------------------------------------------------------------
(* Commits.                                                                  *)

LEMMA RequestsAreChanges ==
  ASSUME TypeOK, NEW t \in Ident
  PROVE  Requests(t) \subseteq Change
<1>1. <<>> \in MetadataFile
  BY DEF MetadataFile
<1>2. CASE tables[t] = None
  BY <1>1, <1>2 DEF Requests, Change
<1>3. CASE tables[t] # None
  <2>1. tables[t].file \in MetadataFile
    BY <1>3 DEF TypeOK, Record
  <2> QED
    BY <1>1, <1>3, <2>1 DEF Requests, Change
<1> QED
  BY <1>2, <1>3

LEMMA TypeCommitStart ==
  ASSUME TypeOK, NEW c \in Client, CommitStart(c)
  PROVE  TypeOK'
<1> DEFINE r == [Idle EXCEPT !.op = "commit", !.phase = "prepare"]
<1>1. r \in Request /\ r.op = "commit" /\ r.phase = "prepare"
  BY IdleType DEF Idle, Request
<1>2. PICK n \in 1..MaxChanges :
        \E changes \in [1..n -> UNION {Requests(t) : t \in Ident}] :
          txn' = [txn EXCEPT ![c] = Attempt(changes, 1)]
  BY DEF CommitStart
<1>3. PICK changes \in [1..n -> UNION {Requests(t) : t \in Ident}] :
        txn' = [txn EXCEPT ![c] = Attempt(changes, 1)]
  BY <1>2
<1>4. changes \in Seq(Change) /\ Len(changes) = n
  <2>1. changes \in [1..n -> Change]
    BY <1>3, RequestsAreChanges
  <2> QED
    BY <1>2, <2>1, BoundsAssumption
<1>5. Attempt(changes, 1) \in Transaction /\ Attempt(changes, 1).prepared = <<>>
      /\ Attempt(changes, 1).changes = changes
  BY <1>4, BoundsAssumption DEF Attempt, Transaction
<1>6. txn' \in [Client -> Transaction] /\ txn'[c] = Attempt(changes, 1)
  BY <1>3, <1>5 DEF TypeOK
<1>7. Begin(c, r)
  BY DEF CommitStart
<1> HIDE DEF r
<1>8. req' \in [Client -> Request] /\ begun' \in [Client -> 0..MaxRequests]
  BY <1>1, <1>7, BeginType
<1>9. RequestsFitPhase'
  <2>1. req' = [req EXCEPT ![c] = r] /\ Len(txn'[c].prepared) < Len(txn'[c].changes)
    BY <1>2, <1>4, <1>5, <1>6, <1>7 DEF Begin
  <2> QED
    BY <1>1, <1>3, <2>1 DEF TypeOK, RequestsFitPhase
<1> QED
  BY <1>6, <1>8, <1>9 DEF CommitStart, TypeOK, registry

LEMMA RetryType ==
  ASSUME TypeOK, NEW c \in Client, Retry(c), req[c].op = "commit", req[c].phase # "idle"
  PROVE  /\ req' \in [Client -> Request]
         /\ txn' \in [Client -> Transaction]
         /\ RequestsFitPhase'
<1>1. txn[c] \in Transaction /\ txn \in [Client -> Transaction]
      /\ req[c] \in Request /\ req \in [Client -> Request]
  BY DEF TypeOK
<1>2. CASE txn[c].attempt < COMMIT_MAX_RETRIES
  <2> DEFINE a == Attempt(txn[c].changes, txn[c].attempt + 1)
             r == [req[c] EXCEPT !.phase = "prepare"]
  <2>1. txn' = [txn EXCEPT ![c] = a] /\ req' = [req EXCEPT ![c] = r]
    BY <1>2 DEF Retry
  <2>2. a \in Transaction /\ a.prepared = <<>> /\ a.changes = txn[c].changes
    BY <1>1, <1>2, BoundsAssumption DEF Attempt, Transaction
  <2>3. r \in Request /\ r.op = "commit" /\ r.phase = "prepare"
    BY <1>1 DEF Request
  <2>4. Len(txn[c].changes) > 0
    <3>1. txn[c].prepared \in Seq(Prepared) /\ txn[c].changes \in Seq(Change)
      BY <1>1 DEF Transaction
    <3>2. IF req[c].phase = "prepare"
          THEN Len(txn[c].prepared) < Len(txn[c].changes)
          ELSE txn[c].prepared # <<>> /\ Len(txn[c].prepared) = Len(txn[c].changes)
      BY DEF TypeOK, RequestsFitPhase
    <3> QED
      BY <3>1, <3>2
  <2> HIDE DEF a, r
  <2>5. txn'[c] = a /\ \A d \in Client \ {c} : txn'[d] = txn[d]
    BY <1>1, <2>1
  <2>6. Len(a.prepared) < Len(a.changes)
    BY <2>2, <2>4
  <2> QED
    BY <1>1, <2>1, <2>2, <2>3, <2>5, <2>6 DEF TypeOK, RequestsFitPhase
<1>3. CASE ~(txn[c].attempt < COMMIT_MAX_RETRIES)
  <2>1. Finish(c) /\ txn' = [txn EXCEPT ![c] = NoTransaction]
    BY <1>3 DEF Retry
  <2>2. txn' \in [Client -> Transaction] /\ \A d \in Client \ {c} : txn'[d] = txn[d]
    BY <1>1, <2>1, BoundsAssumption DEF NoTransaction, Transaction
  <2> QED
    BY <2>1, <2>2, FinishType, FitFinish
<1> QED
  BY <1>2, <1>3

LEMMA DropTransactionType ==
  ASSUME TypeOK, NEW c \in Client, Finish(c), txn' = [txn EXCEPT ![c] = NoTransaction]
  PROVE  /\ req' \in [Client -> Request]
         /\ txn' \in [Client -> Transaction]
         /\ RequestsFitPhase'
<1>1. NoTransaction \in Transaction
  BY BoundsAssumption DEF NoTransaction, Transaction
<1>2. txn' \in [Client -> Transaction] /\ \A d \in Client \ {c} : txn'[d] = txn[d]
  BY <1>1 DEF TypeOK
<1> QED
  BY <1>2, FinishType, FitFinish

\* What an attempt holds: prepared changes, in the order of the request.
LEMMA AttemptType ==
  ASSUME TypeOK, NEW c \in Client
  PROVE  /\ txn[c] \in Transaction
         /\ txn[c].prepared \in Seq(Prepared)
         /\ txn[c].changes \in Seq(Change)
         /\ \A i \in DOMAIN txn[c].prepared : txn[c].prepared[i] \in Prepared
  BY DEF TypeOK, Transaction

LEMMA TypeCommitPrepare ==
  ASSUME TypeOK, NEW c \in Client, CommitPrepare(c)
  PROVE  TypeOK'
<1> DEFINE ch  == NextChange(c)
           f   == Append(Base(ch), FreshId(c))
           p   == [tab |-> ch.tab, expected |-> tables[ch.tab], file |-> f]
           all == Append(txn[c].prepared, p)
           r   == [req[c] EXCEPT !.phase =
                     IF Len(all) = Len(txn[c].changes) THEN "swap" ELSE "prepare"]
           x   == [txn[c] EXCEPT !.prepared = all]
<1>1. /\ ~NotFound(ch) /\ WriteFile(c, f)
      /\ txn' = [txn EXCEPT ![c] = x] /\ req' = [req EXCEPT ![c] = r]
      /\ req[c].op = "commit" /\ req[c].phase = "prepare"
  BY DEF CommitPrepare, InPhase
<1>2. ch \in Change
  <2>1. Len(txn[c].prepared) < Len(txn[c].changes)
    BY <1>1 DEF TypeOK, RequestsFitPhase
  <2>2. Len(txn[c].prepared) + 1 \in 1..Len(txn[c].changes)
    BY <2>1, AttemptType
  <2> QED
    BY <2>2, AttemptType DEF NextChange
<1>3. f \in MetadataFile
  <2>1. Base(ch) \in MetadataFile
    BY <1>1 DEF NotFound, TypeOK
  <2> QED
    BY <2>1, FreshIdType DEF MetadataFile
<1>4. p \in Prepared
  <2>1. ch.tab \in Ident /\ tables[ch.tab] \in Record \cup {None}
    BY <1>2 DEF Change, TypeOK
  <2> HIDE DEF f, ch
  <2> QED
    BY <1>3, <2>1 DEF Prepared
<1> HIDE DEF p, f, ch
<1>5. all \in Seq(Prepared) /\ Len(all) = Len(txn[c].prepared) + 1 /\ all # <<>>
  BY <1>4, AttemptType
<1> HIDE DEF all
<1>6. x \in Transaction /\ x.prepared = all /\ x.changes = txn[c].changes
  BY <1>5, AttemptType DEF Transaction
<1>7. /\ r \in Request /\ r.op = "commit"
      /\ r.phase = IF Len(all) = Len(txn[c].changes) THEN "swap" ELSE "prepare"
  <2> DEFINE phase == IF Len(all) = Len(txn[c].changes) THEN "swap" ELSE "prepare"
  <2>1. phase \in Phase
    OBVIOUS
  <2>2. req[c] \in Request
    BY DEF TypeOK
  <2> HIDE DEF phase, Phase, Operation
  <2>3. [req[c] EXCEPT !.phase = phase] \in Request
        /\ [req[c] EXCEPT !.phase = phase].op = req[c].op
        /\ [req[c] EXCEPT !.phase = phase].phase = phase
    BY <2>1, <2>2 DEF Request
  <2> QED
    BY <1>1, <2>3 DEF phase
<1> HIDE DEF r, x
<1>8. req' \in [Client -> Request] /\ txn' \in [Client -> Transaction]
  BY <1>1, <1>6, <1>7 DEF TypeOK
<1>9. Len(all) # Len(txn[c].changes) => Len(all) < Len(txn[c].changes)
  <2>1. Len(txn[c].prepared) < Len(txn[c].changes)
    BY <1>1 DEF TypeOK, RequestsFitPhase
  <2>2. Len(txn[c].prepared) \in Nat /\ Len(txn[c].changes) \in Nat
    BY AttemptType
  <2> QED
    BY <1>5, <2>1, <2>2
<1>10. RequestsFitPhase'
  <2>1. txn'[c] = x /\ req'[c] = r
    BY <1>1 DEF TypeOK
  <2>2. \A d \in Client \ {c} : txn'[d] = txn[d] /\ req'[d] = req[d]
    BY <1>1 DEF TypeOK
  <2> DEFINE Fits(q, y) ==
        q.phase # "idle" =>
          /\ q.op # "commit" => q.tab \in Ident
          /\ q.phase = "move" => q.dest \in Ident
          /\ q.op = "commit" =>
               IF q.phase = "prepare" THEN Len(y.prepared) < Len(y.changes)
               ELSE y.prepared # <<>> /\ Len(y.prepared) = Len(y.changes)
  <2>3. Fits(r, x)
    BY <1>5, <1>6, <1>7, <1>9
  <2>4. \A d \in Client : Fits(req[d], txn[d])
    BY DEF TypeOK, RequestsFitPhase
  <2> HIDE DEF Fits
  <2>5. \A d \in Client : Fits(req'[d], txn'[d])
    BY <2>1, <2>2, <2>3, <2>4
  <2> QED
    BY <2>5 DEF Fits, RequestsFitPhase
<1> QED
  BY <1>1, <1>3, <1>8, <1>10, WriteFileType DEF CommitPrepare, TypeOK, registry

LEMMA NextRecordType ==
  ASSUME NEW p \in Prepared
  PROVE  NextRecord(p) \in Record
  BY DEF Prepared, NextRecord, Record

LEMMA TypeCommitSwap ==
  ASSUME TypeOK, NEW c \in Client, CommitSwap(c)
  PROVE  TypeOK'
<1> DEFINE all == txn[c].prepared
           new(t) == IF SwapOf(c, t) = {} THEN tables[t]
                     ELSE NextRecord(all[CHOOSE i \in SwapOf(c, t) : TRUE])
<1>1. /\ tables' = [t \in Ident |-> new(t)]
      /\ staged' = [t \in Ident |->
            IF \E i \in SwapOf(c, t) : all[i].expected = None THEN None ELSE staged[t]]
      /\ published' = published \cup {<<"table", all[i].file>> : i \in DOMAIN all}
      /\ Finish(c) /\ txn' = [txn EXCEPT ![c] = NoTransaction]
      /\ UNCHANGED <<namespaces, views, files, begun, wrote>>
  BY DEF CommitSwap
<1>2. \A t \in Ident : new(t) \in Record \cup {None}
  <2> TAKE t \in Ident
  <2>1. CASE SwapOf(c, t) = {}
    BY <2>1 DEF TypeOK
  <2>2. CASE SwapOf(c, t) # {}
    <3>1. (CHOOSE i \in SwapOf(c, t) : TRUE) \in DOMAIN all
      BY <2>2 DEF SwapOf
    <3> QED
      BY <2>2, <3>1, AttemptType, NextRecordType
  <2> QED
    BY <2>1, <2>2
<1>3. \A i \in DOMAIN all : all[i].file \in MetadataFile
  BY AttemptType DEF Prepared
<1> HIDE DEF new
<1>4. tables' \in [Ident -> Record \cup {None}]
  BY <1>1, <1>2
<1>5. staged' \in [Ident -> MetadataFile \cup {None}]
  BY <1>1 DEF TypeOK
<1>6. published' \subseteq {"table", "view", "staged"} \X MetadataFile
  BY <1>1, <1>3 DEF TypeOK
<1> QED
  BY <1>1, <1>4, <1>5, <1>6, DropTransactionType DEF TypeOK

LEMMA TypeCommitOthers ==
  ASSUME TypeOK, NEW c \in Client,
         CommitRefused(c) \/ CommitNotFound(c) \/ CommitSwapLost(c) \/ CommitDiscard(c)
  PROVE  TypeOK'
<1>1. CASE CommitRefused(c)
  BY <1>1, RetryType DEF CommitRefused, InPhase, TypeOK, registry
<1>2. CASE CommitNotFound(c)
  BY <1>2, DropTransactionType DEF CommitNotFound, TypeOK, registry
<1>3. CASE CommitSwapLost(c)
  <2>1. PICK phase \in {"discard", "abort"} : req' = [req EXCEPT ![c].phase = phase]
    BY <1>3 DEF CommitSwapLost
  <2>2. [req[c] EXCEPT !.phase = phase] \in Request
        /\ [req[c] EXCEPT !.phase = phase].op = req[c].op
        /\ [req[c] EXCEPT !.phase = phase].phase = phase
    <3>1. req[c] \in Request /\ phase \in Phase
      BY DEF TypeOK
    <3> HIDE DEF Operation, Phase
    <3> QED
      BY <3>1 DEF Request
  <2>3. req' \in [Client -> Request]
    BY <2>1, <2>2 DEF TypeOK
  <2>4. RequestsFitPhase'
    <3>1. /\ txn' = txn /\ req[c].op = "commit" /\ req[c].phase = "swap"
      BY <1>3 DEF CommitSwapLost, InPhase
    <3>2. txn[c].prepared # <<>> /\ Len(txn[c].prepared) = Len(txn[c].changes)
      BY <3>1 DEF TypeOK, RequestsFitPhase
    <3>3. req'[c].op = "commit" /\ req'[c].phase = phase
      BY <2>1, <2>2, <3>1 DEF TypeOK
    <3>4. \A d \in Client \ {c} : req'[d] = req[d]
      BY <2>1 DEF TypeOK
    <3>5. phase \notin {"prepare", "move"}
      OBVIOUS
    <3> HIDE DEF Operation, Phase
    <3> QED
      BY <3>1, <3>2, <3>3, <3>4, <3>5 DEF TypeOK, RequestsFitPhase
  <2> QED
    BY <1>3, <2>3, <2>4 DEF CommitSwapLost, TypeOK, registry
<1>4. CASE CommitDiscard(c)
  <2>1. /\ req' \in [Client -> Request] /\ txn' \in [Client -> Transaction]
        /\ RequestsFitPhase'
    <3>1. CASE req[c].phase = "discard" /\ Retry(c)
      BY <1>4, <3>1, RetryType DEF CommitDiscard
    <3>2. CASE Finish(c) /\ txn' = [txn EXCEPT ![c] = NoTransaction]
      BY <3>2, DropTransactionType
    <3> QED
      BY <1>4, <3>1, <3>2 DEF CommitDiscard
  <2> QED
    BY <1>4, <2>1 DEF CommitDiscard, TypeOK, registry
<1> QED
  BY <1>1, <1>2, <1>3, <1>4

LEMMA TypeNext == TypeOK /\ [Next]_vars => TypeOK'
<1> SUFFICES ASSUME TypeOK, [Next]_vars PROVE TypeOK'
  OBVIOUS
<1>1. CASE Immediate
  BY <1>1, TypeNamespaces, TypeDrops DEF Immediate
<1>2. ASSUME NEW c \in Client, Arrive(c) PROVE TypeOK'
  BY <1>2, TypeArrivals, TypeCommitStart DEF Arrive
<1>3. ASSUME NEW c \in Client, Continue(c) PROVE TypeOK'
  BY <1>3, TypeFirstFile, TypeTableSteps, TypeRegisterRead, TypeViewSteps,
     TypeUpdateViewPrepare, TypeCommitPrepare, TypeCommitSwap, TypeCommitOthers
  DEF Continue
<1>4. ASSUME NEW c \in Client, Abandon(c) PROVE TypeOK'
  BY <1>4, TypeAbandon
<1>5. CASE UNCHANGED vars
  BY <1>5 DEF vars, TypeOK, RequestsFitPhase
<1> QED
  BY <1>1, <1>2, <1>3, <1>4, <1>5 DEF Next

\* Every reachable state is well typed: whatever is interleaved, no handler of
\* redb.rs is left holding something that its next step does not expect.
THEOREM TypeCorrect == Spec => []TypeOK
  BY TypeInit, TypeNext, PTL DEF Spec

HIDE DEF Operation, Phase

-----------------------------------------------------------------------------
(* One kind per name.  Inductive over TypeOK: every insert looks at both     *)
(* relations inside its own transaction.                                     *)

\* The steps that leave both relations as they are.
LEMMA NamesUntouched ==
  ASSUME OneKindPerName, UNCHANGED <<tables, views>>
  PROVE  OneKindPerName'
  BY DEF OneKindPerName

LEMMA OneKindArrive ==
  ASSUME OneKindPerName, NEW c \in Client, Arrive(c)
  PROVE  OneKindPerName'
<1>1. UNCHANGED registry
  BY DEF Arrive, CreateTableStart, StageCreateStart, CreateStart, RegisterTableStart,
         PurgeTableLoad, PurgeStart, RenameTableStart, CommitStart, CreateViewStart,
         RegisterViewStart, UpdateViewStart, RenameViewStart
<1> QED
  BY <1>1, NamesUntouched DEF registry

LEMMA OneKindTables ==
  ASSUME TypeOK, OneKindPerName, NEW c \in Client,
         \/ CreateTableInsert(c) \/ RegisterTableInsert(c) \/ PurgeTableDrop(c)
         \/ RenameTableMove(c)
  PROVE  OneKindPerName'
<1>1. views' = views
  BY DEF CreateTableInsert, RegisterTableInsert, PurgeTableDrop, RenameTableMove
<1>2. CASE CreateTableInsert(c) \/ RegisterTableInsert(c)
  BY <1>1, <1>2 DEF CreateTableInsert, RegisterTableInsert, InsertTable, NameTaken,
                    OneKindPerName, TypeOK
<1>3. CASE PurgeTableDrop(c)
  BY <1>1, <1>3 DEF PurgeTableDrop, OneKindPerName, TypeOK
<1>4. CASE RenameTableMove(c)
  BY <1>1, <1>4 DEF RenameTableMove, NameTaken, OneKindPerName, TypeOK
<1> QED
  BY <1>2, <1>3, <1>4

LEMMA OneKindViews ==
  ASSUME TypeOK, OneKindPerName, NEW c \in Client,
         ViewInsert(c) \/ UpdateViewSwap(c) \/ RenameViewMove(c)
  PROVE  OneKindPerName'
<1>1. tables' = tables
  BY DEF ViewInsert, UpdateViewSwap, RenameViewMove
<1>2. CASE ViewInsert(c)
  BY <1>1, <1>2 DEF ViewInsert, InsertView, NameTaken, OneKindPerName, TypeOK
<1>3. CASE UpdateViewSwap(c)
  BY <1>1, <1>3 DEF UpdateViewSwap, Unmoved, OneKindPerName, TypeOK
<1>4. CASE RenameViewMove(c)
  BY <1>1, <1>4 DEF RenameViewMove, NameTaken, OneKindPerName, TypeOK
<1> QED
  BY <1>2, <1>3, <1>4

LEMMA OneKindCommit ==
  ASSUME TypeOK, OneKindPerName, NEW c \in Client, CommitSwap(c)
  PROVE  OneKindPerName'
<1> SUFFICES ASSUME NEW t \in Ident PROVE tables'[t] = None \/ views'[t] = None
  BY DEF OneKindPerName
<1>1. views' = views
  BY DEF CommitSwap
<1>2. CASE SwapOf(c, t) = {}
  BY <1>1, <1>2 DEF CommitSwap, OneKindPerName
<1>3. CASE SwapOf(c, t) # {}
  <2>1. PICK i \in DOMAIN txn[c].prepared : txn[c].prepared[i].tab = t
    BY <1>3 DEF SwapOf
  <2>2. Lands(txn[c].prepared[i])
    BY <2>1 DEF CommitSwap, Refused
  <2> QED
    BY <1>1, <2>1, <2>2 DEF Lands, NameTaken, OneKindPerName
<1> QED
  BY <1>2, <1>3

LEMMA OneKindNext == TypeOK /\ OneKindPerName /\ [Next]_vars => OneKindPerName'
<1> SUFFICES ASSUME TypeOK, OneKindPerName, [Next]_vars PROVE OneKindPerName'
  OBVIOUS
<1>1. CASE Immediate
  BY <1>1 DEF Immediate, CreateNamespace, DropNamespace, DropTable, DropView,
              OneKindPerName, TypeOK
<1>2. ASSUME NEW c \in Client, Arrive(c) PROVE OneKindPerName'
  BY <1>2, OneKindArrive
<1>3. ASSUME NEW c \in Client, Continue(c) PROVE OneKindPerName'
  <2>1. CASE \/ CreateTablePrepare(c) \/ StageCreatePrepare(c) \/ StageCreateInsert(c)
             \/ \E k \in published : RegisterTableRead(c, k[2]) \/ RegisterViewRead(c, k[2])
             \/ PurgeTableDelete(c) \/ CommitPrepare(c) \/ CommitRefused(c)
             \/ CommitNotFound(c) \/ CommitSwapLost(c) \/ CommitDiscard(c)
             \/ CreateViewPrepare(c) \/ UpdateViewPrepare(c)
    <3>1. UNCHANGED <<tables, views>>
      BY <2>1 DEF CreateTablePrepare, StageCreatePrepare, StageCreateInsert,
        RegisterTableRead, RegisterViewRead, PurgeTableDelete, CommitPrepare,
        CommitRefused, CommitNotFound, CommitSwapLost, CommitDiscard, CreateViewPrepare,
        UpdateViewPrepare, registry
    <3> QED
      BY <3>1, NamesUntouched
  <2>2. CASE \/ CreateTableInsert(c) \/ RegisterTableInsert(c) \/ PurgeTableDrop(c)
             \/ RenameTableMove(c)
    BY <2>2, OneKindTables
  <2>3. CASE ViewInsert(c) \/ UpdateViewSwap(c) \/ RenameViewMove(c)
    BY <2>3, OneKindViews
  <2>4. CASE CommitSwap(c)
    BY <2>4, OneKindCommit
  <2> QED
    BY <1>3, <2>1, <2>2, <2>3, <2>4 DEF Continue
<1>4. ASSUME NEW c \in Client, Abandon(c) PROVE OneKindPerName'
  BY <1>4, NamesUntouched DEF Abandon, registry
<1>5. CASE UNCHANGED vars
  BY <1>5, NamesUntouched DEF vars
<1> QED
  BY <1>1, <1>2, <1>3, <1>4, <1>5 DEF Next

\* A name is a table or a view and never both, for any mix of requests
\* (reject_taken_name and the create branch of the swap, redb.rs:182-198, 1759-1778).
THEOREM OneKindHolds == Spec => []OneKindPerName
<1>1. Init => OneKindPerName
  BY NamesAssumption DEF Init, SeedRecords, OneKindPerName
<1> QED
  BY <1>1, OneKindNext, TypeCorrect, PTL DEF Spec

-----------------------------------------------------------------------------
(* The namespace tree: only two steps change it, each in one transaction.    *)

LEMMA NamespacesNext == NamespaceTree /\ [Next]_vars => NamespaceTree'
<1> SUFFICES ASSUME NamespaceTree, [Next]_vars PROVE NamespaceTree'
  OBVIOUS
<1>1. ASSUME NEW n \in Namespace, CreateNamespace(n) PROVE NamespaceTree'
  BY <1>1 DEF CreateNamespace, NamespaceTree
<1>2. ASSUME NEW n \in Namespace, DropNamespace(n) PROVE NamespaceTree'
  BY <1>2 DEF DropNamespace, HoldsNothing, NamespaceTree
<1>3. CASE UNCHANGED namespaces
  BY <1>3 DEF NamespaceTree
<1>4. ASSUME NEW t \in Ident, DropTable(t) \/ DropView(t) PROVE UNCHANGED namespaces
  BY <1>4 DEF DropTable, DropView
<1>5. ASSUME NEW c \in Client, Arrive(c) PROVE UNCHANGED namespaces
  BY <1>5 DEF Arrive, CreateTableStart, StageCreateStart, CreateStart, RegisterTableStart,
    PurgeTableLoad, PurgeStart, RenameTableStart, CommitStart, CreateViewStart,
    RegisterViewStart, UpdateViewStart, RenameViewStart, registry
<1>6. ASSUME NEW c \in Client, Continue(c) PROVE UNCHANGED namespaces
  BY <1>6 DEF Continue, CreateTablePrepare, CreateTableInsert, StageCreatePrepare,
    StageCreateInsert, RegisterTableRead, RegisterTableInsert, PurgeTableDrop,
    PurgeTableDelete, RenameTableMove, CommitPrepare, CommitRefused, CommitNotFound,
    CommitSwap, CommitSwapLost, CommitDiscard, CreateViewPrepare, RegisterViewRead,
    ViewInsert, UpdateViewPrepare, UpdateViewSwap, RenameViewMove, registry
<1>7. ASSUME NEW c \in Client, Abandon(c) PROVE UNCHANGED namespaces
  BY <1>7 DEF Abandon, registry
<1> QED
  BY <1>1, <1>2, <1>3, <1>4, <1>5, <1>6, <1>7 DEF Next, Immediate, vars

\* No namespace outlives its parent: create_namespace and drop_namespace look at
\* both ends inside their transactions (redb.rs:664-719, 770-854).
THEOREM NamespaceTreeHolds == Spec => []NamespaceTree
<1>1. Init => NamespaceTree
  BY NamesAssumption DEF Init, NamespaceTree
<1> QED
  BY <1>1, NamespacesNext, PTL DEF Spec

-----------------------------------------------------------------------------
(* No lost commit.  What makes the swap safe is not the version check alone   *)
(* but what was prepared for it: every file a handler holds for an existing  *)
(* record was written onto that very record's file.                          *)

PreparedOnto ==
  \A c \in Client : \A i \in DOMAIN txn[c].prepared :
    LET p == txn[c].prepared[i]
    IN p.expected # None => WrittenOnto(p.file, p.expected.file)

UpdatesOnto ==
  \A c \in Client : req[c].op = "update_view" /\ req[c].phase = "swap" =>
    req[c].expected # None /\ WrittenOnto(req[c].file, req[c].expected.file)

LEMMA AppendIsOnto ==
  ASSUME NEW f \in MetadataFile, NEW w \in WriteId
  PROVE  WrittenOnto(Append(f, w), f)
<1> DEFINE g == Append(f, w)
<1>1. f \in Seq(WriteId) /\ g \in Seq(WriteId) /\ Len(g) = Len(f) + 1
      /\ \A i \in 1..Len(f) : g[i] = f[i]
  BY AppendProperties DEF MetadataFile
<1>2. Len(f) \in Nat
  BY <1>1, LenProperties
<1> HIDE DEF g
<1>3. SubSeq(g, 1, Len(f)) \in Seq(WriteId) /\ Len(SubSeq(g, 1, Len(f))) = Len(f)
      /\ \A i \in 1..Len(f) : SubSeq(g, 1, Len(f))[i] = f[i]
  <2>1. \A i \in 1..Len(f) : i \in 1..Len(g)
    BY <1>1, <1>2
  <2> QED
    BY <1>1, <1>2, <2>1
<1>4. SubSeq(g, 1, Len(f)) = f
  BY <1>1, <1>3, SeqEqual
<1> QED
  BY <1>1, <1>4 DEF WrittenOnto, g

\* A step that leaves its client anywhere but at the swap of a view update.
LEMMA UpdatesElsewhere ==
  ASSUME TypeOK, UpdatesOnto, NEW c \in Client, NEW r, req' = [req EXCEPT ![c] = r],
         r.op # "update_view" \/ r.phase # "swap"
  PROVE  UpdatesOnto'
  BY DEF TypeOK, UpdatesOnto

LEMMA UpdatesFinish ==
  ASSUME TypeOK, UpdatesOnto, NEW c \in Client, Finish(c)
  PROVE  UpdatesOnto'
  BY UpdatesElsewhere DEF Finish, Idle

LEMMA UpdatesAdvance ==
  ASSUME TypeOK, UpdatesOnto, NEW c \in Client, NEW phase, NEW f,
         Advance(c, phase, f), phase # "swap"
  PROVE  UpdatesOnto'
<1> DEFINE r == [req[c] EXCEPT !.phase = phase, !.file = f]
<1>1. r.phase = phase
  BY DEF TypeOK, Request
<1>2. req' = [req EXCEPT ![c] = r]
  BY DEF Advance
<1> HIDE DEF r
<1> QED
  BY <1>1, <1>2, UpdatesElsewhere

LEMMA UpdatesCommit ==
  ASSUME TypeOK, UpdatesOnto, NEW c \in Client, NEW phase, req[c].op = "commit",
         req' = [req EXCEPT ![c].phase = phase]
  PROVE  UpdatesOnto'
<1> DEFINE r == [req[c] EXCEPT !.phase = phase]
<1>1. r.op = "commit"
  BY DEF TypeOK, Request
<1> HIDE DEF r
<1> QED
  BY <1>1, UpdatesElsewhere DEF r

LEMMA UpdatesBegin ==
  ASSUME TypeOK, UpdatesOnto, NEW c \in Client, Arrive(c)
  PROVE  UpdatesOnto'
<1>1. ASSUME NEW r, Begin(c, r), r.phase # "swap" PROVE UpdatesOnto'
  BY <1>1, UpdatesElsewhere DEF Begin
<1>2. ASSUME NEW t, NEW op, NEW phase, phase # "swap" PROVE On(op, phase, t).phase # "swap"
  BY <1>2 DEF On, Idle
<1>3. ASSUME NEW t, NEW op, NEW phase, NEW f, phase # "swap"
      PROVE  [On(op, phase, t) EXCEPT !.file = f].phase # "swap"
  BY <1>3 DEF On, Idle
<1>4. ASSUME NEW t, NEW op, NEW d PROVE [On(op, "move", t) EXCEPT !.dest = d].phase # "swap"
  BY <1>4 DEF On, Idle
<1>5. CASE \E t \in Ident : \/ CreateTableStart(c, t) \/ StageCreateStart(c, t)
                            \/ RegisterTableStart(c, t) \/ CreateViewStart(c, t)
                            \/ RegisterViewStart(c, t)
  BY <1>1, <1>2, <1>5 DEF CreateTableStart, StageCreateStart, CreateStart,
     RegisterTableStart, CreateViewStart, RegisterViewStart
<1>6. CASE \E t \in Ident : PurgeTableLoad(c, t) \/ UpdateViewStart(c, t)
  BY <1>1, <1>3, <1>6 DEF PurgeTableLoad, PurgeStart, UpdateViewStart
<1>7. CASE \E s, d \in Ident : RenameTableStart(c, s, d) \/ RenameViewStart(c, s, d)
  BY <1>1, <1>4, <1>7 DEF RenameTableStart, RenameViewStart
<1>8. CASE CommitStart(c)
  <2>1. [Idle EXCEPT !.op = "commit", !.phase = "prepare"].phase # "swap"
    BY DEF Idle
  <2> QED
    BY <1>1, <1>8, <2>1 DEF CommitStart
<1> QED
  BY <1>5, <1>6, <1>7, <1>8 DEF Arrive

LEMMA UpdatesPrepare ==
  ASSUME TypeOK, UpdatesOnto, NEW c \in Client, UpdateViewPrepare(c)
  PROVE  UpdatesOnto'
<1>1. CASE WitnessHolds(c)
  <2> DEFINE f == Append(req[c].file, FreshId(c))
             r == [req[c] EXCEPT !.phase = "swap", !.file = f, !.expected = views[req[c].tab]]
  <2>1. req' = [req EXCEPT ![c] = r]
    BY <1>1 DEF UpdateViewPrepare
  <2>2. r.file = f /\ r.expected = views[req[c].tab]
    BY DEF TypeOK, Request
  <2>3. req[c].file \in MetadataFile
    BY DEF TypeOK, Request
  <2>4. WrittenOnto(f, req[c].file)
    BY <2>3, FreshIdType, AppendIsOnto
  <2>5. r.expected # None /\ r.expected.file = req[c].file
    BY <1>1, <2>2 DEF WitnessHolds
  <2> HIDE DEF f, r
  <2> QED
    BY <2>1, <2>2, <2>4, <2>5 DEF TypeOK, UpdatesOnto
<1>2. CASE ~WitnessHolds(c)
  BY <1>2, UpdatesFinish DEF UpdateViewPrepare
<1> QED
  BY <1>1, <1>2

LEMMA UpdatesRetry ==
  ASSUME TypeOK, UpdatesOnto, NEW c \in Client, req[c].op = "commit", Retry(c)
  PROVE  UpdatesOnto'
  BY UpdatesCommit, UpdatesFinish DEF Retry

LEMMA UpdatesNext == TypeOK /\ UpdatesOnto /\ [Next]_vars => UpdatesOnto'
<1> SUFFICES ASSUME TypeOK, UpdatesOnto, [Next]_vars PROVE UpdatesOnto'
  OBVIOUS
<1>1. CASE Immediate \/ UNCHANGED vars
  BY <1>1 DEF Immediate, CreateNamespace, DropNamespace, DropTable, DropView, clients,
              vars, UpdatesOnto
<1>2. ASSUME NEW c \in Client, Arrive(c) PROVE UpdatesOnto'
  BY <1>2, UpdatesBegin
<1>3. ASSUME NEW c \in Client, Continue(c) PROVE UpdatesOnto'
  <2>1. CASE CreateTablePrepare(c) \/ StageCreatePrepare(c) \/ CreateViewPrepare(c)
             \/ \E k \in published : RegisterTableRead(c, k[2]) \/ RegisterViewRead(c, k[2])
    <3>1. PICK f : Finish(c) \/ Advance(c, "insert", f)
      BY <2>1 DEF CreateTablePrepare, StageCreatePrepare, FirstFile, CreateViewPrepare,
                  RegisterTableRead, RegisterViewRead
    <3>2. "insert" # "swap"
      OBVIOUS
    <3> QED
      BY <3>1, <3>2, UpdatesFinish, UpdatesAdvance, Zenon
  <2>2. CASE CreateTableInsert(c) \/ StageCreateInsert(c) \/ RegisterTableInsert(c)
             \/ PurgeTableDrop(c) \/ PurgeTableDelete(c) \/ RenameTableMove(c)
    <3>1. Finish(c) \/ Advance(c, "delete", req[c].file)
      BY <2>2 DEF CreateTableInsert, StageCreateInsert, RegisterTableInsert,
                  PurgeTableDrop, PurgeTableDelete, RenameTableMove
    <3>2. "delete" # "swap"
      OBVIOUS
    <3> QED
      BY <3>1, <3>2, UpdatesFinish, UpdatesAdvance, Zenon
  <2>3. CASE ViewInsert(c) \/ UpdateViewSwap(c) \/ RenameViewMove(c)
    BY <2>3, UpdatesFinish DEF ViewInsert, UpdateViewSwap, RenameViewMove
  <2>4. CASE UpdateViewPrepare(c)
    BY <2>4, UpdatesPrepare
  <2>5. CASE CommitPrepare(c) \/ CommitSwapLost(c)
    BY <2>5, UpdatesCommit DEF CommitPrepare, CommitSwapLost, InPhase
  <2>6. CASE CommitRefused(c) \/ CommitDiscard(c)
    BY <2>6, UpdatesRetry, UpdatesFinish DEF CommitRefused, CommitDiscard, InPhase
  <2>7. CASE CommitNotFound(c) \/ CommitSwap(c)
    BY <2>7, UpdatesFinish DEF CommitNotFound, CommitSwap
  <2> QED
    BY <1>3, <2>1, <2>2, <2>3, <2>4, <2>5, <2>6, <2>7 DEF Continue
<1>4. ASSUME NEW c \in Client, Abandon(c) PROVE UpdatesOnto'
  BY <1>4, UpdatesFinish DEF Abandon
<1> QED
  BY <1>1, <1>2, <1>3, <1>4 DEF Next

LEMMA PreparedDropped ==
  ASSUME TypeOK, PreparedOnto, NEW c \in Client, NEW x, txn' = [txn EXCEPT ![c] = x],
         x.prepared = <<>>
  PROVE  PreparedOnto'
<1>1. txn'[c] = x /\ \A d \in Client \ {c} : txn'[d] = txn[d]
  BY DEF TypeOK
<1>2. DOMAIN x.prepared = {}
  OBVIOUS
<1> QED
  BY <1>1, <1>2 DEF PreparedOnto

LEMMA PreparedRetry ==
  ASSUME TypeOK, PreparedOnto, NEW c \in Client,
         Retry(c) \/ txn' = [txn EXCEPT ![c] = NoTransaction]
  PROVE  PreparedOnto'
<1>1. NoTransaction.prepared = <<>> /\ \A x, n : Attempt(x, n).prepared = <<>>
  BY DEF NoTransaction, Attempt
<1> QED
  BY <1>1, PreparedDropped DEF Retry

LEMMA PreparedPrepare ==
  ASSUME TypeOK, PreparedOnto, NEW c \in Client, CommitPrepare(c)
  PROVE  PreparedOnto'
<1> DEFINE ch  == NextChange(c)
           f   == Append(Base(ch), FreshId(c))
           p   == [tab |-> ch.tab, expected |-> tables[ch.tab], file |-> f]
           old == txn[c].prepared
           all == Append(old, p)
           x   == [txn[c] EXCEPT !.prepared = all]
<1>1. ~NotFound(ch) /\ txn' = [txn EXCEPT ![c] = x]
  BY DEF CommitPrepare
<1>2. p.expected # None => WrittenOnto(p.file, p.expected.file)
  <2>1. Base(ch) \in MetadataFile
    BY <1>1 DEF NotFound, TypeOK
  <2>2. tables[ch.tab] # None => Base(ch) = tables[ch.tab].file
    BY DEF Base
  <2> QED
    BY <2>1, <2>2, FreshIdType, AppendIsOnto
<1>3. old \in Seq(Prepared)
  BY AttemptType
<1>4. \A i \in DOMAIN all : all[i] = p \/ (i \in DOMAIN old /\ all[i] = old[i])
  BY <1>3
<1>5. x.prepared = all
  BY AttemptType DEF Transaction
<1> HIDE DEF p, all, x
<1>6. txn'[c].prepared = all /\ \A d \in Client \ {c} : txn'[d] = txn[d]
  BY <1>1, <1>5 DEF TypeOK
<1> QED
  BY <1>2, <1>4, <1>6 DEF PreparedOnto

LEMMA PreparedNext == TypeOK /\ PreparedOnto /\ [Next]_vars => PreparedOnto'
<1> SUFFICES ASSUME TypeOK, PreparedOnto, [Next]_vars PROVE PreparedOnto'
  OBVIOUS
<1>1. CASE txn' = txn
  BY <1>1 DEF PreparedOnto
<1>2. CASE Immediate \/ UNCHANGED vars
  BY <1>1, <1>2 DEF Immediate, CreateNamespace, DropNamespace, DropTable, DropView, clients, vars
<1>3. ASSUME NEW c \in Client, Arrive(c) PROVE PreparedOnto'
  <2>1. CASE CommitStart(c)
    <3>1. PICK changes : txn' = [txn EXCEPT ![c] = Attempt(changes, 1)]
      BY <2>1 DEF CommitStart
    <3>2. Attempt(changes, 1).prepared = <<>>
      BY DEF Attempt
    <3> QED
      BY <3>1, <3>2, PreparedDropped
  <2>2. CASE ~CommitStart(c)
    BY <1>1, <1>3, <2>2 DEF Arrive, CreateTableStart, StageCreateStart, CreateStart,
       RegisterTableStart, PurgeTableLoad, PurgeStart, RenameTableStart, CreateViewStart,
       RegisterViewStart, UpdateViewStart, RenameViewStart
  <2> QED
    BY <2>1, <2>2
<1>4. ASSUME NEW c \in Client, Continue(c) PROVE PreparedOnto'
  <2>1. CASE CommitPrepare(c)
    BY <2>1, PreparedPrepare
  <2>2. CASE CommitRefused(c) \/ CommitNotFound(c) \/ CommitSwap(c) \/ CommitDiscard(c)
    BY <2>2, PreparedRetry DEF CommitRefused, CommitNotFound, CommitSwap, CommitDiscard
  <2>3. CASE ~CommitPrepare(c) /\ ~CommitRefused(c) /\ ~CommitNotFound(c) /\ ~CommitSwap(c)
             /\ ~CommitDiscard(c)
    BY <1>1, <1>4, <2>3 DEF Continue, CreateTablePrepare, CreateTableInsert,
       StageCreatePrepare, StageCreateInsert, RegisterTableRead, RegisterTableInsert,
       PurgeTableDrop, PurgeTableDelete, RenameTableMove, CommitSwapLost,
       CreateViewPrepare, RegisterViewRead, ViewInsert, UpdateViewPrepare,
       UpdateViewSwap, RenameViewMove
  <2> QED
    BY <2>1, <2>2, <2>3
<1>5. ASSUME NEW c \in Client, Abandon(c) PROVE PreparedOnto'
  BY <1>5, PreparedRetry DEF Abandon
<1> QED
  BY <1>2, <1>3, <1>4, <1>5 DEF Next

\* Only an insert where nothing was, a rename onto a free name and a swap change
\* what is under a name, and only a swap changes it for a name that stays.
LEMMA SwapGrows ==
  ASSUME TypeOK, PreparedOnto, NEW c \in Client, CommitSwap(c)
  PROVE  PointersGrow
<1> SUFFICES ASSUME NEW t \in Live \cap Live', tables'[t].file # tables[t].file
             PROVE  WrittenOnto(tables'[t].file, tables[t].file)
  BY DEF CommitSwap, PointersGrow, LiveViews
<1>1. t \in Ident /\ tables[t] # None
  BY DEF Live
<1>2. CASE SwapOf(c, t) = {}
  BY <1>1, <1>2 DEF CommitSwap
<1>3. CASE SwapOf(c, t) # {}
  <2> DEFINE i == CHOOSE j \in SwapOf(c, t) : TRUE
             p == txn[c].prepared[i]
  <2>1. i \in DOMAIN txn[c].prepared /\ p.tab = t
    BY <1>3 DEF SwapOf
  <2>2. tables'[t] = NextRecord(p)
    BY <1>1, <1>3 DEF CommitSwap
  <2> HIDE DEF i
  <2>3. Lands(p)
    BY <2>1 DEF CommitSwap, Refused
  <2>4. p.expected # None /\ tables[t] = p.expected
    BY <1>1, <2>1, <2>3 DEF Lands, NameTaken
  <2>5. tables'[t].file = p.file
    BY <2>2 DEF NextRecord
  <2> QED
    BY <2>1, <2>4, <2>5 DEF PreparedOnto
<1> QED
  BY <1>2, <1>3

LEMMA ViewSwapGrows ==
  ASSUME TypeOK, UpdatesOnto, NEW c \in Client, UpdateViewSwap(c)
  PROVE  PointersGrow
<1> SUFFICES ASSUME NEW v \in LiveViews \cap LiveViews', views'[v].file # views[v].file
             PROVE  WrittenOnto(views'[v].file, views[v].file)
  BY DEF UpdateViewSwap, PointersGrow, Live
<1>1. v \in Ident /\ views \in [Ident -> Record \cup {None}] /\ req[c].tab \in Ident
  BY InFlight DEF LiveViews, TypeOK, UpdateViewSwap, InPhase
<1>2. Unmoved(c) /\ v = req[c].tab
  BY <1>1 DEF UpdateViewSwap
<1>3. views'[v].file = req[c].file /\ views[v] = req[c].expected
  BY <1>1, <1>2 DEF UpdateViewSwap, Unmoved
<1> QED
  BY <1>3 DEF UpdatesOnto, UpdateViewSwap, InPhase

LEMMA OthersKeep ==
  ASSUME TypeOK, [Next]_vars,
         \A c \in Client : ~CommitSwap(c) /\ ~UpdateViewSwap(c)
  PROVE  PointersGrow
<1>1. SUFFICES /\ \A t \in Live \cap Live' : tables'[t] = tables[t]
               /\ \A v \in LiveViews \cap LiveViews' : views'[v] = views[v]
  BY DEF PointersGrow
<1>2. CASE UNCHANGED <<tables, views>>
  BY <1>2
<1>3. CASE Immediate \/ UNCHANGED vars
  BY <1>2, <1>3 DEF Immediate, CreateNamespace, DropNamespace, DropTable, DropView,
     TypeOK, Live, LiveViews, vars
<1>4. ASSUME NEW c \in Client, Arrive(c) \/ Abandon(c) PROVE UNCHANGED <<tables, views>>
  BY <1>4 DEF Arrive, Abandon, CreateTableStart, StageCreateStart, CreateStart,
     RegisterTableStart, PurgeTableLoad, PurgeStart, RenameTableStart, CommitStart,
     CreateViewStart, RegisterViewStart, UpdateViewStart, RenameViewStart, registry
<1>5. ASSUME NEW c \in Client, Continue(c)
      PROVE  /\ \A t \in Live \cap Live' : tables'[t] = tables[t]
             /\ \A v \in LiveViews \cap LiveViews' : views'[v] = views[v]
  <2>1. CASE CreateTableInsert(c) \/ RegisterTableInsert(c)
    BY <2>1 DEF CreateTableInsert, RegisterTableInsert, InsertTable, NameTaken, TypeOK, Live,
                LiveViews
  <2>2. CASE PurgeTableDrop(c)
    BY <2>2 DEF PurgeTableDrop, TypeOK, Live, LiveViews
  <2>3. CASE RenameTableMove(c)
    BY <2>3 DEF RenameTableMove, NameTaken, TypeOK, Live, LiveViews
  <2>4. CASE ViewInsert(c)
    BY <2>4 DEF ViewInsert, InsertView, NameTaken, TypeOK, Live, LiveViews
  <2>5. CASE RenameViewMove(c)
    BY <2>5 DEF RenameViewMove, NameTaken, TypeOK, Live, LiveViews
  <2>6. CASE ~CreateTableInsert(c) /\ ~RegisterTableInsert(c) /\ ~PurgeTableDrop(c)
             /\ ~RenameTableMove(c) /\ ~ViewInsert(c) /\ ~RenameViewMove(c)
    BY <1>2, <1>5, <2>6 DEF Continue, CreateTablePrepare, StageCreatePrepare,
       StageCreateInsert, RegisterTableRead, PurgeTableDelete, CommitPrepare,
       CommitRefused, CommitNotFound, CommitSwapLost, CommitDiscard, CreateViewPrepare,
       RegisterViewRead, UpdateViewPrepare, registry
  <2> QED
    BY <2>1, <2>2, <2>3, <2>4, <2>5, <2>6
<1> QED
  BY <1>1, <1>2, <1>3, <1>4, <1>5 DEF Next

\* No commit is lost, however many writers race on however many names: a pointer
\* that stays under its name only ever moves to a file written onto the one it
\* was at (redb.rs:1569-1794 for tables, 1400-1474 for views).
THEOREM LinearHistoryHolds == Spec => LinearHistory
<1>1. Init => PreparedOnto /\ UpdatesOnto
  BY DEF Init, PreparedOnto, UpdatesOnto, NoTransaction, Idle
<1>2. TypeOK /\ PreparedOnto /\ UpdatesOnto /\ [Next]_vars => PointersGrow
  BY SwapGrows, ViewSwapGrows, OthersKeep
<1>3. TypeOK /\ PreparedOnto /\ UpdatesOnto /\ [Next]_vars => [PointersGrow]_vars
  BY <1>2
<1>4. Spec => []PreparedOnto /\ []UpdatesOnto
  BY <1>1, TypeCorrect, PreparedNext, UpdatesNext, PTL DEF Spec
<1> QED
  BY <1>3, <1>4, TypeCorrect, PTL DEF Spec, LinearHistory

-----------------------------------------------------------------------------
(* Where the pointers that requests carry come from                          *)

\* The files a request has written and no record points at yet.
Pending(r, x) ==
  (IF \/ r.op \in {"create_table", "stage_create_table", "create_view"} /\ r.phase = "insert"
      \/ r.op = "update_view" /\ r.phase = "swap"
   THEN {r.file} ELSE {})
  \cup {x.prepared[i].file : i \in DOMAIN x.prepared}

\* c wrote the file, among the first w it wrote, and no record has pointed at it.
Unseen(c, f, w, pub) ==
  /\ f # <<>> /\ \E n \in 1..w : f[Len(f)] = <<c, n>>
  /\ \A k \in pub : k[2] # f

\* A table that a commit creates is made of what was staged.
FromStaging(p, pub) ==
  p.expected = None => \E k \in pub : k[1] = "staged" /\ WrittenOnto(p.file, k[2])

\* An attempt prepares the changes of its request in their order, each of another table.
InOrder(x) ==
  /\ \A i, j \in DOMAIN x.changes : x.changes[i].tab = x.changes[j].tab => i = j
  /\ \A i \in DOMAIN x.prepared :
       i \in DOMAIN x.changes /\ x.prepared[i].tab = x.changes[i].tab

Made(c, r, x, w, pub) ==
  /\ \A f \in Pending(r, x) : Unseen(c, f, w, pub)
  /\ r.op = "register_table" /\ r.phase = "insert" => <<"table", r.file>> \in pub
  /\ r.op = "register_view" /\ r.phase = "insert" => <<"view", r.file>> \in pub
  /\ \A i \in DOMAIN x.prepared : FromStaging(x.prepared[i], pub)
  /\ r.phase = "idle" \/ r.op # "commit" => x.prepared = <<>>
  /\ InOrder(x)

\* No record points at a file that is yet to be written.
NotAhead ==
  \A k \in published, c \in Client :
    \A n \in Nat : k[2] # <<>> /\ k[2][Len(k[2])] = <<c, n>> => n <= wrote[c]

StagingsKnown == \A t \in Ident : staged[t] # None => <<"staged", staged[t]>> \in published

MadeInv ==
  /\ NotAhead
  /\ StagingsKnown
  /\ \A c \in Client : Made(c, req[c], txn[c], wrote[c], published)

\* A file just written, on top of another or as a first one.
LEMMA AppendMakes ==
  ASSUME NEW f \in MetadataFile, NEW w \in WriteId
  PROVE  /\ Append(f, w) # <<>> /\ Append(f, w)[Len(Append(f, w))] = w
         /\ <<w>> # <<>> /\ <<w>>[Len(<<w>>)] = w
  BY DEF MetadataFile

LEMMA FreshUnseen ==
  ASSUME TypeOK, NotAhead, NEW c \in Client, NEW f, f # <<>>, f[Len(f)] = FreshId(c)
  PROVE  Unseen(c, f, wrote[c] + 1, published)
<1>1. wrote[c] \in Nat /\ wrote[c] + 1 \in 1..(wrote[c] + 1) /\ ~(wrote[c] + 1 <= wrote[c])
  BY DEF TypeOK
<1>2. \A k \in published : k[2] # f
  BY <1>1 DEF NotAhead, FreshId
<1> QED
  BY <1>1, <1>2 DEF Unseen, FreshId

\* What is known of a request stays known while others write and publish.
LEMMA MadeStays ==
  ASSUME NEW d \in Client, NEW r, NEW x, NEW w \in Nat, NEW v \in Nat, w <= v,
         NEW pub, NEW more, pub \subseteq more, Made(d, r, x, w, pub),
         \A k \in more : k \in pub \/ k[2] \notin Pending(r, x)
  PROVE  Made(d, r, x, v, more)
<1>1. \A f \in Pending(r, x) : Unseen(d, f, v, more)
  <2> TAKE f \in Pending(r, x)
  <2>1. Unseen(d, f, w, pub)
    BY DEF Made
  <2>2. 1..w \subseteq 1..v
    OBVIOUS
  <2> QED
    BY <2>1, <2>2 DEF Unseen
<1>2. \A p : FromStaging(p, pub) => FromStaging(p, more)
  BY DEF FromStaging
<1> QED
  BY <1>1, <1>2 DEF Made

\* A step of c moves no other client on.
MovesAlone(c) ==
  \A d \in Client \ {c} : req'[d] = req[d] /\ txn'[d] = txn[d] /\ wrote'[d] = wrote[d]

\* A step of c that publishes, of what is new, only what c wrote.
LEMMA MadeStep ==
  ASSUME TypeOK, MadeInv, NEW c \in Client, MovesAlone(c),
         wrote'[c] \in Nat, wrote[c] <= wrote'[c], published \subseteq published',
         \A k \in published' : k \in published \/ Unseen(c, k[2], wrote'[c], published),
         Made(c, req'[c], txn'[c], wrote'[c], published'),
         \A t \in Ident : staged'[t] \in {None, staged[t]} \/ <<"staged", staged'[t]>> \in published'
  PROVE  MadeInv'
<1>1. wrote \in [Client -> Nat] /\ \A d \in Client : wrote'[d] \in Nat /\ wrote[d] <= wrote'[d]
  BY DEF TypeOK, MovesAlone
<1>2. ASSUME NEW d \in Client PROVE Made(d, req'[d], txn'[d], wrote'[d], published')
  <2>1. CASE d # c
    <3>1. Made(d, req[d], txn[d], wrote[d], published)
      BY DEF MadeInv
    <3>2. ASSUME NEW k \in published', k \notin published
          PROVE  k[2] \notin Pending(req[d], txn[d])
      <4>1. Unseen(c, k[2], wrote'[c], published)
        BY <3>2
      <4> SUFFICES ASSUME k[2] \in Pending(req[d], txn[d]) PROVE FALSE
        OBVIOUS
      <4>2. Unseen(d, k[2], wrote[d], published)
        BY <3>1 DEF Made
      <4>3. \E m, n : <<c, m>> = <<d, n>>
        BY <4>1, <4>2 DEF Unseen
      <4> QED
        BY <2>1, <4>3
    <3>3. wrote[d] \in Nat /\ wrote'[d] \in Nat /\ wrote[d] <= wrote'[d]
      BY <1>1
    <3>4. Made(d, req[d], txn[d], wrote'[d], published')
      BY <3>1, <3>2, <3>3, MadeStays
    <3> QED
      BY <2>1, <3>4 DEF MovesAlone
  <2> QED
    BY <2>1
<1>3. NotAhead'
  <2> SUFFICES ASSUME NEW k \in published', NEW d \in Client, NEW n \in Nat,
                      k[2] # <<>>, k[2][Len(k[2])] = <<d, n>>
               PROVE  n <= wrote'[d]
    BY DEF NotAhead
  <2>1. CASE k \in published
    <3>1. n <= wrote[d]
      BY <2>1 DEF MadeInv, NotAhead
    <3> QED
      BY <1>1, <3>1
  <2>2. CASE k \notin published
    <3>1. PICK m \in 1..wrote'[c] : k[2][Len(k[2])] = <<c, m>>
      BY <2>2 DEF Unseen
    <3>2. d = c /\ n = m
      BY <3>1
    <3> QED
      BY <3>1, <3>2
  <2> QED
    BY <2>1, <2>2
<1>4. StagingsKnown'
  BY DEF StagingsKnown, MadeInv
<1> QED
  BY <1>2, <1>3, <1>4 DEF MadeInv

\* Of a request that is not a commit only its own file matters.
LEMMA MadeAlone ==
  ASSUME MadeInv, NEW c \in Client, NEW r, NEW w, NEW pub,
         req[c].phase = "idle" \/ req[c].op # "commit",
         \A f \in Pending(r, NoTransaction) : Unseen(c, f, w, pub),
         r.op = "register_table" /\ r.phase = "insert" => <<"table", r.file>> \in pub,
         r.op = "register_view" /\ r.phase = "insert" => <<"view", r.file>> \in pub
  PROVE  Made(c, r, txn[c], w, pub)
<1>1. Made(c, req[c], txn[c], wrote[c], published)
  BY DEF MadeInv
<1>2. txn[c].prepared = <<>> /\ NoTransaction.prepared = <<>> /\ InOrder(txn[c])
  BY <1>1 DEF Made, NoTransaction
<1>3. Pending(r, txn[c]) = Pending(r, NoTransaction)
  BY <1>2 DEF Pending
<1> QED
  BY <1>2, <1>3 DEF Made

LEMMA NoneAreUnseen ==
  ASSUME NEW r, r.phase \notin {"insert", "swap"}
  PROVE  Pending(r, NoTransaction) = {}
  BY DEF Pending, NoTransaction

\* A step that leaves its request, no commit, without a file of its own.
LEMMA MadeQuiet ==
  ASSUME TypeOK, MadeInv, NEW c \in Client, MovesAlone(c), UNCHANGED <<txn, wrote>>,
         req[c].phase = "idle" \/ req[c].op # "commit", req'[c].phase \notin {"insert", "swap"},
         published \subseteq published',
         \A k \in published' : k \in published \/ k[2] \in Pending(req[c], txn[c]),
         \A t \in Ident : staged'[t] \in {None, staged[t]} \/ <<"staged", staged'[t]>> \in published'
  PROVE  MadeInv'
<1>1. Made(c, req'[c], txn'[c], wrote'[c], published')
  BY MadeAlone, NoneAreUnseen
<1>2. \A k \in published' : k \in published \/ Unseen(c, k[2], wrote'[c], published)
  BY DEF MadeInv, Made
<1>3. wrote'[c] \in Nat /\ wrote[c] <= wrote'[c]
  BY DEF TypeOK
<1> QED
  BY <1>1, <1>2, <1>3, MadeStep

LEMMA MadeShared ==
  ASSUME MadeInv, UNCHANGED <<clients, published>>,
         \A t \in Ident : staged'[t] \in {None, staged[t]}
  PROVE  MadeInv'
  BY DEF MadeInv, NotAhead, StagingsKnown, clients

LEMMA StepsMoveAlone ==
  ASSUME TypeOK, NEW c \in Client, Arrive(c) \/ Continue(c) \/ Abandon(c)
  PROVE  MovesAlone(c)
<1>1. DOMAIN req = Client /\ DOMAIN txn = Client /\ DOMAIN wrote = Client
  BY DEF TypeOK
<1>2. CASE Arrive(c)
  <2>1. ASSUME NEW r, Begin(c, r), UNCHANGED <<txn, wrote>> PROVE MovesAlone(c)
    BY <1>1, <2>1 DEF Begin, MovesAlone
  <2>2. CASE CommitStart(c)
    <3>1. \A d \in Client \ {c} : txn'[d] = txn[d]
      BY <1>1, <2>2 DEF CommitStart
    <3> QED
      BY <1>1, <2>2, <3>1 DEF CommitStart, Begin, MovesAlone
  <2>3. CASE \E t \in Ident : \/ CreateTableStart(c, t) \/ StageCreateStart(c, t)
                              \/ RegisterTableStart(c, t) \/ CreateViewStart(c, t)
                              \/ RegisterViewStart(c, t)
    BY <2>1, <2>3 DEF CreateTableStart, StageCreateStart, CreateStart, RegisterTableStart,
       CreateViewStart, RegisterViewStart
  <2>4. CASE \E t \in Ident : PurgeTableLoad(c, t) \/ UpdateViewStart(c, t)
    BY <2>1, <2>4 DEF PurgeTableLoad, PurgeStart, UpdateViewStart
  <2>5. CASE \E s, d \in Ident : RenameTableStart(c, s, d) \/ RenameViewStart(c, s, d)
    BY <2>1, <2>5 DEF RenameTableStart, RenameViewStart
  <2> QED
    BY <1>2, <2>2, <2>3, <2>4, <2>5 DEF Arrive
<1>3. CASE Continue(c)
  <2>1. CASE CreateTablePrepare(c) \/ StageCreatePrepare(c) \/ CreateViewPrepare(c)
             \/ UpdateViewPrepare(c)
    BY <1>1, <2>1 DEF CreateTablePrepare, StageCreatePrepare, CreateViewPrepare,
       UpdateViewPrepare, FirstFile, Advance, WriteFile, Finish, MovesAlone
  <2>2. CASE \E k \in published : RegisterTableRead(c, k[2]) \/ RegisterViewRead(c, k[2])
    BY <1>1, <2>2 DEF RegisterTableRead, RegisterViewRead, Advance, Finish, MovesAlone
  <2>3. CASE \/ CreateTableInsert(c) \/ StageCreateInsert(c) \/ RegisterTableInsert(c)
             \/ PurgeTableDrop(c) \/ PurgeTableDelete(c) \/ RenameTableMove(c)
    BY <1>1, <2>3 DEF CreateTableInsert, StageCreateInsert, RegisterTableInsert,
       PurgeTableDrop, PurgeTableDelete, RenameTableMove, Advance, Finish, MovesAlone
  <2>4. CASE ViewInsert(c) \/ UpdateViewSwap(c) \/ RenameViewMove(c)
    BY <1>1, <2>4 DEF ViewInsert, UpdateViewSwap, RenameViewMove, Finish, MovesAlone
  <2>5. CASE CommitPrepare(c)
    BY <1>1, <2>5 DEF CommitPrepare, WriteFile, MovesAlone
  <2>6. CASE CommitRefused(c) \/ CommitDiscard(c)
    BY <1>1, <2>6 DEF CommitRefused, CommitDiscard, Retry, Finish, MovesAlone
  <2>7. CASE CommitNotFound(c) \/ CommitSwap(c) \/ CommitSwapLost(c)
    BY <1>1, <2>7 DEF CommitNotFound, CommitSwap, CommitSwapLost, Finish, MovesAlone
  <2> QED
    BY <1>3, <2>1, <2>2, <2>3, <2>4, <2>5, <2>6, <2>7 DEF Continue
<1>4. CASE Abandon(c)
  BY <1>1, <1>4 DEF Abandon, Finish, MovesAlone
<1> QED
  BY <1>2, <1>3, <1>4

LEMMA MadeArrivals ==
  ASSUME TypeOK, MadeInv, NEW c \in Client, Arrive(c), ~CommitStart(c)
  PROVE  MadeInv'
<1>1. MovesAlone(c)
  BY StepsMoveAlone
<1>2. ASSUME NEW r, Begin(c, r), r.phase \notin {"insert", "swap"},
             UNCHANGED <<published, registry, txn, wrote>>
      PROVE  MadeInv'
  <2>1. req'[c] = r /\ req[c].phase = "idle"
    BY <1>2 DEF Begin, TypeOK, Idle
  <2> QED
    BY <1>1, <1>2, <2>1, MadeQuiet DEF registry
<1>3. CASE \E t \in Ident : \/ CreateTableStart(c, t) \/ StageCreateStart(c, t)
                            \/ RegisterTableStart(c, t) \/ CreateViewStart(c, t)
                            \/ RegisterViewStart(c, t)
  <2>1. \A op, t : On(op, "prepare", t).phase = "prepare" /\ On(op, "read", t).phase = "read"
    BY DEF On, Idle
  <2> QED
    BY <1>2, <1>3, <2>1 DEF CreateTableStart, StageCreateStart, CreateStart,
       RegisterTableStart, CreateViewStart, RegisterViewStart
<1>4. CASE \E t \in Ident : PurgeTableLoad(c, t) \/ UpdateViewStart(c, t)
  <2>1. \A op, t, f : /\ [On(op, "drop", t) EXCEPT !.file = f].phase = "drop"
                      /\ [On(op, "prepare", t) EXCEPT !.file = f].phase = "prepare"
    BY DEF On, Idle
  <2> QED
    BY <1>2, <1>4, <2>1 DEF PurgeTableLoad, PurgeStart, UpdateViewStart
<1>5. CASE \E s, d \in Ident : RenameTableStart(c, s, d) \/ RenameViewStart(c, s, d)
  <2>1. \A op, s, d : [On(op, "move", s) EXCEPT !.dest = d].phase = "move"
    BY DEF On, Idle
  <2> QED
    BY <1>2, <1>5, <2>1 DEF RenameTableStart, RenameViewStart
<1> QED
  BY <1>3, <1>4, <1>5 DEF Arrive

\* A first metadata file is written, and waits for its insert.
LEMMA MadeFirstFile ==
  ASSUME TypeOK, MadeInv, NEW c \in Client,
         CreateTablePrepare(c) \/ StageCreatePrepare(c) \/ CreateViewPrepare(c)
  PROVE  MadeInv'
<1> DEFINE f == <<FreshId(c)>>
           r == [req[c] EXCEPT !.phase = "insert", !.file = f]
<1>1. /\ MovesAlone(c) /\ req[c].op # "commit"
      /\ req[c].op \in {"create_table", "stage_create_table", "create_view"}
      /\ UNCHANGED <<published, registry, txn>>
  BY StepsMoveAlone DEF Continue, CreateTablePrepare, StageCreatePrepare, CreateViewPrepare, InPhase
<1>2. CASE Advance(c, "insert", f) /\ WriteFile(c, f)
  <2>1. req'[c] = r /\ wrote'[c] = wrote[c] + 1 /\ wrote[c] \in Nat
    BY <1>2 DEF Advance, WriteFile, TypeOK
  <2>2. r.op = req[c].op /\ r.phase = "insert" /\ r.file = f
    BY DEF TypeOK, Request
  <2>3. f # <<>> /\ f[Len(f)] = FreshId(c)
    OBVIOUS
  <2> HIDE DEF r, f
  <2>4. Unseen(c, f, wrote[c] + 1, published)
    BY <2>3, FreshUnseen DEF MadeInv
  <2>5. Pending(r, NoTransaction) = {f}
    BY <1>1, <2>2 DEF Pending, NoTransaction
  <2>6. Made(c, r, txn[c], wrote[c] + 1, published)
    BY <1>1, <2>2, <2>4, <2>5, MadeAlone
  <2> QED
    BY <1>1, <2>1, <2>6, MadeStep DEF registry
<1>3. CASE Finish(c) /\ UNCHANGED <<files, wrote>>
  <2>1. req'[c].phase = "idle"
    BY <1>3 DEF Finish, Idle, TypeOK
  <2> QED
    BY <1>1, <1>3, <2>1, MadeQuiet DEF registry
<1> QED
  BY <1>2, <1>3 DEF CreateTablePrepare, StageCreatePrepare, CreateViewPrepare, FirstFile

LEMMA MadeRegisterRead ==
  ASSUME TypeOK, MadeInv, NEW c \in Client, NEW f,
         RegisterTableRead(c, f) \/ RegisterViewRead(c, f), Continue(c)
  PROVE  MadeInv'
<1> DEFINE r == [req[c] EXCEPT !.phase = "insert", !.file = f]
<1>1. /\ MovesAlone(c) /\ req[c].op \in {"register_table", "register_view"}
      /\ UNCHANGED <<published, registry, txn, wrote>>
      /\ req[c].op = "register_table" => <<"table", f>> \in published
      /\ req[c].op = "register_view" => <<"view", f>> \in published
  BY StepsMoveAlone DEF RegisterTableRead, RegisterViewRead, InPhase
<1>2. CASE Advance(c, "insert", f)
  <2>1. req'[c] = r /\ wrote[c] \in Nat
    BY <1>2 DEF Advance, TypeOK
  <2>2. r.op = req[c].op /\ r.phase = "insert" /\ r.file = f
    BY DEF TypeOK, Request
  <2> HIDE DEF r
  <2>3. Pending(r, NoTransaction) = {}
    BY <1>1, <2>2 DEF Pending, NoTransaction
  <2>4. Made(c, r, txn[c], wrote[c], published)
    BY <1>1, <2>2, <2>3, MadeAlone
  <2> QED
    BY <1>1, <2>1, <2>4, MadeStep DEF registry
<1>3. CASE Finish(c)
  <2>1. req'[c].phase = "idle"
    BY <1>3 DEF Finish, Idle, TypeOK
  <2> QED
    BY <1>1, <2>1, <1>3, MadeQuiet DEF registry
<1> QED
  BY <1>2, <1>3 DEF RegisterTableRead, RegisterViewRead

\* The last step of a request that is no commit: what it publishes is what it wrote.
LEMMA MadeFinish ==
  ASSUME TypeOK, MadeInv, NEW c \in Client, MovesAlone(c), Finish(c), req[c].op # "commit",
         UNCHANGED <<txn, wrote>>, published \subseteq published',
         \A k \in published' : k \in published \/ k[2] \in Pending(req[c], txn[c]),
         \A t \in Ident : staged'[t] \in {None, staged[t]} \/ <<"staged", staged'[t]>> \in published'
  PROVE  MadeInv'
<1>1. req'[c].phase = "idle"
  BY DEF Finish, Idle, TypeOK
<1> QED
  BY <1>1, MadeQuiet

LEMMA MadeInserts ==
  ASSUME TypeOK, MadeInv, NEW c \in Client, Continue(c),
         \/ CreateTableInsert(c) \/ StageCreateInsert(c) \/ RegisterTableInsert(c)
         \/ ViewInsert(c) \/ UpdateViewSwap(c)
  PROVE  MadeInv'
<1>1. MovesAlone(c) /\ Made(c, req[c], txn[c], wrote[c], published)
  BY StepsMoveAlone DEF MadeInv
<1>2. CASE CreateTableInsert(c)
  <2>1. req[c].op = "create_table" /\ req[c].phase = "insert"
    BY <1>2 DEF CreateTableInsert, InPhase
  <2>2. req[c].file \in Pending(req[c], txn[c])
    BY <2>1 DEF Pending
  <2> QED
    BY <1>1, <1>2, <2>1, <2>2, MadeFinish DEF CreateTableInsert, InsertTable
<1>3. CASE StageCreateInsert(c)
  <2>1. req[c].op = "stage_create_table" /\ req[c].phase = "insert"
    BY <1>3 DEF StageCreateInsert, InPhase
  <2>2. req[c].file \in Pending(req[c], txn[c])
    BY <2>1 DEF Pending
  <2>3. \A t \in Ident : staged'[t] \in {None, staged[t]} \/ <<"staged", staged'[t]>> \in published'
    BY <1>3 DEF StageCreateInsert, TypeOK
  <2> QED
    BY <1>1, <1>3, <2>1, <2>2, <2>3, MadeFinish DEF StageCreateInsert
<1>4. CASE RegisterTableInsert(c)
  <2>1. req[c].op = "register_table" /\ req[c].phase = "insert"
    BY <1>4 DEF RegisterTableInsert, InPhase
  <2>2. published' = published
    BY <1>1, <1>4, <2>1 DEF Made, RegisterTableInsert, InsertTable
  <2> QED
    BY <1>1, <1>4, <2>1, <2>2, MadeFinish DEF RegisterTableInsert
<1>5. CASE ViewInsert(c)
  <2>1. req[c].op \in {"create_view", "register_view"} /\ req[c].phase = "insert"
    BY <1>5 DEF ViewInsert
  <2>2. req[c].op = "create_view" => req[c].file \in Pending(req[c], txn[c])
    BY <2>1 DEF Pending
  <2>3. req[c].op = "register_view" => published' = published
    BY <1>1, <1>5, <2>1 DEF Made, ViewInsert, InsertView
  <2>4. \A k \in published' : k \in published \/ k[2] \in Pending(req[c], txn[c])
    BY <1>5, <2>1, <2>2, <2>3 DEF ViewInsert, InsertView
  <2> QED
    BY <1>1, <1>5, <2>1, <2>4, MadeFinish DEF ViewInsert, InsertView
<1>6. CASE UpdateViewSwap(c)
  <2>1. req[c].op = "update_view" /\ req[c].phase = "swap"
    BY <1>6 DEF UpdateViewSwap, InPhase
  <2>2. req[c].file \in Pending(req[c], txn[c])
    BY <2>1 DEF Pending
  <2> QED
    BY <1>1, <1>6, <2>1, <2>2, MadeFinish DEF UpdateViewSwap
<1> QED
  BY <1>2, <1>3, <1>4, <1>5, <1>6

LEMMA MadeMoves ==
  ASSUME TypeOK, MadeInv, NEW c \in Client, Continue(c),
         PurgeTableDrop(c) \/ PurgeTableDelete(c) \/ RenameTableMove(c) \/ RenameViewMove(c)
  PROVE  MadeInv'
<1>1. MovesAlone(c)
  BY StepsMoveAlone
<1>2. /\ req[c].op # "commit" /\ UNCHANGED <<published, staged, txn, wrote>>
      /\ Finish(c) \/ Advance(c, "delete", req[c].file)
  BY DEF PurgeTableDrop, PurgeTableDelete, RenameTableMove, RenameViewMove, InPhase, registry
<1>3. req'[c].phase \notin {"insert", "swap"}
  <2>1. CASE Finish(c)
    BY <2>1 DEF Finish, Idle, TypeOK
  <2>2. CASE Advance(c, "delete", req[c].file)
    BY <2>2 DEF Advance, TypeOK, Request
  <2> QED
    BY <1>2, <2>1, <2>2
<1> QED
  BY <1>1, <1>2, <1>3, MadeQuiet

LEMMA MadeUpdatePrepare ==
  ASSUME TypeOK, MadeInv, NEW c \in Client, Continue(c), UpdateViewPrepare(c)
  PROVE  MadeInv'
<1> DEFINE f == Append(req[c].file, FreshId(c))
           r == [req[c] EXCEPT !.phase = "swap", !.file = f, !.expected = views[req[c].tab]]
<1>1. MovesAlone(c) /\ req[c].op = "update_view" /\ UNCHANGED <<published, registry, txn>>
  BY StepsMoveAlone DEF UpdateViewPrepare, InPhase
<1>2. CASE req' = [req EXCEPT ![c] = r] /\ WriteFile(c, f)
  <2>1. req'[c] = r /\ wrote'[c] = wrote[c] + 1 /\ wrote[c] \in Nat
    BY <1>2 DEF WriteFile, TypeOK
  <2>2. r.op = "update_view" /\ r.phase = "swap" /\ r.file = f
    BY <1>1 DEF TypeOK, Request
  <2>3. f # <<>> /\ f[Len(f)] = FreshId(c)
    <3>1. req[c].file \in MetadataFile
      BY DEF TypeOK, Request
    <3> QED
      BY <3>1, FreshIdType, AppendMakes
  <2> HIDE DEF r, f
  <2>4. Unseen(c, f, wrote[c] + 1, published)
    BY <2>3, FreshUnseen DEF MadeInv
  <2>5. Pending(r, NoTransaction) = {f}
    BY <2>2 DEF Pending, NoTransaction
  <2>6. Made(c, r, txn[c], wrote[c] + 1, published)
    BY <1>1, <2>2, <2>4, <2>5, MadeAlone
  <2> QED
    BY <1>1, <2>1, <2>6, MadeStep DEF registry
<1>3. CASE Finish(c) /\ UNCHANGED <<files, wrote>>
  BY <1>1, <1>3, MadeFinish DEF registry
<1> QED
  BY <1>2, <1>3 DEF UpdateViewPrepare

-----------------------------------------------------------------------------
\* An attempt that holds nothing yet, of a request whose changes name each table once.
LEMMA MadeEmpty ==
  ASSUME NEW c, NEW r, NEW x, NEW w, NEW pub, x.prepared = <<>>, InOrder(x),
         r.op = "commit" \/ r.phase = "idle"
  PROVE  Made(c, r, x, w, pub)
<1>1. DOMAIN x.prepared = {}
  OBVIOUS
<1>2. CASE r.op = "commit"
  <2>1. Pending(r, x) = {}
    BY <1>1, <1>2 DEF Pending
  <2> QED
    BY <1>1, <1>2, <2>1 DEF Made
<1>3. CASE r.phase = "idle"
  <2>1. Pending(r, x) = {}
    BY <1>1, <1>3 DEF Pending
  <2> QED
    BY <1>1, <1>3, <2>1 DEF Made
<1> QED
  BY <1>2, <1>3

LEMMA NoTransactionInOrder == InOrder(NoTransaction) /\ NoTransaction.prepared = <<>>
  BY DEF InOrder, NoTransaction

LEMMA MadeCommitStart ==
  ASSUME TypeOK, MadeInv, NEW c \in Client, CommitStart(c)
  PROVE  MadeInv'
<1>1. MovesAlone(c) /\ UNCHANGED <<published, registry, wrote>>
  BY StepsMoveAlone DEF Arrive, CommitStart
<1>2. PICK n \in 1..MaxChanges :
        \E changes \in [1..n -> UNION {Requests(t) : t \in Ident}] :
          /\ \A i, j \in 1..n : changes[i].tab = changes[j].tab => i = j
          /\ txn' = [txn EXCEPT ![c] = Attempt(changes, 1)]
  BY DEF CommitStart
<1>3. PICK changes \in [1..n -> UNION {Requests(t) : t \in Ident}] :
        /\ \A i, j \in 1..n : changes[i].tab = changes[j].tab => i = j
        /\ txn' = [txn EXCEPT ![c] = Attempt(changes, 1)]
  BY <1>2
<1>4. txn'[c] = Attempt(changes, 1)
  BY <1>3 DEF TypeOK
<1>5. txn'[c].prepared = <<>> /\ InOrder(txn'[c])
  BY <1>3, <1>4 DEF Attempt, InOrder
<1>6. req'[c].op = "commit"
  BY DEF CommitStart, Begin, Idle, TypeOK
<1>7. Made(c, req'[c], txn'[c], wrote[c], published)
  BY <1>5, <1>6, MadeEmpty
<1>8. wrote[c] \in Nat
  BY DEF TypeOK
<1> QED
  BY <1>1, <1>7, <1>8, MadeStep DEF registry

\* What is left of an attempt that is given up, made again, or cut off.
LEMMA RetryEmpties ==
  ASSUME TypeOK, MadeInv, NEW c \in Client,
         \/ Retry(c) /\ req[c].op = "commit"
         \/ Finish(c) /\ txn' = [txn EXCEPT ![c] = NoTransaction]
  PROVE  /\ txn'[c].prepared = <<>> /\ InOrder(txn'[c])
         /\ req'[c].op = "commit" \/ req'[c].phase = "idle"
<1>1. InOrder(txn[c]) /\ txn[c] \in Transaction
  BY DEF MadeInv, Made, TypeOK
<1>2. CASE Finish(c) /\ txn' = [txn EXCEPT ![c] = NoTransaction]
  <2>1. txn'[c] = NoTransaction /\ req'[c].phase = "idle"
    BY <1>2 DEF TypeOK, Finish, Idle
  <2> QED
    BY <2>1, NoTransactionInOrder
<1>3. CASE /\ txn' = [txn EXCEPT ![c] = Attempt(@.changes, @.attempt + 1)]
           /\ req' = [req EXCEPT ![c].phase = "prepare"] /\ req[c].op = "commit"
  <2>1. txn'[c].prepared = <<>> /\ txn'[c].changes = txn[c].changes
    BY <1>3 DEF TypeOK, Attempt
  <2>2. req'[c].op = "commit"
    BY <1>3 DEF TypeOK, Request
  <2> QED
    BY <1>1, <2>1, <2>2 DEF InOrder
<1> QED
  BY <1>2, <1>3 DEF Retry

LEMMA MadeCommitEnds ==
  ASSUME TypeOK, MadeInv, NEW c \in Client, MovesAlone(c),
         \/ Retry(c) /\ req[c].op = "commit"
         \/ Finish(c) /\ txn' = [txn EXCEPT ![c] = NoTransaction],
         wrote' = wrote, published \subseteq published',
         \A k \in published' : k \in published \/ k[2] \in Pending(req[c], txn[c]),
         \A t \in Ident : staged'[t] \in {None, staged[t]}
  PROVE  MadeInv'
<1>1. Made(c, req'[c], txn'[c], wrote'[c], published')
  BY RetryEmpties, MadeEmpty
<1>2. \A k \in published' : k \in published \/ Unseen(c, k[2], wrote'[c], published)
  BY DEF MadeInv, Made
<1>3. wrote[c] \in Nat
  BY DEF TypeOK
<1> QED
  BY <1>1, <1>2, <1>3, MadeStep

\* One more change is prepared: a file on top of the table's or of what is staged.
LEMMA MadeCommitPrepare ==
  ASSUME TypeOK, MadeInv, NEW c \in Client, Continue(c), CommitPrepare(c)
  PROVE  MadeInv'
<1> DEFINE ch  == NextChange(c)
           f   == Append(Base(ch), FreshId(c))
           p   == [tab |-> ch.tab, expected |-> tables[ch.tab], file |-> f]
           old == txn[c].prepared
           all == Append(old, p)
           x   == [txn[c] EXCEPT !.prepared = all]
<1>1. /\ MovesAlone(c) /\ req[c].op = "commit" /\ ~NotFound(ch) /\ WriteFile(c, f)
      /\ txn' = [txn EXCEPT ![c] = x] /\ UNCHANGED <<published, registry>>
  BY StepsMoveAlone DEF CommitPrepare, InPhase
<1>2. /\ Made(c, req[c], txn[c], wrote[c], published)
      /\ \A q \in DOMAIN old : old[q].file \in Pending(req[c], txn[c])
      /\ wrote[c] \in Nat
  BY DEF MadeInv, Pending, TypeOK
<1>3. old \in Seq(Prepared) /\ txn[c].changes \in Seq(Change) /\ txn[c] \in Transaction
  BY AttemptType
<1>4. Len(old) + 1 \in 1..Len(txn[c].changes) /\ Len(old) \in Nat
  <2>1. Len(old) < Len(txn[c].changes)
    BY DEF TypeOK, RequestsFitPhase, CommitPrepare, InPhase
  <2> QED
    BY <1>3, <2>1
<1>5. ch \in Change /\ ch = txn[c].changes[Len(old) + 1]
  BY <1>3, <1>4 DEF NextChange
<1>6. Base(ch) \in MetadataFile
  BY <1>1 DEF NotFound, TypeOK
<1>7. f # <<>> /\ f[Len(f)] = FreshId(c) /\ WrittenOnto(f, Base(ch))
  BY <1>6, FreshIdType, AppendMakes, AppendIsOnto
<1>8. /\ x.prepared = all /\ x.changes = txn[c].changes /\ txn'[c] = x
      /\ wrote'[c] = wrote[c] + 1 /\ wrote' \in [Client -> Nat]
      /\ req'[c].op = "commit" /\ req'[c].phase \in {"prepare", "swap"}
  <2>1. wrote'[c] = wrote[c] + 1 /\ wrote' \in [Client -> Nat]
    BY <1>1 DEF WriteFile, TypeOK
  <2>2. req'[c].op = "commit" /\ req'[c].phase \in {"prepare", "swap"}
    <3> HIDE DEF all
    <3>1. PICK ph \in {"prepare", "swap"} : req' = [req EXCEPT ![c].phase = ph]
      BY DEF CommitPrepare
    <3> QED
      BY <1>1, <3>1 DEF TypeOK, Request
  <2>3. x.prepared = all /\ x.changes = txn[c].changes
    BY <1>3 DEF Transaction
  <2> HIDE DEF x
  <2>4. txn'[c] = x
    BY <1>1 DEF TypeOK
  <2> QED
    BY <2>1, <2>2, <2>3, <2>4
<1>9. FromStaging(p, published)
  <2> SUFFICES ASSUME p.expected = None
               PROVE  \E k \in published : k[1] = "staged" /\ WrittenOnto(f, k[2])
    BY DEF FromStaging
  <2>1. tables[ch.tab] = None /\ ch.tab \in Ident
    BY <1>5 DEF Change
  <2>2. staged[ch.tab] # None /\ Base(ch) = staged[ch.tab]
    BY <1>1, <2>1 DEF NotFound, Base
  <2>3. <<"staged", Base(ch)>> \in published
    BY <2>1, <2>2 DEF MadeInv, StagingsKnown
  <2> QED
    BY <1>7, <2>3
<1>10. p.tab = txn[c].changes[Len(old) + 1].tab /\ p.file = f
  BY <1>5
<1> HIDE DEF ch, f, p, x
<1>11. \A i \in DOMAIN all : \/ i = Len(old) + 1 /\ all[i] = p
                             \/ i \in DOMAIN old /\ all[i] = old[i]
  BY <1>3
<1> HIDE DEF all
<1>12. Unseen(c, f, wrote'[c], published)
  BY <1>7, <1>8, FreshUnseen DEF MadeInv
<1>13. \A g \in Pending(req'[c], txn'[c]) : Unseen(c, g, wrote'[c], published)
  <2> TAKE g \in Pending(req'[c], txn'[c])
  <2>1. PICK i \in DOMAIN all : g = all[i].file
    BY <1>8 DEF Pending
  <2>2. CASE g = f
    BY <1>12, <2>2
  <2>3. CASE i \in DOMAIN old /\ all[i] = old[i]
    <3>1. Unseen(c, g, wrote[c], published)
      BY <1>2, <2>1, <2>3 DEF Made
    <3>2. 1..wrote[c] \subseteq 1..wrote'[c]
      BY <1>2, <1>8
    <3> QED
      BY <3>1, <3>2 DEF Unseen
  <2> QED
    BY <1>10, <1>11, <2>1, <2>2, <2>3
<1>14. \A i \in DOMAIN all : FromStaging(all[i], published)
  BY <1>2, <1>9, <1>11 DEF Made
<1>15. InOrder(txn'[c])
  <2>1. InOrder(txn[c])
    BY <1>2 DEF Made
  <2>2. Len(old) + 1 \in DOMAIN txn[c].changes
    BY <1>3, <1>4
  <2> QED
    BY <1>8, <1>10, <1>11, <2>1, <2>2 DEF InOrder
<1>16. Made(c, req'[c], txn'[c], wrote'[c], published)
  BY <1>8, <1>13, <1>14, <1>15 DEF Made
<1>17. wrote'[c] \in Nat /\ wrote[c] <= wrote'[c]
  BY <1>2, <1>8
<1> QED
  BY <1>1, <1>16, <1>17, MadeStep DEF registry

LEMMA MadeCommitSwap ==
  ASSUME TypeOK, MadeInv, NEW c \in Client, Continue(c), CommitSwap(c)
  PROVE  MadeInv'
<1>1. MovesAlone(c) /\ Finish(c) /\ txn' = [txn EXCEPT ![c] = NoTransaction] /\ wrote' = wrote
  BY StepsMoveAlone DEF CommitSwap
<1>2. /\ published \subseteq published'
      /\ \A k \in published' : k \in published \/ k[2] \in Pending(req[c], txn[c])
  BY DEF CommitSwap, Pending
<1>3. \A t \in Ident : staged'[t] \in {None, staged[t]}
  BY DEF CommitSwap
<1> QED
  BY <1>1, <1>2, <1>3, MadeCommitEnds

LEMMA MadeCommitOthers ==
  ASSUME TypeOK, MadeInv, NEW c \in Client, Continue(c) \/ Abandon(c),
         \/ CommitRefused(c) \/ CommitNotFound(c) \/ CommitSwapLost(c) \/ CommitDiscard(c)
         \/ Abandon(c)
  PROVE  MadeInv'
<1>1. MovesAlone(c) /\ UNCHANGED <<published, registry, wrote>>
  BY StepsMoveAlone DEF CommitRefused, CommitNotFound, CommitSwapLost, CommitDiscard, Abandon
<1>2. CASE \/ Retry(c) /\ req[c].op = "commit"
           \/ Finish(c) /\ txn' = [txn EXCEPT ![c] = NoTransaction]
  BY <1>1, <1>2, MadeCommitEnds DEF registry
<1>3. CASE CommitSwapLost(c)
  <2>1. PICK ph \in {"discard", "abort"} : req' = [req EXCEPT ![c].phase = ph]
    BY <1>3 DEF CommitSwapLost
  <2>2. req'[c].op = "commit" /\ req[c].op = "commit"
    BY <1>3, <2>1 DEF CommitSwapLost, InPhase, TypeOK, Request
  <2>3. Pending(req'[c], txn[c]) = Pending(req[c], txn[c]) /\ txn' = txn
    BY <1>3, <2>2 DEF Pending, CommitSwapLost
  <2>4. Made(c, req[c], txn[c], wrote[c], published)
    BY DEF MadeInv
  <2>5. req'[c].phase # "idle" /\ req[c].phase # "idle"
    BY <1>3, <2>1 DEF CommitSwapLost, InPhase, TypeOK, Request
  <2>6. Made(c, req'[c], txn'[c], wrote[c], published)
    BY <2>2, <2>3, <2>4, <2>5 DEF Made
  <2>7. wrote[c] \in Nat
    BY DEF TypeOK
  <2> QED
    BY <1>1, <2>6, <2>7, MadeStep DEF registry
<1> QED
  BY <1>2, <1>3 DEF CommitRefused, CommitNotFound, CommitDiscard, Abandon, InPhase

LEMMA NextMade == TypeOK /\ MadeInv /\ [Next]_vars => MadeInv'
<1> SUFFICES ASSUME TypeOK, MadeInv, [Next]_vars PROVE MadeInv'
  OBVIOUS
<1>1. CASE Immediate \/ UNCHANGED vars
  <2>1. /\ UNCHANGED <<clients, published>>
        /\ \A t \in Ident : staged'[t] \in {None, staged[t]}
    BY <1>1 DEF Immediate, CreateNamespace, DropNamespace, DropTable, DropView, vars, clients
  <2> QED
    BY <2>1, MadeShared
<1>2. ASSUME NEW c \in Client, Arrive(c) PROVE MadeInv'
  BY <1>2, MadeArrivals, MadeCommitStart
<1>3. ASSUME NEW c \in Client, Continue(c) PROVE MadeInv'
  <2>1. CASE \E k \in published : RegisterTableRead(c, k[2]) \/ RegisterViewRead(c, k[2])
    BY <1>3, <2>1, MadeRegisterRead
  <2>2. CASE ~\E k \in published : RegisterTableRead(c, k[2]) \/ RegisterViewRead(c, k[2])
    BY <1>3, <2>2, MadeFirstFile, MadeInserts, MadeMoves, MadeUpdatePrepare, MadeCommitPrepare,
       MadeCommitSwap, MadeCommitOthers DEF Continue
  <2> QED
    BY <2>1, <2>2
<1>4. ASSUME NEW c \in Client, Abandon(c) PROVE MadeInv'
  BY <1>4, MadeCommitOthers
<1> QED
  BY <1>1, <1>2, <1>3, <1>4 DEF Next

LEMMA InitMade == Init => MadeInv
<1> SUFFICES ASSUME Init PROVE MadeInv
  OBVIOUS
<1>1. NotAhead
  <2> SUFFICES ASSUME NEW k \in published, NEW c \in Client, NEW n \in Nat,
                      k[2] # <<>>, k[2][Len(k[2])] = <<c, n>>
               PROVE  n <= wrote[c]
    BY DEF NotAhead
  <2>1. PICK t : k[2] = << <<t, 0>> >>
    BY DEF Init, SeedFile
  <2>2. n = 0
    BY <2>1
  <2> QED
    BY <2>2 DEF Init
<1>2. StagingsKnown
  BY DEF Init, StagingsKnown
<1>3. ASSUME NEW c \in Client PROVE Made(c, req[c], txn[c], wrote[c], published)
  <2>1. req[c].phase = "idle" /\ txn[c] = NoTransaction
    BY DEF Init, Idle
  <2> QED
    BY <2>1, NoTransactionInOrder, MadeEmpty
<1> QED
  BY <1>1, <1>2, <1>3 DEF MadeInv

-----------------------------------------------------------------------------
(* and every step is one of the contract's, or none                          *)

AbsStep == [Abstract!AbsNext]_Abstract!absVars

LEMMA AbsStutter ==
  ASSUME UNCHANGED <<namespaces, tables, views, staged, published>>
  PROVE  AbsStep
  BY DEF AbsStep, Abstract!absVars, PointerOf

\* A name has a pointer exactly when it has a record.
LEMMA PointersOfRecords ==
  ASSUME TypeOK, NEW t \in Ident
  PROVE  /\ PointerOf(tables)[t] = None <=> tables[t] = None
         /\ tables[t] # None => PointerOf(tables)[t] = tables[t].file
         /\ PointerOf(views)[t] = None <=> views[t] = None
         /\ views[t] # None => PointerOf(views)[t] = views[t].file
         /\ Abstract!NameFree(t) <=> ~NameTaken(t)
<1>1. /\ tables[t] # None => tables[t].file \in MetadataFile
      /\ views[t] # None => views[t].file \in MetadataFile
  BY DEF TypeOK, Record
<1>2. /\ PointerOf(tables)[t] = None <=> tables[t] = None
      /\ tables[t] # None => PointerOf(tables)[t] = tables[t].file
      /\ PointerOf(views)[t] = None <=> views[t] = None
      /\ views[t] # None => PointerOf(views)[t] = views[t].file
  BY <1>1, PointerAssumption DEF PointerOf
<1> QED
  BY <1>2 DEF Abstract!NameFree, NameTaken

\* One record put under a name, taken away, or moved to another.
Put(rel, t, r) == [rel EXCEPT ![t] = r]

LEMMA PointerPut ==
  ASSUME NEW rel \in [Ident -> Record \cup {None}], NEW t \in Ident, NEW r \in Record
  PROVE  /\ PointerOf(Put(rel, t, r)) = Put(PointerOf(rel), t, r.file)
         /\ PointerOf(Put(rel, t, r))[t] = r.file
         /\ Put(rel, t, r) \in [Ident -> Record \cup {None}]
  BY PointerAssumption DEF PointerOf, Put

LEMMA PointerTaken ==
  ASSUME NEW rel \in [Ident -> Record \cup {None}], NEW t \in Ident
  PROVE  PointerOf(Put(rel, t, None)) = Put(PointerOf(rel), t, None)
  BY DEF PointerOf, Put

LEMMA PointerMoved ==
  ASSUME NEW rel \in [Ident -> Record \cup {None}], NEW s \in Ident, NEW d \in Ident,
         rel[s] # None, NEW r \in Record, r.file = rel[s].file
  PROVE  PointerOf(Put(Put(rel, d, r), s, None))
           = Put(Put(PointerOf(rel), d, PointerOf(rel)[s]), s, None)
<1>1. PointerOf(rel)[s] = r.file
  BY DEF PointerOf
<1>2. /\ PointerOf(Put(rel, d, r)) = Put(PointerOf(rel), d, r.file)
      /\ Put(rel, d, r) \in [Ident -> Record \cup {None}]
  BY PointerPut
<1> DEFINE put == Put(rel, d, r)
<1> HIDE DEF put
<1>3. PointerOf(Put(put, s, None)) = Put(PointerOf(put), s, None)
  BY <1>2, PointerTaken DEF put
<1> QED
  BY <1>1, <1>2, <1>3 DEF put

LEMMA AbsImmediate ==
  ASSUME TypeOK, Immediate
  PROVE  AbsStep
<1>1. ASSUME NEW n \in Namespace, CreateNamespace(n) PROVE AbsStep
  <2>1. Abstract!AbsCreateNamespace(n)
    BY <1>1 DEF CreateNamespace, Abstract!AbsCreateNamespace
  <2> QED
    BY <2>1 DEF AbsStep, Abstract!AbsNext
<1>2. ASSUME NEW n \in Namespace, DropNamespace(n) PROVE AbsStep
  <2>1. \A t \in Ident : NsOf[t] = n => Abstract!NameFree(t)
    BY <1>2, PointersOfRecords DEF DropNamespace, HoldsNothing, NameTaken
  <2>2. Abstract!AbsDropNamespace(n)
    BY <1>2, <2>1 DEF DropNamespace, HoldsNothing, Abstract!AbsDropNamespace
  <2> QED
    BY <2>2 DEF AbsStep, Abstract!AbsNext
<1>3. ASSUME NEW t \in Ident, DropTable(t) PROVE AbsStep
  <2>1. tables[t] # None /\ tables' = Put(tables, t, None)
    BY <1>3 DEF DropTable, Put
  <2>2. PointerOf(tables') = Put(PointerOf(tables), t, None)
    BY <2>1, PointerTaken DEF TypeOK
  <2>3. Abstract!AbsDropTable(t)
    BY <1>3, <2>1, <2>2, PointersOfRecords DEF DropTable, Put, Abstract!AbsDropTable
  <2> QED
    BY <2>3 DEF AbsStep, Abstract!AbsNext
<1>4. ASSUME NEW v \in Ident, DropView(v) PROVE AbsStep
  <2>1. views[v] # None /\ views' = Put(views, v, None)
    BY <1>4 DEF DropView, Put
  <2>2. PointerOf(views') = Put(PointerOf(views), v, None)
    BY <2>1, PointerTaken DEF TypeOK
  <2>3. Abstract!AbsDropView(v)
    BY <1>4, <2>1, <2>2, PointersOfRecords DEF DropView, Put, Abstract!AbsDropView
  <2> QED
    BY <2>3 DEF AbsStep, Abstract!AbsNext
<1> QED
  BY <1>1, <1>2, <1>3, <1>4 DEF Immediate

\* The insert of a table, and of a view, that something of its kind may already be known of.
LEMMA AbsTableInsert ==
  ASSUME TypeOK, NEW t \in Ident, NEW f \in MetadataFile, InsertTable(t, f),
         (\A k \in published : k[2] # f) \/ <<"table", f>> \in published,
         UNCHANGED <<namespaces, views, staged>>
  PROVE  AbsStep
<1>1. CASE UNCHANGED <<tables, published>>
  BY <1>1, AbsStutter
<1>2. CASE /\ ~NameTaken(t)
           /\ tables' = [tables EXCEPT ![t] = [file |-> f, version |-> 0]]
           /\ published' = published \cup {<<"table", f>>}
  <2> DEFINE r == [file |-> f, version |-> 0]
  <2>1. r \in Record /\ r.file = f /\ f # None
    BY PointerAssumption DEF Record
  <2>2. tables' = Put(tables, t, r)
    BY <1>2 DEF Put
  <2> HIDE DEF r
  <2>3. PointerOf(tables') = Put(PointerOf(tables), t, f) /\ PointerOf(tables')[t] = f
    <3>1. tables \in [Ident -> Record \cup {None}]
      BY DEF TypeOK
    <3> QED
      BY <2>1, <2>2, <3>1, PointerPut
  <2>4. Abstract!NameFree(t)
    BY <1>2, PointersOfRecords
  <2>5. Abstract!Fresh(f) \/ <<"table", f>> \in published
    BY DEF Abstract!Fresh
  <2>6. Abstract!AbsCreateTable(t, PointerOf(tables')[t])
    BY <1>2, <2>1, <2>3, <2>4, <2>5 DEF Abstract!AbsCreateTable, Put
  <2> QED
    BY <2>6 DEF AbsStep, Abstract!AbsNext
<1> QED
  BY <1>1, <1>2 DEF InsertTable

LEMMA AbsViewInsert ==
  ASSUME TypeOK, NEW v \in Ident, NEW f \in MetadataFile, InsertView(v, f),
         (\A k \in published : k[2] # f) \/ <<"view", f>> \in published,
         UNCHANGED <<namespaces, tables, staged>>
  PROVE  AbsStep
<1>1. CASE UNCHANGED <<views, published>>
  BY <1>1, AbsStutter
<1>2. CASE /\ ~NameTaken(v)
           /\ views' = [views EXCEPT ![v] = [file |-> f, version |-> 0]]
           /\ published' = published \cup {<<"view", f>>}
  <2> DEFINE r == [file |-> f, version |-> 0]
  <2>1. r \in Record /\ r.file = f /\ f # None
    BY PointerAssumption DEF Record
  <2>2. views' = Put(views, v, r)
    BY <1>2 DEF Put
  <2> HIDE DEF r
  <2>3. PointerOf(views') = Put(PointerOf(views), v, f) /\ PointerOf(views')[v] = f
    <3>1. views \in [Ident -> Record \cup {None}]
      BY DEF TypeOK
    <3> QED
      BY <2>1, <2>2, <3>1, PointerPut
  <2>4. Abstract!NameFree(v)
    BY <1>2, PointersOfRecords
  <2>5. Abstract!Fresh(f) \/ <<"view", f>> \in published
    BY DEF Abstract!Fresh
  <2>6. Abstract!AbsCreateView(v, PointerOf(views')[v])
    BY <1>2, <2>1, <2>3, <2>4, <2>5 DEF Abstract!AbsCreateView, Put
  <2> QED
    BY <2>6 DEF AbsStep, Abstract!AbsNext
<1> QED
  BY <1>1, <1>2 DEF InsertView

LEMMA AbsInserts ==
  ASSUME TypeOK, MadeInv, NEW c \in Client,
         \/ CreateTableInsert(c) \/ RegisterTableInsert(c) \/ ViewInsert(c)
  PROVE  AbsStep
<1>1. Made(c, req[c], txn[c], wrote[c], published)
  BY DEF MadeInv
<1>2. CASE CreateTableInsert(c) \/ RegisterTableInsert(c)
  <2>1. req[c].tab \in Ident /\ req[c].file \in MetadataFile
    BY <1>2, InFlight DEF CreateTableInsert, RegisterTableInsert, InPhase
  <2>2. (\A k \in published : k[2] # req[c].file) \/ <<"table", req[c].file>> \in published
    BY <1>1, <1>2 DEF CreateTableInsert, RegisterTableInsert, InPhase, Made, Pending, Unseen
  <2> QED
    BY <1>2, <2>1, <2>2, AbsTableInsert DEF CreateTableInsert, RegisterTableInsert
<1>3. CASE ViewInsert(c)
  <2>1. req[c].tab \in Ident /\ req[c].file \in MetadataFile
    BY <1>3, InFlight DEF ViewInsert
  <2>2. (\A k \in published : k[2] # req[c].file) \/ <<"view", req[c].file>> \in published
    BY <1>1, <1>3 DEF ViewInsert, Made, Pending, Unseen
  <2> QED
    BY <1>3, <2>1, <2>2, AbsViewInsert DEF ViewInsert
<1> QED
  BY <1>2, <1>3

LEMMA AbsStageInsert ==
  ASSUME TypeOK, MadeInv, NEW c \in Client, StageCreateInsert(c)
  PROVE  AbsStep
<1> DEFINE t == req[c].tab
           f == req[c].file
<1>1. t \in Ident /\ f \in MetadataFile /\ f # None
  BY InFlight, PointerAssumption DEF StageCreateInsert, InPhase
<1>2. \A k \in published : k[2] # f
  BY DEF StageCreateInsert, InPhase, MadeInv, Made, Pending, Unseen
<1>3. /\ staged' = [staged EXCEPT ![t] = f] /\ published' = published \cup {<<"staged", f>>}
      /\ UNCHANGED <<namespaces, tables, views>>
  BY DEF StageCreateInsert
<1> HIDE DEF t, f
<1>4. staged'[t] = f
  BY <1>1, <1>3 DEF TypeOK
<1>5. Abstract!AbsStage(t, staged'[t])
  BY <1>1, <1>2, <1>3, <1>4 DEF Abstract!AbsStage, Abstract!Fresh
<1> QED
  BY <1>1, <1>5 DEF AbsStep, Abstract!AbsNext

LEMMA AbsPurgeDrop ==
  ASSUME TypeOK, NEW c \in Client, PurgeTableDrop(c)
  PROVE  AbsStep
<1> DEFINE t == req[c].tab
<1>1. t \in Ident
  BY InFlight DEF PurgeTableDrop, InPhase
<1>2. UNCHANGED <<namespaces, views, staged, published>>
  BY DEF PurgeTableDrop
<1>3. CASE UNCHANGED tables
  BY <1>2, <1>3, AbsStutter
<1>4. CASE tables[t] # None /\ tables' = [tables EXCEPT ![t] = None]
  <2> HIDE DEF t
  <2>1. tables' = Put(tables, t, None)
    BY <1>4 DEF Put
  <2>2. PointerOf(tables') = Put(PointerOf(tables), t, None)
    BY <1>1, <2>1, PointerTaken DEF TypeOK
  <2>3. Abstract!AbsDropTable(t)
    BY <1>1, <1>2, <1>4, <2>2, PointersOfRecords DEF Put, Abstract!AbsDropTable
  <2> QED
    BY <1>1, <2>3 DEF AbsStep, Abstract!AbsNext
<1> QED
  BY <1>3, <1>4 DEF PurgeTableDrop

LEMMA AbsRenameMoves ==
  ASSUME TypeOK, NEW c \in Client, RenameTableMove(c) \/ RenameViewMove(c)
  PROVE  AbsStep
<1> DEFINE s == req[c].tab
           d == req[c].dest
<1>1. s \in Ident /\ d \in Ident
  BY InFlight DEF RenameTableMove, RenameViewMove, InPhase
<1>2. UNCHANGED <<namespaces, staged, published>>
  BY DEF RenameTableMove, RenameViewMove
<1>3. ~NameTaken(d) => Abstract!NameFree(d)
  BY <1>1, PointersOfRecords
<1>4. CASE UNCHANGED <<tables, views>>
  BY <1>2, <1>4, AbsStutter
<1>5. CASE /\ tables[s] # None /\ ~NameTaken(d) /\ views' = views
           /\ tables' = [tables EXCEPT ![d] = [tables[s] EXCEPT !.version = @ + 1], ![s] = None]
  <2> DEFINE r == [tables[s] EXCEPT !.version = @ + 1]
  <2> HIDE DEF s, d
  <2>1. tables' = Put(Put(tables, d, r), s, None) /\ tables[s] # None
    BY <1>5 DEF Put
  <2>2. PointerOf(tables') = Put(Put(PointerOf(tables), d, PointerOf(tables)[s]), s, None)
    <3>1. tables \in [Ident -> Record \cup {None}]
      BY DEF TypeOK
    <3>2. tables[s] \in Record
      BY <1>1, <1>5, <3>1
    <3>3. r \in Record /\ r.file = tables[s].file
      BY <3>2 DEF Record
    <3> HIDE DEF r
    <3> QED
      BY <1>1, <2>1, <3>1, <3>3, PointerMoved
  <2> HIDE DEF r
  <2>3. Abstract!AbsRenameTable(s, d)
    BY <1>1, <1>2, <1>3, <1>5, <2>2, PointersOfRecords DEF Put, Abstract!AbsRenameTable
  <2> QED
    BY <1>1, <2>3 DEF AbsStep, Abstract!AbsNext
<1>6. CASE /\ views[s] # None /\ ~NameTaken(d) /\ tables' = tables
           /\ views' = [views EXCEPT ![d] = [views[s] EXCEPT !.version = @ + 1], ![s] = None]
  <2> DEFINE r == [views[s] EXCEPT !.version = @ + 1]
  <2> HIDE DEF s, d
  <2>1. views' = Put(Put(views, d, r), s, None) /\ views[s] # None
    BY <1>6 DEF Put
  <2>2. PointerOf(views') = Put(Put(PointerOf(views), d, PointerOf(views)[s]), s, None)
    <3>1. views \in [Ident -> Record \cup {None}]
      BY DEF TypeOK
    <3>2. views[s] \in Record
      BY <1>1, <1>6, <3>1
    <3>3. r \in Record /\ r.file = views[s].file
      BY <3>2 DEF Record
    <3> HIDE DEF r
    <3> QED
      BY <1>1, <2>1, <3>1, <3>3, PointerMoved
  <2> HIDE DEF r
  <2>3. Abstract!AbsRenameView(s, d)
    BY <1>1, <1>2, <1>3, <1>6, <2>2, PointersOfRecords DEF Put, Abstract!AbsRenameView
  <2> QED
    BY <1>1, <2>3 DEF AbsStep, Abstract!AbsNext
<1> QED
  BY <1>4, <1>5, <1>6 DEF RenameTableMove, RenameViewMove

LEMMA AbsUpdateViewSwap ==
  ASSUME TypeOK, MadeInv, UpdatesOnto, NEW c \in Client, UpdateViewSwap(c)
  PROVE  AbsStep
<1> DEFINE v == req[c].tab
           r == [file |-> req[c].file, version |-> req[c].expected.version + 1]
<1>1. v \in Ident /\ req[c].file \in MetadataFile /\ req[c].file # None
  BY InFlight, PointerAssumption DEF UpdateViewSwap, InPhase
<1>2. UNCHANGED <<namespaces, tables, staged>>
  BY DEF UpdateViewSwap
<1>3. CASE UNCHANGED <<views, published>>
  BY <1>2, <1>3, AbsStutter
<1>4. CASE /\ views[v] # None /\ views[v] = req[c].expected
           /\ views' = [views EXCEPT ![v] = r]
           /\ published' = published \cup {<<"view", req[c].file>>}
  <2>1. r \in Record /\ r.file = req[c].file
    <3>1. req[c].expected \in Record
      BY <1>1, <1>4 DEF TypeOK
    <3> QED
      BY <1>1, <3>1 DEF Record
  <2>2. WrittenOnto(r.file, views[v].file) /\ \A k \in published : k[2] # r.file
    BY <1>4, <2>1 DEF UpdatesOnto, UpdateViewSwap, InPhase, MadeInv, Made, Pending, Unseen
  <2>3. views' = Put(views, v, r) /\ views[v] # None /\ published' = published \cup {<<"view", r.file>>}
    BY <1>4, <2>1 DEF Put
  <2>4. r.file # None
    BY <1>1, <2>1
  <2> HIDE DEF v, r
  <2>5. PointerOf(views') = Put(PointerOf(views), v, r.file) /\ PointerOf(views')[v] = r.file
    <3>1. views \in [Ident -> Record \cup {None}]
      BY DEF TypeOK
    <3> QED
      BY <1>1, <2>1, <2>3, <3>1, PointerPut
  <2>6. PointerOf(views)[v] = views[v].file /\ PointerOf(views)[v] # None
    BY <1>1, <2>3, PointersOfRecords
  <2>7. Abstract!Fresh(r.file) /\ Abstract!WrittenOn(r.file, PointerOf(views)[v])
    BY <2>2, <2>6 DEF WrittenOnto, Abstract!WrittenOn, Abstract!Fresh
  <2>8. Abstract!AbsUpdateView(v, PointerOf(views')[v])
    BY <1>2, <2>3, <2>4, <2>5, <2>6, <2>7 DEF Put, Abstract!AbsUpdateView
  <2> QED
    BY <1>1, <2>8 DEF AbsStep, Abstract!AbsNext
<1> QED
  BY <1>3, <1>4 DEF UpdateViewSwap, Unmoved

\* A transaction prepares each table once.
LEMMA PreparedOnce ==
  ASSUME MadeInv, NEW c \in Client, NEW i \in DOMAIN txn[c].prepared,
         NEW j \in DOMAIN txn[c].prepared, txn[c].prepared[i].tab = txn[c].prepared[j].tab
  PROVE  i = j
<1>1. InOrder(txn[c])
  BY DEF MadeInv, Made
<1> QED
  BY <1>1 DEF InOrder

\* What a swap puts under the name of each table it prepared, and nowhere else.
LEMMA Swapped ==
  ASSUME TypeOK, MadeInv, NEW c \in Client, CommitSwap(c)
  PROVE  /\ \A i \in DOMAIN txn[c].prepared :
              /\ tables'[txn[c].prepared[i].tab] = NextRecord(txn[c].prepared[i])
              /\ Lands(txn[c].prepared[i])
              /\ NextRecord(txn[c].prepared[i]) \in Record
         /\ \A t \in Ident : (\A i \in DOMAIN txn[c].prepared : txn[c].prepared[i].tab # t)
                             => tables'[t] = tables[t]
<1> DEFINE all == txn[c].prepared
<1>1. ASSUME NEW i \in DOMAIN all
      PROVE  /\ tables'[all[i].tab] = NextRecord(all[i])
             /\ Lands(all[i])
             /\ NextRecord(all[i]) \in Record
  <2>1. all[i] \in Prepared /\ all[i].tab \in Ident
    BY AttemptType DEF Prepared
  <2>2. SwapOf(c, all[i].tab) = {i}
    BY PreparedOnce DEF SwapOf
  <2>3. (CHOOSE j \in SwapOf(c, all[i].tab) : TRUE) = i /\ SwapOf(c, all[i].tab) # {}
    BY <2>2
  <2>4. tables'[all[i].tab] = NextRecord(all[i])
    BY <2>1, <2>3 DEF CommitSwap
  <2>5. Lands(all[i])
    BY DEF CommitSwap, Refused
  <2> QED
    BY <2>1, <2>4, <2>5, NextRecordType
<1>2. ASSUME NEW t \in Ident, \A i \in DOMAIN all : all[i].tab # t
      PROVE  tables'[t] = tables[t]
  <2>1. SwapOf(c, t) = {}
    BY <1>2 DEF SwapOf
  <2> QED
    BY <2>1 DEF CommitSwap
<1> QED
  BY <1>1, <1>2

LEMMA AbsCommitSwap ==
  ASSUME TypeOK, MadeInv, PreparedOnto, NEW c \in Client, CommitSwap(c)
  PROVE  AbsStep
<1> DEFINE all == txn[c].prepared
           S   == {all[i].tab : i \in DOMAIN all}
           new == PointerOf(tables')
<1>1. /\ \A i \in DOMAIN all : all[i].tab \in Ident /\ all[i].file \in MetadataFile
      /\ S # {} /\ S \in SUBSET Ident
  <2>1. all # <<>>
    BY DEF TypeOK, RequestsFitPhase, CommitSwap, InPhase
  <2>2. all \in Seq(Prepared) /\ \A i \in DOMAIN all : all[i] \in Prepared
    BY AttemptType
  <2>3. DOMAIN all # {}
    BY <2>1, <2>2
  <2> HIDE DEF all
  <2>4. \A i \in DOMAIN all : all[i].tab \in Ident /\ all[i].file \in MetadataFile
    BY <2>2 DEF Prepared
  <2> QED
    BY <2>3, <2>4
<1>2. \A i \in DOMAIN all : /\ tables'[all[i].tab] = NextRecord(all[i])
                            /\ Lands(all[i]) /\ NextRecord(all[i]) \in Record
  BY Swapped
<1>3. \A i \in DOMAIN all : new[all[i].tab] = all[i].file /\ all[i].file # None
  <2> TAKE i \in DOMAIN all
  <2>1. NextRecord(all[i]) # None /\ NextRecord(all[i]).file = all[i].file
    BY <1>2, PointerAssumption DEF NextRecord
  <2> QED
    BY <1>1, <1>2, <2>1, PointerAssumption DEF PointerOf
<1>4. \A t \in Ident \ S : new[t] = PointerOf(tables)[t]
  <2> TAKE t \in Ident \ S
  <2>1. tables'[t] = tables[t]
    BY Swapped
  <2> QED
    BY <2>1 DEF PointerOf
<1>5. \A i \in DOMAIN all : Abstract!Fresh(all[i].file)
  <2> TAKE i \in DOMAIN all
  <2>1. all[i].file \in Pending(req[c], txn[c])
    BY DEF Pending
  <2>2. Unseen(c, all[i].file, wrote[c], published)
    BY <2>1 DEF MadeInv, Made
  <2> QED
    BY <2>2 DEF Unseen, Abstract!Fresh
<1>6. ASSUME NEW i \in DOMAIN all, all[i].expected = None
      PROVE  /\ tables[all[i].tab] = None /\ views[all[i].tab] = None
             /\ NsOf[all[i].tab] \in namespaces
             /\ \E k \in published : k[1] = "staged" /\ Abstract!WrittenOn(all[i].file, k[2])
  <2>1. NamespaceExists(all[i].tab) /\ ~NameTaken(all[i].tab)
    BY <1>2, <1>6 DEF Lands
  <2>2. \E k \in published : k[1] = "staged" /\ WrittenOnto(all[i].file, k[2])
    BY <1>6 DEF MadeInv, Made, FromStaging
  <2> QED
    BY <2>1, <2>2 DEF NamespaceExists, NameTaken, WrittenOnto, Abstract!WrittenOn
<1>7. ASSUME NEW i \in DOMAIN all, all[i].expected # None
      PROVE  /\ tables[all[i].tab] # None
             /\ Abstract!WrittenOn(all[i].file, PointerOf(tables)[all[i].tab])
  <2>1. tables[all[i].tab] = all[i].expected
    BY <1>2, <1>7 DEF Lands
  <2>2. PointerOf(tables)[all[i].tab] = all[i].expected.file
    BY <1>1, <1>7, <2>1 DEF PointerOf
  <2> QED
    BY <1>7, <2>1, <2>2 DEF PreparedOnto, WrittenOnto, Abstract!WrittenOn
<1>8. /\ staged' = [t \in Ident |->
           IF \E i \in SwapOf(c, t) : all[i].expected = None THEN None ELSE staged[t]]
      /\ published' = published \cup {<<"table", all[i].file>> : i \in DOMAIN all}
      /\ UNCHANGED <<namespaces, views>>
  BY DEF CommitSwap
<1>9. \A t \in Ident : \/ staged'[t] = staged[t]
                       \/ t \in S /\ PointerOf(tables)[t] = None /\ staged'[t] = None
  <2> TAKE t \in Ident
  <2>1. CASE \E i \in SwapOf(c, t) : all[i].expected = None
    <3>1. PICK i \in DOMAIN all : all[i].tab = t /\ all[i].expected = None
      BY <2>1 DEF SwapOf
    <3>2. PointerOf(tables)[t] = None
      BY <1>6, <3>1 DEF PointerOf
    <3> QED
      BY <1>8, <2>1, <3>1, <3>2
  <2>2. CASE ~\E i \in SwapOf(c, t) : all[i].expected = None
    BY <1>8, <2>2
  <2> QED
    BY <2>1, <2>2
<1> HIDE DEF all
<1>10. ASSUME NEW t \in S
       PROVE  /\ new[t] # None
              /\ Abstract!Fresh(new[t])
              /\ IF PointerOf(tables)[t] # None
                 THEN Abstract!WrittenOn(new[t], PointerOf(tables)[t])
                 ELSE /\ PointerOf(views)[t] = None
                      /\ NsOf[t] \in namespaces
                      /\ \E k \in published : k[1] = "staged" /\ Abstract!WrittenOn(new[t], k[2])
  <2>1. PICK i \in DOMAIN all : t = all[i].tab
    OBVIOUS
  <2>2. new[t] = all[i].file /\ all[i].file # None /\ Abstract!Fresh(all[i].file) /\ t \in Ident
    BY <1>1, <1>3, <1>5, <2>1
  <2> HIDE DEF S, new
  <2>3. CASE all[i].expected = None
    <3>1. PointerOf(tables)[t] = None /\ PointerOf(views)[t] = None
      BY <1>6, <2>1, <2>2, <2>3, PointersOfRecords
    <3> QED
      BY <1>6, <2>1, <2>2, <2>3, <3>1
  <2>4. CASE all[i].expected # None
    <3>1. PointerOf(tables)[t] # None
      BY <1>7, <2>1, <2>2, <2>4, PointersOfRecords
    <3> QED
      BY <1>7, <2>1, <2>2, <2>4, <3>1
  <2> QED
    BY <2>3, <2>4
<1>11. published' = published \cup {<<"table", new[t]>> : t \in S}
  BY <1>3, <1>8
<1>12. DOMAIN new = Ident /\ DOMAIN staged' = Ident
  BY <1>8 DEF PointerOf
<1> HIDE DEF S
<1>13. Abstract!AbsCommit(S)
  BY <1>1, <1>4, <1>8, <1>9, <1>10, <1>11, <1>12 DEF Abstract!AbsCommit
<1> QED
  BY <1>1, <1>13 DEF AbsStep, Abstract!AbsNext

LEMMA NextAbs == TypeOK /\ MadeInv /\ PreparedOnto /\ UpdatesOnto /\ [Next]_vars => AbsStep
<1> SUFFICES ASSUME TypeOK, MadeInv, PreparedOnto, UpdatesOnto, [Next]_vars PROVE AbsStep
  OBVIOUS
<1>1. CASE Immediate
  BY <1>1, AbsImmediate
<1>2. ASSUME NEW c \in Client, Arrive(c) PROVE AbsStep
  <2>1. UNCHANGED <<registry, published>>
    BY <1>2 DEF Arrive, CreateTableStart, StageCreateStart, CreateStart, RegisterTableStart,
       PurgeTableLoad, PurgeStart, RenameTableStart, CommitStart, CreateViewStart,
       RegisterViewStart, UpdateViewStart, RenameViewStart
  <2> QED
    BY <2>1, AbsStutter DEF registry
<1>3. ASSUME NEW c \in Client, Continue(c) PROVE AbsStep
  <2>1. CASE \/ CreateTablePrepare(c) \/ StageCreatePrepare(c) \/ CreateViewPrepare(c)
             \/ \E k \in published : RegisterTableRead(c, k[2]) \/ RegisterViewRead(c, k[2])
             \/ PurgeTableDelete(c) \/ UpdateViewPrepare(c)
    <3>1. UNCHANGED <<registry, published>>
      BY <2>1 DEF CreateTablePrepare, StageCreatePrepare, CreateViewPrepare, RegisterTableRead,
         RegisterViewRead, PurgeTableDelete, UpdateViewPrepare
    <3> QED
      BY <3>1, AbsStutter DEF registry
  <2>2. CASE CommitPrepare(c) \/ CommitRefused(c) \/ CommitNotFound(c) \/ CommitSwapLost(c)
             \/ CommitDiscard(c)
    <3>1. UNCHANGED <<registry, published>>
      BY <2>2 DEF CommitPrepare, CommitRefused, CommitNotFound, CommitSwapLost, CommitDiscard
    <3> QED
      BY <3>1, AbsStutter DEF registry
  <2>3. CASE CreateTableInsert(c) \/ RegisterTableInsert(c) \/ ViewInsert(c)
    BY <2>3, AbsInserts
  <2>4. CASE StageCreateInsert(c) \/ PurgeTableDrop(c) \/ UpdateViewSwap(c) \/ CommitSwap(c)
             \/ RenameTableMove(c) \/ RenameViewMove(c)
    BY <2>4, AbsStageInsert, AbsPurgeDrop, AbsUpdateViewSwap, AbsCommitSwap, AbsRenameMoves
  <2> QED
    BY <1>3, <2>1, <2>2, <2>3, <2>4 DEF Continue
<1>4. ASSUME NEW c \in Client, Abandon(c) PROVE AbsStep
  BY <1>4, AbsStutter DEF Abandon, registry
<1>5. CASE UNCHANGED vars
  BY <1>5, AbsStutter DEF vars
<1> QED
  BY <1>1, <1>2, <1>3, <1>4, <1>5 DEF Next

LEMMA InitAbs == Init => Abstract!AbsInit
<1> SUFFICES ASSUME Init PROVE Abstract!AbsInit
  OBVIOUS
<1>1. \A t \in Ident : SeedFile(t) \in MetadataFile
  BY DEF SeedFile, MetadataFile, WriteId
<1>2. \A S : PointerOf(SeedRecords(S)) = [t \in Ident |-> IF t \in S THEN SeedFile(t) ELSE None]
  <2>1. \A S : \A t \in Ident : SeedRecords(S)[t] = None <=> t \notin S
    BY <1>1, PointerAssumption DEF SeedRecords, Record
  <2>2. \A S : \A t \in Ident : t \in S => SeedRecords(S)[t].file = SeedFile(t)
    BY DEF SeedRecords
  <2> QED
    BY <2>1, <2>2 DEF PointerOf
<1>3. published = {<<"table", SeedFile(t)>> : t \in InitTables}
                  \cup {<<"view", SeedFile(v)>> : v \in InitViews}
  BY DEF Init
<1> QED
  BY <1>2, <1>3 DEF Init, Abstract!AbsInit

\* The invariant the refinement and the atomicity of commits rest on.
LEMMA PointersHold == Spec => [](TypeOK /\ MadeInv /\ PreparedOnto /\ UpdatesOnto)
<1>1. Init => TypeOK /\ MadeInv /\ PreparedOnto /\ UpdatesOnto
  BY TypeInit, InitMade DEF Init, PreparedOnto, UpdatesOnto, NoTransaction, Idle
<1>2. TypeOK /\ MadeInv /\ PreparedOnto /\ UpdatesOnto /\ [Next]_vars
        => (TypeOK /\ MadeInv /\ PreparedOnto /\ UpdatesOnto)'
  BY TypeNext, NextMade, PreparedNext, UpdatesNext
<1> QED
  BY <1>1, <1>2, PTL DEF Spec

\* The embedded backend implements the catalog's contract (the CatalogStore trait of
\* src/catalog/store.rs): however requests interleave, fail or are cut off, the registry
\* changes only by the contract's moves, each of them at once, and a commit over several
\* tables is one move (the transactions of src/catalog/redb.rs).
THEOREM LinearizableHolds == Spec => Linearizable
<1>1. TypeOK /\ MadeInv /\ PreparedOnto /\ UpdatesOnto /\ [Next]_vars
        => [Abstract!AbsNext]_Abstract!absVars
  BY NextAbs DEF AbsStep
<1> QED
  BY <1>1, InitAbs, PointersHold, PTL DEF Spec, Linearizable, Abstract!AbsSpec

-----------------------------------------------------------------------------
(* A transaction lands whole: only its own swap can publish what it prepared. *)

\* A file a client has written is published by that client alone.
LEMMA PublishedByItsWriter ==
  ASSUME TypeOK, MadeInv, NEW c \in Client, NEW d \in Client, c # d,
         NEW f \in Pending(req[c], txn[c]), NEW g \in Pending(req[d], txn[d])
  PROVE  f # g
<1>1. Unseen(c, f, wrote[c], published) /\ Unseen(d, g, wrote[d], published)
  BY DEF MadeInv, Made
<1>2. PICK m, n : f[Len(f)] = <<c, m>> /\ g[Len(g)] = <<d, n>>
  BY <1>1 DEF Unseen
<1> QED
  BY <1>2

\* What a step publishes as a table, and who may have.
Announces(d) ==
  \A f : Publishes(f) => f \in Pending(req[d], txn[d]) /\ (req[d].op = "commit" => CommitSwap(d))

LEMMA StepAnnounces ==
  ASSUME TypeOK, MadeInv, NEW d \in Client, Continue(d)
  PROVE  Announces(d)
<1>1. Made(d, req[d], txn[d], wrote[d], published)
  BY DEF MadeInv
<1>2. CASE CreateTableInsert(d)
  <2>1. req[d].op = "create_table" /\ req[d].phase = "insert"
    BY <1>2 DEF CreateTableInsert, InPhase
  <2>2. req[d].file \in Pending(req[d], txn[d])
    BY <2>1 DEF Pending
  <2> QED
    BY <1>2, <2>1, <2>2 DEF CreateTableInsert, InsertTable, Publishes, Announces
<1>3. CASE RegisterTableInsert(d)
  BY <1>1, <1>3 DEF RegisterTableInsert, InPhase, InsertTable, Made, Publishes, Announces
<1>4. CASE CommitSwap(d)
  <2>1. \A f : Publishes(f) => f \in Pending(req[d], txn[d])
    BY <1>4 DEF CommitSwap, Pending, Publishes
  <2> QED
    BY <1>4, <2>1 DEF Announces
<1>5. CASE StageCreateInsert(d) \/ ViewInsert(d) \/ UpdateViewSwap(d)
  BY <1>5 DEF StageCreateInsert, ViewInsert, InsertView, UpdateViewSwap, Publishes, Announces
<1>6. CASE published' = published
  BY <1>6 DEF Publishes, Announces
<1> QED
  BY <1>2, <1>3, <1>4, <1>5, <1>6 DEF Continue, CreateTablePrepare, StageCreatePrepare,
     RegisterTableRead, PurgeTableDrop, PurgeTableDelete, RenameTableMove, CommitPrepare,
     CommitRefused, CommitNotFound, CommitSwapLost, CommitDiscard, CreateViewPrepare,
     RegisterViewRead, UpdateViewPrepare, RenameViewMove

Whole(c) ==
  LET all == txn[c].prepared
  IN (\E i \in DOMAIN all : Publishes(all[i].file))
     => /\ Len(all) = Len(txn[c].changes)
        /\ \A i \in DOMAIN all :
             tables'[all[i].tab] # None /\ tables'[all[i].tab].file = all[i].file

LEMMA SwapIsWhole ==
  ASSUME TypeOK, MadeInv, NEW c \in Client, CommitSwap(c)
  PROVE  Whole(c)
<1> DEFINE all == txn[c].prepared
<1>1. Len(all) = Len(txn[c].changes)
  BY DEF TypeOK, RequestsFitPhase, CommitSwap, InPhase
<1>2. ASSUME NEW i \in DOMAIN all
      PROVE  tables'[all[i].tab] # None /\ tables'[all[i].tab].file = all[i].file
  <2>1. tables'[all[i].tab] = NextRecord(all[i]) /\ NextRecord(all[i]) \in Record
    BY Swapped
  <2> QED
    BY <2>1, PointerAssumption DEF NextRecord
<1> QED
  BY <1>1, <1>2 DEF Whole

LEMMA NextWhole ==
  ASSUME TypeOK, MadeInv, [Next]_vars, NEW c \in Client
  PROVE  Whole(c)
<1> DEFINE all == txn[c].prepared
<1> SUFFICES ASSUME NEW i \in DOMAIN all, Publishes(all[i].file)
             PROVE  Whole(c)
  BY DEF Whole
<1>1. published' # published
  BY DEF Publishes
<1>2. PICK d \in Client : Continue(d)
  <2>1. ASSUME NEW d \in Client, Arrive(d) \/ Abandon(d) PROVE published' = published
    BY <2>1 DEF Arrive, Abandon, CreateTableStart, StageCreateStart, CreateStart,
       RegisterTableStart, PurgeTableLoad, PurgeStart, RenameTableStart, CommitStart,
       CreateViewStart, RegisterViewStart, UpdateViewStart, RenameViewStart
  <2>2. CASE Immediate \/ UNCHANGED vars
    BY <1>1, <2>2 DEF Immediate, CreateNamespace, DropNamespace, DropTable, DropView, vars
  <2> QED
    BY <1>1, <2>1, <2>2 DEF Next
<1>3. all[i].file \in Pending(req[d], txn[d]) /\ (req[d].op = "commit" => CommitSwap(d))
  BY <1>2, StepAnnounces DEF Announces
<1>4. all[i].file \in Pending(req[c], txn[c])
  BY DEF Pending
<1>5. d = c
  BY <1>3, <1>4, PublishedByItsWriter
<1>6. req[c].op = "commit"
  <2>1. Made(c, req[c], txn[c], wrote[c], published)
    BY DEF MadeInv
  <2> QED
    BY <2>1 DEF Made
<1> QED
  BY <1>3, <1>5, <1>6, SwapIsWhole

\* A multi-table transaction lands whole or not at all, whoever else commits, creates or
\* registers meanwhile: only the swap of the request that prepared a file publishes it, and
\* that swap publishes the files of all its tables (redb.rs:1569-1577 and 1684-1794).
THEOREM AtomicTransactionHolds == Spec => AtomicTransaction
<1>1. TypeOK /\ MadeInv /\ PreparedOnto /\ UpdatesOnto /\ [Next]_vars
        => [\A c \in Client : Whole(c)]_vars
  BY NextWhole
<1> QED
  BY <1>1, PointersHold, PTL DEF Spec, AtomicTransaction, Whole

-----------------------------------------------------------------------------
(* What is readable stays so.  A purge deletes the whole ancestry of the file *)
(* it loaded, so it is safe as long as no other name shares that ancestry:   *)
(* each table then has a root of its own, the first write of its history.    *)

Purging == "purge_table" \in Enabled

\* What lets two names share a file: a purge by one of them takes it from the other.
Sharing == {"rename_table", "register_table", "stage_create_table"}

Apart(f, g) == f[1] # g[1]

\* Everything a record points at, and its history, has been pointed at.
KnownPointers ==
  /\ \A t \in Ident : tables[t] # None => <<"table", tables[t].file>> \in published
  /\ \A v \in Ident : views[v] # None => <<"view", views[v].file>> \in published
  /\ \A k \in published : k[2] # <<>>

KnownAncestry == \A k \in published : \A f \in Ancestry(k[2]) : \E j \in published : j[2] = f

\* No table shares a file with a view.
KindsApart ==
  \A k, j \in published : k[1] = "view" /\ j[1] # "view" => Apart(k[2], j[2])

\* What has been written and is not published yet, and what no purge takes, is there.
KeptFiles ==
  /\ \A c \in Client : \A f \in Pending(req[c], txn[c]) : f \in files
  /\ \A k \in published : k[1] = "view" \/ ~Purging => k[2] \in files

\* A purge on its way has the root of its table to itself.
PurgesAlone(c) ==
  req[c].op = "purge_table" =>
    /\ req[c].phase \in {"drop", "delete"} => <<"table", req[c].file>> \in published
    /\ req[c].phase = "drop" =>
         \A t \in Live \ {req[c].tab} : Apart(tables[t].file, req[c].file)
    /\ req[c].phase = "delete" => \A t \in Live : Apart(tables[t].file, req[c].file)

PurgesSafe ==
  Purging =>
    /\ \A k \in published : k[1] # "staged"
    /\ \A t \in Live : Ancestry(tables[t].file) \subseteq files
    /\ \A s, t \in Live : s # t => Apart(tables[s].file, tables[t].file)
    /\ \A c \in Client : PurgesAlone(c)

\* Only what is enabled is under way, and what is created starts a history.
Served(r) ==
  /\ r.phase = "idle" \/ r.op \in Enabled
  /\ r.op \in {"create_table", "stage_create_table", "create_view"} /\ r.phase = "insert"
       => Len(r.file) = 1

RequestsEnabled == \A c \in Client : Served(req[c])

ReadInv ==
  /\ KnownPointers
  /\ KnownAncestry
  /\ KindsApart
  /\ KeptFiles
  /\ PurgesSafe
  /\ RequestsEnabled

LEMMA AncestryFacts ==
  ASSUME NEW f \in MetadataFile, f # <<>>
  PROVE  /\ f \in Ancestry(f)
         /\ <<f[1]>> \in Ancestry(f)
         /\ \A g \in Ancestry(f) : g \in MetadataFile /\ g # <<>> /\ g[1] = f[1]
<1>1. f \in Seq(WriteId) /\ Len(f) \in Nat /\ Len(f) >= 1
  BY DEF MetadataFile
<1>2. ASSUME NEW i \in 1..Len(f)
      PROVE  /\ SubSeq(f, 1, i) \in Seq(WriteId) /\ Len(SubSeq(f, 1, i)) = i
             /\ \A j \in 1..i : SubSeq(f, 1, i)[j] = f[j]
  BY <1>1
<1>3. SubSeq(f, 1, Len(f)) = f
  BY <1>1, <1>2, SeqEqual
<1>4. SubSeq(f, 1, 1) = <<f[1]>>
  <2> DEFINE g == SubSeq(f, 1, 1)
             h == <<f[1]>>
  <2>1. h \in Seq(WriteId) /\ Len(h) = 1 /\ h[1] = f[1]
    BY <1>1
  <2>2. g \in Seq(WriteId) /\ Len(g) = 1 /\ g[1] = f[1]
    BY <1>1, <1>2
  <2> HIDE DEF g, h
  <2>3. \A i \in 1..Len(g) : g[i] = h[i]
    BY <2>1, <2>2
  <2>4. g = h
    BY <2>1, <2>2, <2>3, SeqEqual
  <2> QED
    BY <2>4 DEF g, h
<1>5. \A g \in Ancestry(f) : g \in MetadataFile /\ g # <<>> /\ g[1] = f[1]
  <2> TAKE g \in Ancestry(f)
  <2>1. PICK i \in 1..Len(f) : g = SubSeq(f, 1, i)
    BY DEF Ancestry
  <2> QED
    BY <1>2, <2>1 DEF MetadataFile
<1>6. 1 \in 1..Len(f) /\ Len(f) \in 1..Len(f)
  BY <1>1
<1>7. SubSeq(f, 1, 1) \in Ancestry(f) /\ SubSeq(f, 1, Len(f)) \in Ancestry(f)
  BY <1>6 DEF Ancestry
<1> QED
  BY <1>3, <1>4, <1>5, <1>7

LEMMA OntoAncestry ==
  ASSUME NEW f \in MetadataFile, NEW old \in MetadataFile, old # <<>>, WrittenOnto(f, old)
  PROVE  /\ f # <<>> /\ f[1] = old[1]
         /\ Ancestry(f) = Ancestry(old) \cup {f}
<1>1. /\ f \in Seq(WriteId) /\ old \in Seq(WriteId)
      /\ Len(f) = Len(old) + 1 /\ SubSeq(f, 1, Len(old)) = old
      /\ Len(old) \in Nat /\ Len(old) >= 1 /\ Len(f) \in Nat
  BY DEF MetadataFile, WrittenOnto
<1>2. \A j \in 1..Len(old) : f[j] = old[j]
  BY <1>1
<1>3. ASSUME NEW i \in 1..Len(old)
      PROVE  SubSeq(f, 1, i) = SubSeq(old, 1, i)
  <2>1. /\ SubSeq(f, 1, i) \in Seq(WriteId) /\ Len(SubSeq(f, 1, i)) = i
        /\ \A j \in 1..i : SubSeq(f, 1, i)[j] = f[j]
    BY <1>1
  <2>2. /\ SubSeq(old, 1, i) \in Seq(WriteId) /\ Len(SubSeq(old, 1, i)) = i
        /\ \A j \in 1..i : SubSeq(old, 1, i)[j] = old[j]
    BY <1>1
  <2>3. \A j \in 1..i : SubSeq(f, 1, i)[j] = SubSeq(old, 1, i)[j]
    BY <1>2, <2>1, <2>2
  <2> QED
    BY <2>1, <2>2, <2>3, SeqEqual
<1>4. f # <<>> /\ f[1] = old[1]
  BY <1>1, <1>2
<1>5. SubSeq(f, 1, Len(f)) = f
  <2>1. /\ SubSeq(f, 1, Len(f)) \in Seq(WriteId) /\ Len(SubSeq(f, 1, Len(f))) = Len(f)
        /\ \A j \in 1..Len(f) : SubSeq(f, 1, Len(f))[j] = f[j]
    BY <1>1
  <2> QED
    BY <1>1, <2>1, SeqEqual
<1>6. 1..Len(f) = 1..Len(old) \cup {Len(f)}
  BY <1>1
<1>7. Ancestry(f) = Ancestry(old) \cup {f}
  BY <1>3, <1>5, <1>6 DEF Ancestry
<1> QED
  BY <1>4, <1>7

LEMMA FirstAncestry ==
  ASSUME NEW f \in MetadataFile, Len(f) = 1
  PROVE  Ancestry(f) = {f} /\ f = <<f[1]>>
<1>1. f \in Seq(WriteId)
  BY DEF MetadataFile
<1>2. f = <<f[1]>>
  <2> DEFINE h == <<f[1]>>
  <2>1. h \in Seq(WriteId) /\ Len(h) = 1 /\ h[1] = f[1]
    BY <1>1
  <2> HIDE DEF h
  <2>2. \A i \in 1..Len(f) : f[i] = h[i]
    BY <2>1
  <2>3. f = h
    BY <1>1, <2>1, <2>2, SeqEqual
  <2> QED
    BY <2>3 DEF h
<1>3. SubSeq(f, 1, 1) = f
  <2> DEFINE g == SubSeq(f, 1, 1)
  <2>1. g \in Seq(WriteId) /\ Len(g) = 1 /\ g[1] = f[1]
    BY <1>1
  <2> HIDE DEF g
  <2>2. \A i \in 1..Len(f) : f[i] = g[i]
    BY <2>1
  <2>3. f = g
    BY <1>1, <2>1, <2>2, SeqEqual
  <2> QED
    BY <2>3 DEF g
<1>4. Ancestry(f) = {SubSeq(f, 1, 1)}
  BY DEF Ancestry
<1> QED
  BY <1>2, <1>3, <1>4

-----------------------------------------------------------------------------
\* A step publishes the next file of a history, or the first of a new one.
PublishesNext ==
  \A k \in published' : k \in published \/
    \E j \in published : WrittenOnto(k[2], j[2]) /\ (k[1] = "view" <=> j[1] = "view")

PublishesFirst ==
  \E k : /\ published' = published \cup {k} /\ Len(k[2]) = 1
         /\ \A j \in published : j[2] # k[2]

\* The root of a new history is nobody's.
LEMMA FirstIsApart ==
  ASSUME TypeOK, KnownPointers, KnownAncestry, NEW f \in MetadataFile, Len(f) = 1,
         \A j \in published : j[2] # f, NEW j \in published
  PROVE  Apart(f, j[2])
<1>1. j[2] \in MetadataFile /\ j[2] # <<>>
  BY DEF TypeOK, KnownPointers
<1>2. <<j[2][1]>> \in Ancestry(j[2])
  BY <1>1, AncestryFacts
<1>3. <<j[2][1]>> # f
  BY <1>2 DEF KnownAncestry
<1> QED
  BY <1>3, FirstAncestry DEF Apart

LEMMA HistoriesKept ==
  ASSUME TypeOK, TypeOK', KnownPointers, KnownAncestry, KindsApart,
         published \subseteq published', PublishesNext \/ PublishesFirst
  PROVE  KnownAncestry' /\ KindsApart' /\ \A k \in published' : k[2] # <<>>
<1>1. \A k \in published' : k[2] \in MetadataFile
  BY DEF TypeOK
<1>2. \A k \in published : k[2] \in MetadataFile /\ k[2] # <<>>
  BY DEF TypeOK, KnownPointers
<1>3. CASE PublishesNext
  <2>1. ASSUME NEW k \in published'
        PROVE  /\ k[2] # <<>>
               /\ \A f \in Ancestry(k[2]) : \E j \in published' : j[2] = f
               /\ \E j \in published : k[2][1] = j[2][1] /\ (k[1] = "view" <=> j[1] = "view")
    <3>1. CASE k \in published
      BY <1>2, <3>1 DEF KnownAncestry
    <3>2. CASE k \notin published
      <4>1. PICK j \in published : WrittenOnto(k[2], j[2]) /\ (k[1] = "view" <=> j[1] = "view")
        BY <1>3, <3>2 DEF PublishesNext
      <4>2. k[2] # <<>> /\ k[2][1] = j[2][1] /\ Ancestry(k[2]) = Ancestry(j[2]) \cup {k[2]}
        BY <1>1, <1>2, <4>1, OntoAncestry
      <4> QED
        BY <4>1, <4>2 DEF KnownAncestry
    <3> QED
      BY <3>1, <3>2
  <2>2. KindsApart'
    BY <2>1 DEF KindsApart, Apart
  <2> QED
    BY <2>1, <2>2 DEF KnownAncestry
<1>4. CASE PublishesFirst
  <2>1. PICK k : /\ published' = published \cup {k} /\ Len(k[2]) = 1
                 /\ \A j \in published : j[2] # k[2]
    BY <1>4 DEF PublishesFirst
  <2>2. k[2] \in MetadataFile /\ k[2] # <<>> /\ Ancestry(k[2]) = {k[2]}
    BY <1>1, <2>1, FirstAncestry
  <2>3. \A j \in published : Apart(k[2], j[2]) /\ Apart(j[2], k[2])
    BY <2>1, <2>2, FirstIsApart DEF Apart
  <2>4. KindsApart'
    BY <2>1, <2>3 DEF KindsApart
  <2>5. KnownAncestry'
    BY <2>1, <2>2 DEF KnownAncestry
  <2> QED
    BY <1>2, <2>1, <2>2, <2>4, <2>5
<1> QED
  BY <1>3, <1>4

-----------------------------------------------------------------------------
LEMMA ServedStep ==
  ASSUME TypeOK, RequestsEnabled, NEW c \in Client, Arrive(c) \/ Continue(c) \/ Abandon(c)
  PROVE  Served(req'[c])
<1>1. DOMAIN req = Client /\ Served(Idle) /\ Served(req[c])
  BY DEF TypeOK, Served, Idle, RequestsEnabled
<1>2. ASSUME Finish(c) PROVE Served(req'[c])
  BY <1>1, <1>2 DEF Finish
<1>3. ASSUME NEW r, Begin(c, r), r.phase # "insert" PROVE Served(req'[c])
  BY <1>1, <1>3 DEF Begin, Served
<1>15. ASSUME NEW p, NEW f, Advance(c, p, f)
       PROVE  req'[c].op = req[c].op /\ req'[c].phase = p /\ req'[c].file = f
  <2>1. req[c] \in Request
    BY DEF TypeOK
  <2> QED
    BY <1>1, <1>15, <2>1 DEF Advance, Request
<1>16. ASSUME NEW p, req' = [req EXCEPT ![c].phase = p]
       PROVE  req'[c].op = req[c].op /\ req'[c].phase = p
  <2>1. req[c] \in Request
    BY DEF TypeOK
  <2> QED
    BY <1>1, <1>16, <2>1 DEF Request
<1>4. CASE Arrive(c)
  <2>1. ASSUME NEW op, NEW t PROVE \A p : p # "insert" => On(op, p, t).phase # "insert"
    BY DEF On, Idle
  <2>2. CASE CommitStart(c)
    BY <1>3, <2>2 DEF CommitStart, Idle
  <2>3. CASE \E t \in Ident : \/ CreateTableStart(c, t) \/ StageCreateStart(c, t)
                              \/ RegisterTableStart(c, t) \/ CreateViewStart(c, t)
                              \/ RegisterViewStart(c, t)
    BY <1>3, <2>1, <2>3 DEF CreateTableStart, StageCreateStart, CreateStart, RegisterTableStart,
       CreateViewStart, RegisterViewStart
  <2>4. CASE \E t \in Ident : PurgeTableLoad(c, t) \/ UpdateViewStart(c, t)
    BY <1>3, <2>4 DEF PurgeTableLoad, PurgeStart, UpdateViewStart, On, Idle
  <2>5. CASE \E s, d \in Ident : RenameTableStart(c, s, d) \/ RenameViewStart(c, s, d)
    BY <1>3, <2>5 DEF RenameTableStart, RenameViewStart, On, Idle
  <2> QED
    BY <1>4, <2>2, <2>3, <2>4, <2>5 DEF Arrive
<1>5. CASE CreateTablePrepare(c) \/ StageCreatePrepare(c) \/ CreateViewPrepare(c)
  <2>1. Len(<<FreshId(c)>>) = 1
    OBVIOUS
  <2> QED
    BY <1>1, <1>2, <1>5, <1>15, <2>1 DEF CreateTablePrepare, StageCreatePrepare,
       CreateViewPrepare, FirstFile, Served, InPhase
<1>6. CASE \E k \in published : RegisterTableRead(c, k[2]) \/ RegisterViewRead(c, k[2])
  BY <1>1, <1>2, <1>6, <1>15 DEF RegisterTableRead, RegisterViewRead, Served, InPhase
<1>7. CASE UpdateViewPrepare(c)
  <2>1. req[c] \in Request
    BY DEF TypeOK
  <2>2. CASE WitnessHolds(c)
    <3>1. req'[c].op = "update_view" /\ req'[c].phase = "swap"
      BY <1>1, <1>7, <2>1, <2>2 DEF UpdateViewPrepare, Request, InPhase
    <3> QED
      BY <1>1, <1>7, <3>1 DEF UpdateViewPrepare, Served, InPhase
  <2> QED
    BY <1>2, <1>7, <2>2 DEF UpdateViewPrepare
<1>8. CASE PurgeTableDrop(c)
  BY <1>1, <1>2, <1>8, <1>15 DEF PurgeTableDrop, Served, InPhase
<1>9. CASE \/ CreateTableInsert(c) \/ StageCreateInsert(c) \/ RegisterTableInsert(c)
           \/ PurgeTableDelete(c) \/ RenameTableMove(c)
  BY <1>2, <1>9 DEF CreateTableInsert, StageCreateInsert, RegisterTableInsert,
     PurgeTableDelete, RenameTableMove
<1>10. CASE ViewInsert(c) \/ UpdateViewSwap(c) \/ RenameViewMove(c) \/ Abandon(c)
  BY <1>2, <1>10 DEF ViewInsert, UpdateViewSwap, RenameViewMove, Abandon
<1>11. CASE CommitPrepare(c)
  BY <1>1, <1>11 DEF CommitPrepare, Served, InPhase
<1>12. CASE CommitRefused(c) \/ CommitDiscard(c)
  <2>1. Retry(c) /\ req[c].op = "commit" /\ req[c].phase # "idle" => Served(req'[c])
    BY <1>1, <1>2, <1>16 DEF Retry, Served
  <2> QED
    BY <1>2, <1>12, <2>1 DEF CommitRefused, CommitDiscard, InPhase
<1>13. CASE CommitNotFound(c) \/ CommitSwap(c)
  BY <1>2, <1>13 DEF CommitNotFound, CommitSwap
<1>14. CASE CommitSwapLost(c)
  BY <1>1, <1>14 DEF CommitSwapLost, Served, InPhase
<1> QED
  BY <1>4, <1>5, <1>6, <1>7, <1>8, <1>9, <1>10, <1>11, <1>12, <1>13, <1>14 DEF Continue

LEMMA ServedNext == TypeOK /\ RequestsEnabled /\ [Next]_vars => RequestsEnabled'
<1> SUFFICES ASSUME TypeOK, RequestsEnabled, [Next]_vars PROVE RequestsEnabled'
  OBVIOUS
<1>1. CASE Immediate \/ UNCHANGED vars
  BY <1>1 DEF Immediate, CreateNamespace, DropNamespace, DropTable, DropView, vars, clients,
     RequestsEnabled
<1>2. ASSUME NEW c \in Client, Arrive(c) \/ Continue(c) \/ Abandon(c) PROVE RequestsEnabled'
  BY <1>2, ServedStep, StepsMoveAlone DEF MovesAlone, RequestsEnabled
<1> QED
  BY <1>1, <1>2 DEF Next

LEMMA FirstPublished ==
  ASSUME NEW kind, NEW f, published' = published \cup {<<kind, f>>}, Len(f) = 1,
         \A j \in published : j[2] # f
  PROVE  PublishesFirst
<1> DEFINE k == <<kind, f>>
<1>1. k[2] = f /\ published' = published \cup {k}
  OBVIOUS
<1> HIDE DEF k
<1> QED
  BY <1>1 DEF PublishesFirst

\* What a step of a request publishes: what the request held.
LEMMA StepPublishes ==
  ASSUME TypeOK, MadeInv, PreparedOnto, UpdatesOnto, KnownPointers, RequestsEnabled,
         NEW c \in Client, Continue(c)
  PROVE  published \subseteq published' /\ (PublishesNext \/ PublishesFirst)
<1>1. Made(c, req[c], txn[c], wrote[c], published)
  BY DEF MadeInv
<1>2. CASE published' = published
  BY <1>2 DEF PublishesNext
<1>3. CASE CreateTableInsert(c) \/ RegisterTableInsert(c)
  <2>1. InsertTable(req[c].tab, req[c].file) /\ req[c].phase = "insert"
        /\ req[c].op \in {"create_table", "register_table"}
    BY <1>3 DEF CreateTableInsert, RegisterTableInsert, InPhase
  <2>2. CASE published' = published \cup {<<"table", req[c].file>>} /\ req[c].op = "create_table"
    <3>1. req[c].file \in Pending(req[c], txn[c]) /\ Len(req[c].file) = 1
      BY <2>1, <2>2 DEF Pending, RequestsEnabled, Served
    <3>2. \A j \in published : j[2] # req[c].file
      BY <1>1, <3>1 DEF Made, Unseen
    <3> QED
      BY <2>2, <3>1, <3>2, FirstPublished
  <2>3. req[c].op = "register_table" => <<"table", req[c].file>> \in published
    BY <1>1, <2>1 DEF Made
  <2> QED
    BY <1>2, <2>1, <2>2, <2>3 DEF InsertTable
<1>4. CASE StageCreateInsert(c)
  <2>1. req[c].file \in Pending(req[c], txn[c]) /\ Len(req[c].file) = 1
    BY <1>4 DEF Pending, RequestsEnabled, Served, StageCreateInsert, InPhase
  <2>2. \A j \in published : j[2] # req[c].file
    BY <1>1, <2>1 DEF Made, Unseen
  <2> QED
    BY <1>4, <2>1, <2>2, FirstPublished DEF StageCreateInsert
<1>5. CASE ViewInsert(c)
  <2>1. InsertView(req[c].tab, req[c].file) /\ req[c].phase = "insert"
        /\ req[c].op \in {"create_view", "register_view"}
    BY <1>5 DEF ViewInsert
  <2>2. CASE published' = published \cup {<<"view", req[c].file>>} /\ req[c].op = "create_view"
    <3>1. req[c].file \in Pending(req[c], txn[c]) /\ Len(req[c].file) = 1
      BY <2>1, <2>2 DEF Pending, RequestsEnabled, Served
    <3>2. \A j \in published : j[2] # req[c].file
      BY <1>1, <3>1 DEF Made, Unseen
    <3> QED
      BY <2>2, <3>1, <3>2, FirstPublished
  <2>3. req[c].op = "register_view" => <<"view", req[c].file>> \in published
    BY <1>1, <2>1 DEF Made
  <2> QED
    BY <1>2, <2>1, <2>2, <2>3 DEF InsertView
<1>6. CASE UpdateViewSwap(c)
  <2> DEFINE old == <<"view", req[c].expected.file>>
             new == <<"view", req[c].file>>
  <2>1. CASE Unmoved(c)
    <3>1. req[c].tab \in Ident /\ WrittenOnto(req[c].file, req[c].expected.file)
      BY <1>6 DEF UpdateViewSwap, InPhase, UpdatesOnto, TypeOK, RequestsFitPhase
    <3>2. old \in published
      BY <2>1, <3>1 DEF Unmoved, KnownPointers
    <3>3. published' = published \cup {new}
      BY <1>6, <2>1 DEF UpdateViewSwap
    <3> QED
      BY <3>1, <3>2, <3>3 DEF PublishesNext
  <2> QED
    BY <1>2, <1>6, <2>1 DEF UpdateViewSwap
<1>7. CASE CommitSwap(c)
  <2> DEFINE all == txn[c].prepared
  <2>1. published' = published \cup {<<"table", all[i].file>> : i \in DOMAIN all}
    BY <1>7 DEF CommitSwap
  <2>2. ASSUME NEW i \in DOMAIN all
        PROVE  \E j \in published : WrittenOnto(all[i].file, j[2]) /\ j[1] # "view"
    <3>1. CASE all[i].expected = None
      BY <1>1, <3>1 DEF Made, FromStaging
    <3>2. CASE all[i].expected # None
      <4>1. WrittenOnto(all[i].file, all[i].expected.file)
        BY <3>2 DEF PreparedOnto
      <4>2. tables[all[i].tab] = all[i].expected /\ all[i].tab \in Ident
        BY <1>7, <3>2, Swapped, AttemptType DEF Lands, Prepared
      <4>3. <<"table", all[i].expected.file>> \in published
        BY <3>2, <4>2 DEF KnownPointers
      <4> QED
        BY <4>1, <4>3
    <3> QED
      BY <3>1, <3>2
  <2> QED
    BY <2>1, <2>2 DEF PublishesNext
<1> QED
  BY <1>2, <1>3, <1>4, <1>5, <1>6, <1>7 DEF Continue, CreateTablePrepare, StageCreatePrepare,
     RegisterTableRead, PurgeTableDrop, PurgeTableDelete, RenameTableMove, CommitPrepare,
     CommitRefused, CommitNotFound, CommitSwapLost, CommitDiscard, CreateViewPrepare,
     RegisterViewRead, UpdateViewPrepare, RenameViewMove

-----------------------------------------------------------------------------
\* A record a step leaves behind points where a record did, or at what it publishes.
LEMMA TablesKnown ==
  ASSUME TypeOK, MadeInv, KnownPointers, published \subseteq published', NEW c \in Client,
         Continue(c), NEW t \in Ident, tables'[t] # None
  PROVE  <<"table", tables'[t].file>> \in published'
<1>1. tables \in [Ident -> Record \cup {None}] /\ req[c] \in Request
  BY DEF TypeOK
<1>2. ASSUME tables'[t] = tables[t] PROVE <<"table", tables'[t].file>> \in published'
  BY <1>2 DEF KnownPointers
<1>3. CASE CreateTableInsert(c) \/ RegisterTableInsert(c)
  <2>1. InsertTable(req[c].tab, req[c].file)
    BY <1>3 DEF CreateTableInsert, RegisterTableInsert
  <2>2. CASE NameTaken(req[c].tab) \/ t # req[c].tab
    BY <1>1, <1>2, <2>1, <2>2 DEF InsertTable
  <2>3. CASE ~NameTaken(req[c].tab) /\ t = req[c].tab
    <3>1. tables'[t] = [file |-> req[c].file, version |-> 0]
      BY <1>1, <2>1, <2>3 DEF InsertTable
    <3>2. <<"table", req[c].file>> \in published'
      BY <2>1, <2>3 DEF InsertTable
    <3> QED
      BY <3>1, <3>2
  <2> QED
    BY <2>2, <2>3
<1>4. CASE PurgeTableDrop(c)
  BY <1>1, <1>2, <1>4 DEF PurgeTableDrop
<1>5. CASE RenameTableMove(c)
  <2> DEFINE s == req[c].tab
             d == req[c].dest
  <2>1. CASE tables[s] # None /\ ~NameTaken(d) /\ t = d /\ s # d
    <3>1. s \in Ident
      BY <1>5 DEF TypeOK, RequestsFitPhase, RenameTableMove, InPhase
    <3>2. tables[s] \in Record
      BY <1>1, <2>1, <3>1
    <3>3. tables'[t].file = tables[s].file
      BY <1>1, <1>5, <2>1, <3>2 DEF RenameTableMove, Record
    <3> QED
      BY <2>1, <3>1, <3>3 DEF KnownPointers
  <2>2. CASE tables[s] # None /\ ~NameTaken(d) /\ ~(t = d /\ s # d)
    <3>1. tables'[t] = tables[t] \/ tables'[t] = None
      BY <1>1, <1>5, <2>2 DEF RenameTableMove, NameTaken
    <3> QED
      BY <1>2, <3>1
  <2> QED
    BY <1>2, <1>5, <2>1, <2>2 DEF RenameTableMove
<1>6. CASE CommitSwap(c)
  <2> DEFINE all == txn[c].prepared
  <2>1. CASE \E i \in DOMAIN all : all[i].tab = t
    <3>1. PICK i \in DOMAIN all : all[i].tab = t
      BY <2>1
    <3>2. tables'[t] = NextRecord(all[i])
      BY <1>6, <3>1, Swapped
    <3>3. tables'[t].file = all[i].file
      BY <3>2 DEF NextRecord
    <3> QED
      BY <1>6, <3>3 DEF CommitSwap
  <2> QED
    BY <1>2, <1>6, <2>1, Swapped
<1>7. CASE tables' = tables
  BY <1>2, <1>7
<1> QED
  BY <1>3, <1>4, <1>5, <1>6, <1>7 DEF Continue, CreateTablePrepare, StageCreatePrepare,
     StageCreateInsert, RegisterTableRead, PurgeTableDelete, CommitPrepare, CommitRefused,
     CommitNotFound, CommitSwapLost, CommitDiscard, CreateViewPrepare, RegisterViewRead,
     ViewInsert, UpdateViewPrepare, UpdateViewSwap, RenameViewMove, registry

LEMMA ViewsKnown ==
  ASSUME TypeOK, KnownPointers, published \subseteq published', NEW c \in Client,
         Continue(c), NEW v \in Ident, views'[v] # None
  PROVE  <<"view", views'[v].file>> \in published'
<1>1. views \in [Ident -> Record \cup {None}] /\ req[c] \in Request
  BY DEF TypeOK
<1>2. ASSUME views'[v] = views[v] PROVE <<"view", views'[v].file>> \in published'
  BY <1>2 DEF KnownPointers
<1>3. CASE ViewInsert(c)
  <2>1. InsertView(req[c].tab, req[c].file)
    BY <1>3 DEF ViewInsert
  <2>2. CASE NameTaken(req[c].tab) \/ v # req[c].tab
    BY <1>1, <1>2, <2>1, <2>2 DEF InsertView
  <2>3. CASE ~NameTaken(req[c].tab) /\ v = req[c].tab
    <3>1. views'[v] = [file |-> req[c].file, version |-> 0]
      BY <1>1, <2>1, <2>3 DEF InsertView
    <3>2. <<"view", req[c].file>> \in published'
      BY <2>1, <2>3 DEF InsertView
    <3> QED
      BY <3>1, <3>2
  <2> QED
    BY <2>2, <2>3
<1>4. CASE UpdateViewSwap(c)
  <2>1. CASE Unmoved(c) /\ v = req[c].tab
    <3>1. views'[v].file = req[c].file
      BY <1>1, <1>4, <2>1 DEF UpdateViewSwap
    <3> QED
      BY <1>4, <2>1, <3>1 DEF UpdateViewSwap
  <2>2. CASE ~(Unmoved(c) /\ v = req[c].tab)
    BY <1>1, <1>2, <1>4, <2>2 DEF UpdateViewSwap
  <2> QED
    BY <2>1, <2>2
<1>5. CASE RenameViewMove(c)
  <2> DEFINE s == req[c].tab
             d == req[c].dest
  <2>1. CASE views[s] # None /\ ~NameTaken(d) /\ v = d /\ s # d
    <3>1. s \in Ident
      BY <1>5 DEF TypeOK, RequestsFitPhase, RenameViewMove, InPhase
    <3>2. views[s] \in Record
      BY <1>1, <2>1, <3>1
    <3>3. views'[v].file = views[s].file
      BY <1>1, <1>5, <2>1, <3>2 DEF RenameViewMove, Record
    <3> QED
      BY <2>1, <3>1, <3>3 DEF KnownPointers
  <2>2. CASE views[s] # None /\ ~NameTaken(d) /\ ~(v = d /\ s # d)
    <3>1. views'[v] = views[v] \/ views'[v] = None
      BY <1>1, <1>5, <2>2 DEF RenameViewMove, NameTaken
    <3> QED
      BY <1>2, <3>1
  <2> QED
    BY <1>2, <1>5, <2>1, <2>2 DEF RenameViewMove
<1>6. CASE views' = views
  BY <1>2, <1>6
<1> QED
  BY <1>3, <1>4, <1>5, <1>6 DEF Continue, CreateTablePrepare, StageCreatePrepare,
     CreateTableInsert, StageCreateInsert, RegisterTableRead, RegisterTableInsert,
     PurgeTableDrop, PurgeTableDelete, RenameTableMove, CommitPrepare, CommitRefused,
     CommitNotFound, CommitSwap, CommitSwapLost, CommitDiscard, CreateViewPrepare,
     RegisterViewRead, UpdateViewPrepare, registry

LEMMA KnownNext ==
  ASSUME TypeOK, TypeOK', MadeInv, PreparedOnto, UpdatesOnto, KnownPointers, KnownAncestry,
         KindsApart, RequestsEnabled, [Next]_vars
  PROVE  KnownPointers' /\ KnownAncestry' /\ KindsApart'
<1>1. ASSUME NEW c \in Client, Continue(c)
      PROVE  KnownPointers' /\ KnownAncestry' /\ KindsApart'
  <2>1. published \subseteq published' /\ (PublishesNext \/ PublishesFirst)
    BY <1>1, StepPublishes
  <2>2. KnownAncestry' /\ KindsApart' /\ \A k \in published' : k[2] # <<>>
    BY <2>1, HistoriesKept
  <2>3. /\ \A t \in Ident : tables'[t] # None => <<"table", tables'[t].file>> \in published'
        /\ \A v \in Ident : views'[v] # None => <<"view", views'[v].file>> \in published'
    BY <1>1, <2>1, TablesKnown, ViewsKnown
  <2> QED
    BY <2>2, <2>3 DEF KnownPointers
<1>2. ASSUME UNCHANGED <<tables, views, published>>
      PROVE  KnownPointers' /\ KnownAncestry' /\ KindsApart'
  BY <1>2 DEF KnownPointers, KnownAncestry, KindsApart
<1>3. ASSUME NEW c \in Client, Arrive(c) \/ Abandon(c)
      PROVE  KnownPointers' /\ KnownAncestry' /\ KindsApart'
  BY <1>2, <1>3 DEF Arrive, CreateTableStart, StageCreateStart, CreateStart, RegisterTableStart,
     PurgeTableLoad, PurgeStart, RenameTableStart, CommitStart, CreateViewStart,
     RegisterViewStart, UpdateViewStart, RenameViewStart, Abandon, registry
<1>4. CASE Immediate
  <2>1. published' = published
    BY <1>4 DEF Immediate, CreateNamespace, DropNamespace, DropTable, DropView
  <2>2. \A t \in Ident : tables'[t] \in {None, tables[t]} /\ views'[t] \in {None, views[t]}
    BY <1>4 DEF Immediate, CreateNamespace, DropNamespace, DropTable, DropView, TypeOK
  <2>3. KnownPointers'
    BY <2>1, <2>2 DEF KnownPointers
  <2> QED
    BY <2>1, <2>3 DEF KnownAncestry, KindsApart
<1>5. CASE UNCHANGED vars
  BY <1>2, <1>5 DEF vars
<1> QED
  BY <1>1, <1>3, <1>4, <1>5 DEF Next

-----------------------------------------------------------------------------
LEMMA NonePending ==
  ASSUME NEW r, NEW x, x.prepared = <<>>, r.op = "commit" \/ r.phase \notin {"insert", "swap"}
  PROVE  Pending(r, x) = {}
<1>1. DOMAIN x.prepared = {}
  OBVIOUS
<1> QED
  BY <1>1 DEF Pending

\* What a request holds after its step it held before, or has just written.
LEMMA PendingStep ==
  ASSUME TypeOK, MadeInv, NEW c \in Client, Arrive(c) \/ Continue(c) \/ Abandon(c),
         NEW g \in Pending(req'[c], txn'[c])
  PROVE  g \in files' \/ (g \in Pending(req[c], txn[c]) /\ files \subseteq files')
<1>1. /\ DOMAIN req = Client /\ DOMAIN txn = Client /\ req[c] \in Request
      /\ Made(c, req[c], txn[c], wrote[c], published)
  BY DEF TypeOK, MadeInv
<1>2. req[c].phase = "idle" \/ req[c].op # "commit" => txn[c].prepared = <<>>
  BY <1>1 DEF Made
<1>3. \A d : Pending(req'[c], txn'[c]) = d => g \in d
  OBVIOUS
<1>4. ASSUME Finish(c), txn' = txn, req[c].op # "commit" PROVE FALSE
  <2>1. req'[c].phase = "idle" /\ txn'[c].prepared = <<>>
    BY <1>1, <1>2, <1>4 DEF Finish, Idle
  <2> QED
    BY <2>1, <1>3, NonePending
<1>5. ASSUME \/ Retry(c) /\ req[c].op = "commit"
             \/ Finish(c) /\ txn' = [txn EXCEPT ![c] = NoTransaction]
      PROVE  FALSE
  <2>1. txn'[c].prepared = <<>> /\ (req'[c].op = "commit" \/ req'[c].phase = "idle")
    BY <1>5, RetryEmpties
  <2> QED
    BY <2>1, <1>3, NonePending
<1>6. CASE Arrive(c)
  <2>1. req[c] = Idle
    BY <1>6 DEF Arrive, CreateTableStart, StageCreateStart, CreateStart, RegisterTableStart,
       PurgeTableLoad, PurgeStart, RenameTableStart, CommitStart, CreateViewStart,
       RegisterViewStart, UpdateViewStart, RenameViewStart, Begin
  <2>2. CASE CommitStart(c)
    <3>1. txn'[c].prepared = <<>>
      BY <1>1, <2>2 DEF CommitStart, Attempt
    <3>2. req'[c].op = "commit"
      BY <1>1, <2>2 DEF CommitStart, Begin, Idle
    <3> QED
      BY <1>3, <3>1, <3>2, NonePending
  <2>3. ASSUME NEW r, Begin(c, r), r.phase \notin {"insert", "swap"}, txn' = txn PROVE FALSE
    <3>1. req'[c] = r /\ txn'[c].prepared = <<>>
      BY <1>1, <1>2, <2>1, <2>3 DEF Begin, Idle
    <3> QED
      BY <1>3, <2>3, <3>1, NonePending
  <2>4. \A op, t : On(op, "prepare", t).phase = "prepare" /\ On(op, "read", t).phase = "read"
    BY DEF On, Idle
  <2>5. CASE \E t \in Ident : \/ CreateTableStart(c, t) \/ StageCreateStart(c, t)
                              \/ RegisterTableStart(c, t) \/ CreateViewStart(c, t)
                              \/ RegisterViewStart(c, t)
    BY <2>3, <2>4, <2>5 DEF CreateTableStart, StageCreateStart, CreateStart,
       RegisterTableStart, CreateViewStart, RegisterViewStart
  <2>6. CASE \E t \in Ident : PurgeTableLoad(c, t) \/ UpdateViewStart(c, t)
    <3>1. \A op, t, f : /\ [On(op, "drop", t) EXCEPT !.file = f].phase = "drop"
                        /\ [On(op, "prepare", t) EXCEPT !.file = f].phase = "prepare"
      BY DEF On, Idle
    <3> QED
      BY <2>3, <2>6, <3>1 DEF PurgeTableLoad, PurgeStart, UpdateViewStart
  <2>7. CASE \E s, d \in Ident : RenameTableStart(c, s, d) \/ RenameViewStart(c, s, d)
    <3>1. \A op, s, d : [On(op, "move", s) EXCEPT !.dest = d].phase = "move"
      BY DEF On, Idle
    <3> QED
      BY <2>3, <2>7, <3>1 DEF RenameTableStart, RenameViewStart
  <2> QED
    BY <1>6, <2>2, <2>5, <2>6, <2>7 DEF Arrive
<1>7. ASSUME NEW f, NEW p, req'[c].file = f, txn' = txn, req[c].op # "commit",
             g # f
      PROVE  FALSE
  <2>1. txn'[c].prepared = <<>>
    BY <1>1, <1>2, <1>7
  <2>2. g \in {req'[c].file} \cup {txn'[c].prepared[i].file : i \in DOMAIN txn'[c].prepared}
    BY DEF Pending
  <2> QED
    BY <1>7, <2>1, <2>2
<1>8. CASE CreateTablePrepare(c) \/ StageCreatePrepare(c) \/ CreateViewPrepare(c)
  <2> DEFINE f == <<FreshId(c)>>
  <2>1. req[c].op # "commit" /\ txn' = txn
    BY <1>8 DEF CreateTablePrepare, StageCreatePrepare, CreateViewPrepare, InPhase
  <2>2. CASE Advance(c, "insert", f) /\ WriteFile(c, f)
    <3>1. req'[c].file = f
      BY <1>1, <2>2 DEF Advance, Request
    <3>2. f \in files'
      BY <2>2 DEF WriteFile
    <3> HIDE DEF f
    <3> QED
      BY <1>7, <2>1, <3>1, <3>2
  <2> QED
    BY <1>4, <1>8, <2>1, <2>2 DEF CreateTablePrepare, StageCreatePrepare, CreateViewPrepare,
       FirstFile
<1>9. CASE UpdateViewPrepare(c)
  <2> DEFINE f == Append(req[c].file, FreshId(c))
  <2>1. req[c].op # "commit" /\ txn' = txn
    BY <1>9 DEF UpdateViewPrepare, InPhase
  <2>2. CASE WitnessHolds(c)
    <3>1. req'[c].file = f
      BY <1>1, <1>9, <2>2 DEF UpdateViewPrepare, Request
    <3>2. f \in files'
      BY <1>9, <2>2 DEF UpdateViewPrepare, WriteFile
    <3> HIDE DEF f
    <3> QED
      BY <1>7, <2>1, <3>1, <3>2
  <2> QED
    BY <1>4, <1>9, <2>1, <2>2 DEF UpdateViewPrepare
<1>10. CASE \E k \in published : RegisterTableRead(c, k[2]) \/ RegisterViewRead(c, k[2])
  <2>1. PICK f : RegisterTableRead(c, f) \/ RegisterViewRead(c, f)
    BY <1>10
  <2>2. req[c].op \in {"register_table", "register_view"} /\ txn' = txn
    BY <2>1 DEF RegisterTableRead, RegisterViewRead, InPhase
  <2>3. CASE Advance(c, "insert", f)
    <3>1. req'[c].op = req[c].op /\ txn'[c].prepared = <<>>
      BY <1>1, <1>2, <2>2, <2>3 DEF Advance, Request
    <3>2. Pending(req'[c], txn'[c]) = {}
      BY <2>2, <3>1 DEF Pending
    <3> QED
      BY <3>2
  <2> QED
    BY <1>4, <2>1, <2>2, <2>3 DEF RegisterTableRead, RegisterViewRead
<1>11. CASE \/ CreateTableInsert(c) \/ StageCreateInsert(c) \/ RegisterTableInsert(c)
            \/ PurgeTableDelete(c) \/ RenameTableMove(c)
  BY <1>4, <1>11 DEF CreateTableInsert, StageCreateInsert, RegisterTableInsert,
     PurgeTableDelete, RenameTableMove, InPhase
<1>12. CASE ViewInsert(c) \/ UpdateViewSwap(c) \/ RenameViewMove(c)
  BY <1>4, <1>12 DEF ViewInsert, UpdateViewSwap, RenameViewMove, InPhase
<1>13. CASE PurgeTableDrop(c)
  <2>1. req[c].op = "purge_table" /\ txn' = txn
    BY <1>13 DEF PurgeTableDrop, InPhase
  <2>2. CASE Advance(c, "delete", req[c].file)
    <3>1. req'[c].phase = "delete" /\ txn'[c].prepared = <<>>
      BY <1>1, <1>2, <2>1, <2>2 DEF Advance, Request
    <3> QED
      BY <1>3, <3>1, NonePending
  <2> QED
    BY <1>4, <1>13, <2>1, <2>2 DEF PurgeTableDrop
<1>14. CASE CommitPrepare(c)
  <2> DEFINE f   == Append(Base(NextChange(c)), FreshId(c))
             p   == [tab |-> NextChange(c).tab, expected |-> tables[NextChange(c).tab], file |-> f]
             old == txn[c].prepared
             all == Append(old, p)
  <2>1. old \in Seq(Prepared) /\ txn[c] \in Transaction
    BY AttemptType
  <2>2. req[c].op = "commit" /\ WriteFile(c, f) /\ txn'[c].prepared = all
    BY <1>1, <1>14, <2>1 DEF CommitPrepare, InPhase, Transaction
  <2>3. req'[c].op = "commit"
    <3> HIDE DEF all
    <3>1. PICK ph \in {"prepare", "swap"} : req' = [req EXCEPT ![c].phase = ph]
      BY <1>14 DEF CommitPrepare
    <3> QED
      BY <1>1, <2>2, <3>1 DEF Request
  <2>4. p.file = f /\ f \in files' /\ files \subseteq files'
    BY <2>2 DEF WriteFile
  <2> HIDE DEF f, p
  <2>5. \A i \in DOMAIN all : all[i] = p \/ (i \in DOMAIN old /\ all[i] = old[i])
    BY <2>1
  <2> HIDE DEF all
  <2>6. PICK i \in DOMAIN all : g = all[i].file
    BY <2>2, <2>3 DEF Pending
  <2>7. CASE i \in DOMAIN old /\ all[i] = old[i]
    <3>1. g = old[i].file
      BY <2>6, <2>7
    <3>2. g \in Pending(req[c], txn[c])
      BY <2>7, <3>1 DEF Pending
    <3> QED
      BY <2>4, <3>2
  <2> QED
    BY <2>4, <2>5, <2>6, <2>7
<1>15. CASE CommitRefused(c) \/ CommitNotFound(c) \/ CommitDiscard(c) \/ Abandon(c)
  BY <1>5, <1>15 DEF CommitRefused, CommitNotFound, CommitDiscard, Abandon, InPhase
<1>16. CASE CommitSwap(c)
  BY <1>5, <1>16 DEF CommitSwap
<1>17. CASE CommitSwapLost(c)
  <2>1. PICK ph \in {"discard", "abort"} : req' = [req EXCEPT ![c].phase = ph]
    BY <1>17 DEF CommitSwapLost
  <2>2. req'[c].op = "commit" /\ req[c].op = "commit" /\ txn' = txn /\ files' = files
    BY <1>1, <1>17, <2>1 DEF CommitSwapLost, InPhase, Request
  <2> QED
    BY <2>2 DEF Pending
<1> QED
  BY <1>6, <1>8, <1>9, <1>10, <1>11, <1>12, <1>13, <1>14, <1>15, <1>16, <1>17 DEF Continue

-----------------------------------------------------------------------------
\* What a step publishes its request held, and the step deletes nothing.
LEMMA NewWasPending ==
  ASSUME TypeOK, MadeInv, NEW c \in Client, Continue(c), NEW k \in published', k \notin published
  PROVE  k[2] \in Pending(req[c], txn[c]) /\ files' = files
<1>1. Made(c, req[c], txn[c], wrote[c], published)
  BY DEF MadeInv
<1>2. CASE CreateTableInsert(c) \/ RegisterTableInsert(c)
  <2>1. req[c].op \in {"create_table", "register_table"} /\ req[c].phase = "insert"
    BY <1>2 DEF CreateTableInsert, RegisterTableInsert, InPhase
  <2>2. k = <<"table", req[c].file>> /\ files' = files
    BY <1>2 DEF CreateTableInsert, RegisterTableInsert, InsertTable
  <2>3. req[c].op # "register_table"
    BY <1>1, <2>1, <2>2 DEF Made
  <2> QED
    BY <2>1, <2>2, <2>3 DEF Pending
<1>3. CASE StageCreateInsert(c)
  BY <1>3 DEF StageCreateInsert, InPhase, Pending
<1>4. CASE ViewInsert(c)
  <2>1. req[c].op \in {"create_view", "register_view"} /\ req[c].phase = "insert"
    BY <1>4 DEF ViewInsert
  <2>2. k = <<"view", req[c].file>> /\ files' = files
    BY <1>4 DEF ViewInsert, InsertView
  <2>3. req[c].op # "register_view"
    BY <1>1, <2>1, <2>2 DEF Made
  <2> QED
    BY <2>1, <2>2, <2>3 DEF Pending
<1>5. CASE UpdateViewSwap(c)
  BY <1>5 DEF UpdateViewSwap, InPhase, Pending
<1>6. CASE CommitSwap(c)
  BY <1>6 DEF CommitSwap, Pending
<1>7. CASE published' = published
  BY <1>7
<1> QED
  BY <1>2, <1>3, <1>4, <1>5, <1>6, <1>7 DEF Continue, CreateTablePrepare, StageCreatePrepare,
     RegisterTableRead, PurgeTableDrop, PurgeTableDelete, RenameTableMove, CommitPrepare,
     CommitRefused, CommitNotFound, CommitSwapLost, CommitDiscard, CreateViewPrepare,
     RegisterViewRead, UpdateViewPrepare, RenameViewMove

\* Files go by a purge, or with a commit that lost its swap.
LEMMA LostFiles ==
  ASSUME TypeOK, NEW c \in Client, Arrive(c) \/ Continue(c) \/ Abandon(c),
         NEW f \in files, f \notin files'
  PROVE  \/ PurgeTableDelete(c) /\ f \in Ancestry(req[c].file)
         \/ CommitDiscard(c) /\ f \in Pending(req[c], txn[c])
<1>1. CASE PurgeTableDelete(c)
  BY <1>1 DEF PurgeTableDelete
<1>2. CASE CommitDiscard(c)
  BY <1>2 DEF CommitDiscard, WrittenByAttempt, Pending
<1>3. files \subseteq files' => FALSE
  OBVIOUS
<1>4. CASE Arrive(c) \/ Abandon(c)
  BY <1>3, <1>4 DEF Arrive, CreateTableStart, StageCreateStart, CreateStart, RegisterTableStart,
     PurgeTableLoad, PurgeStart, RenameTableStart, CommitStart, CreateViewStart,
     RegisterViewStart, UpdateViewStart, RenameViewStart, Abandon
<1>5. CASE CreateTablePrepare(c) \/ StageCreatePrepare(c) \/ CreateViewPrepare(c)
  BY <1>3, <1>5 DEF CreateTablePrepare, StageCreatePrepare, CreateViewPrepare, FirstFile, WriteFile
<1>6. CASE UpdateViewPrepare(c) \/ CommitPrepare(c)
  BY <1>3, <1>6 DEF UpdateViewPrepare, CommitPrepare, WriteFile
<1>7. files' = files => FALSE
  OBVIOUS
<1> QED
  BY <1>1, <1>2, <1>4, <1>5, <1>6, <1>7 DEF Continue, CreateTableInsert, StageCreateInsert,
     RegisterTableRead, RegisterTableInsert, PurgeTableDrop, RenameTableMove, CommitRefused,
     CommitNotFound, CommitSwap, CommitSwapLost, ViewInsert, RegisterViewRead, UpdateViewSwap,
     RenameViewMove

\* A purge deletes what a table file that was published descends from.
LEMMA PurgedWasPublished ==
  ASSUME TypeOK, KnownPointers, KnownAncestry, PurgesSafe, RequestsEnabled,
         NEW c \in Client, PurgeTableDelete(c)
  PROVE  /\ Purging /\ <<"table", req[c].file>> \in published
         /\ req[c].file \in MetadataFile /\ req[c].file # <<>>
         /\ \A f \in Ancestry(req[c].file) :
              f[1] = req[c].file[1] /\ \E j \in published : j[2] = f
         /\ \A t \in Live : Apart(tables[t].file, req[c].file)
<1>1. req[c].op = "purge_table" /\ req[c].phase = "delete"
  BY DEF PurgeTableDelete, InPhase
<1>2. Purging
  BY <1>1 DEF Purging, RequestsEnabled, Served
<1>3. /\ <<"table", req[c].file>> \in published
      /\ \A t \in Live : Apart(tables[t].file, req[c].file)
  BY <1>1, <1>2 DEF PurgesSafe, PurgesAlone
<1>4. req[c].file \in MetadataFile /\ req[c].file # <<>>
  BY <1>3 DEF TypeOK, KnownPointers
<1>5. \A f \in Ancestry(req[c].file) : f[1] = req[c].file[1]
  BY <1>4, AncestryFacts
<1> QED
  BY <1>2, <1>3, <1>4, <1>5 DEF KnownAncestry

LEMMA KeptStep ==
  ASSUME TypeOK, MadeInv, ReadInv, NEW c \in Client, Arrive(c) \/ Continue(c) \/ Abandon(c)
  PROVE  KeptFiles'
<1> USE DEF ReadInv
<1>1. ASSUME NEW d \in Client, NEW g \in Pending(req'[d], txn'[d]) PROVE g \in files'
  <2>1. CASE d = c
    <3>1. g \in files' \/ (g \in Pending(req[c], txn[c]) /\ files \subseteq files')
      BY <1>1, <2>1, PendingStep
    <3> QED
      BY <3>1 DEF KeptFiles
  <2>2. CASE d # c
    <3>1. g \in Pending(req[d], txn[d])
      BY <2>2, StepsMoveAlone DEF MovesAlone
    <3>2. g \in files /\ \A k \in published : k[2] # g
      BY <3>1 DEF KeptFiles, MadeInv, Made, Unseen
    <3>3. ASSUME PurgeTableDelete(c) PROVE g \notin Ancestry(req[c].file)
      BY <3>2, <3>3, PurgedWasPublished
    <3>4. g \notin Pending(req[c], txn[c])
      BY <2>2, <3>1, PublishedByItsWriter
    <3> QED
      BY <3>2, <3>3, <3>4, LostFiles
  <2> QED
    BY <2>1, <2>2
<1>2. ASSUME NEW k \in published', k[1] = "view" \/ ~Purging PROVE k[2] \in files'
  <2>1. CASE k \in published
    <3>1. k[2] \in files
      BY <1>2, <2>1 DEF KeptFiles
    <3>2. ASSUME PurgeTableDelete(c) PROVE k[2] \notin Ancestry(req[c].file)
      <4>1. /\ <<"table", req[c].file>> \in published /\ Purging
            /\ \A f \in Ancestry(req[c].file) : f[1] = req[c].file[1]
        BY <3>2, PurgedWasPublished
      <4>2. Apart(k[2], req[c].file)
        BY <1>2, <2>1, <4>1 DEF KindsApart
      <4> QED
        BY <4>1, <4>2 DEF Apart
    <3>3. k[2] \notin Pending(req[c], txn[c])
      BY <2>1 DEF MadeInv, Made, Unseen
    <3> QED
      BY <3>1, <3>2, <3>3, LostFiles
  <2>2. CASE k \notin published
    <3>1. Continue(c)
      BY <2>2 DEF Arrive, CreateTableStart, StageCreateStart, CreateStart, RegisterTableStart,
         PurgeTableLoad, PurgeStart, RenameTableStart, CommitStart, CreateViewStart,
         RegisterViewStart, UpdateViewStart, RenameViewStart, Abandon
    <3>2. k[2] \in Pending(req[c], txn[c]) /\ files' = files
      BY <2>2, <3>1, NewWasPending
    <3> QED
      BY <3>2 DEF KeptFiles
  <2> QED
    BY <2>1, <2>2
<1> QED
  BY <1>1, <1>2 DEF KeptFiles

-----------------------------------------------------------------------------
\* The requests that let two names share a file are not issued beside purges.
PurgesUnshared == Purging => Enabled \cap Sharing = {}

\* While purges run, a live table stays where it is, or moves to a file written on top.
Follows(t) ==
  /\ t \in Live
  /\ \/ tables'[t].file = tables[t].file
     \/ WrittenOnto(tables'[t].file, tables[t].file) /\ tables'[t].file \in files'

\* Or it is a new table, with a history of its own, and nothing else changed.
Fresh(t) ==
  /\ Len(tables'[t].file) = 1 /\ tables'[t].file \in files'
  /\ \A k \in published : k[2] # tables'[t].file
  /\ \A s \in Ident \ {t} : tables'[s] = tables[s]

LEMMA LiveStep ==
  ASSUME TypeOK, MadeInv, PreparedOnto, ReadInv, PurgesUnshared, Purging, NEW c \in Client,
         Arrive(c) \/ Continue(c) \/ Abandon(c), NEW t \in Live'
  PROVE  Follows(t) \/ Fresh(t)
<1> USE DEF ReadInv
<1>1. /\ tables \in [Ident -> Record \cup {None}] /\ t \in Ident /\ tables'[t] # None
      /\ Served(req[c]) /\ Made(c, req[c], txn[c], wrote[c], published)
  BY DEF TypeOK, Live, RequestsEnabled, MadeInv
<1>2. ASSUME tables'[t] = tables[t] PROVE Follows(t)
  BY <1>1, <1>2 DEF Follows, Live
<1>3. \A op \in Sharing : ~(req[c].op = op /\ req[c].phase # "idle")
  BY <1>1 DEF PurgesUnshared, Served
<1>4. CASE CreateTableInsert(c)
  <2>1. req[c].op = "create_table" /\ req[c].phase = "insert" /\ InsertTable(req[c].tab, req[c].file)
        /\ files' = files
    BY <1>4 DEF CreateTableInsert, InPhase
  <2>2. CASE NameTaken(req[c].tab) \/ t # req[c].tab
    BY <1>1, <1>2, <2>1, <2>2 DEF InsertTable
  <2>3. CASE ~NameTaken(req[c].tab) /\ t = req[c].tab
    <3>1. tables'[t] = [file |-> req[c].file, version |-> 0]
      BY <1>1, <2>1, <2>3 DEF InsertTable
    <3>2. tables'[t].file = req[c].file /\ \A s \in Ident \ {t} : tables'[s] = tables[s]
      BY <1>1, <2>1, <2>3, <3>1 DEF InsertTable
    <3>3. req[c].file \in Pending(req[c], txn[c]) /\ Len(req[c].file) = 1
      BY <1>1, <2>1 DEF Pending, Served
    <3>4. req[c].file \in files' /\ \A k \in published : k[2] # req[c].file
      BY <1>1, <2>1, <3>3 DEF KeptFiles, Made, Unseen
    <3> QED
      BY <3>2, <3>3, <3>4 DEF Fresh
  <2> QED
    BY <2>2, <2>3
<1>5. CASE RegisterTableInsert(c) \/ RenameTableMove(c)
  BY <1>3, <1>5 DEF RegisterTableInsert, RenameTableMove, InPhase, Sharing
<1>6. CASE PurgeTableDrop(c)
  BY <1>1, <1>2, <1>6 DEF PurgeTableDrop
<1>7. CASE CommitSwap(c)
  <2> DEFINE all == txn[c].prepared
  <2>1. CASE \E i \in DOMAIN all : all[i].tab = t
    <3>1. PICK i \in DOMAIN all : all[i].tab = t
      BY <2>1
    <3>2. tables'[t] = NextRecord(all[i]) /\ Lands(all[i])
      BY <1>7, <3>1, Swapped
    <3>3. tables'[t].file = all[i].file
      BY <3>2 DEF NextRecord
    <3>4. all[i].expected # None
      BY <1>1, <3>1 DEF Made, FromStaging, PurgesSafe
    <3>5. tables[t] = all[i].expected /\ WrittenOnto(all[i].file, all[i].expected.file)
      BY <3>1, <3>2, <3>4 DEF Lands, PreparedOnto
    <3>6. all[i].file \in Pending(req[c], txn[c]) /\ files' = files
      BY <1>7, <3>1 DEF Pending, CommitSwap
    <3>7. all[i].file \in files'
      BY <3>6 DEF KeptFiles
    <3> QED
      BY <1>1, <3>3, <3>4, <3>5, <3>7 DEF Follows, Live
  <2> QED
    BY <1>1, <1>2, <1>7, <2>1, Swapped
<1>8. CASE tables' = tables
  BY <1>2, <1>8
<1>9. CASE Arrive(c) \/ Abandon(c)
  BY <1>8, <1>9 DEF Arrive, CreateTableStart, StageCreateStart, CreateStart, RegisterTableStart,
     PurgeTableLoad, PurgeStart, RenameTableStart, CommitStart, CreateViewStart,
     RegisterViewStart, UpdateViewStart, RenameViewStart, Abandon, registry
<1> QED
  BY <1>4, <1>5, <1>6, <1>7, <1>8, <1>9 DEF Continue, CreateTablePrepare, StageCreatePrepare,
     StageCreateInsert, RegisterTableRead, PurgeTableDelete, CommitPrepare, CommitRefused,
     CommitNotFound, CommitSwapLost, CommitDiscard, CreateViewPrepare, RegisterViewRead,
     ViewInsert, UpdateViewPrepare, UpdateViewSwap, RenameViewMove, registry

\* What a live table descends from: it keeps its root, or is apart from all that was published.
LEMMA Roots ==
  ASSUME TypeOK, TypeOK', ReadInv, NEW t \in Live', Follows(t) \/ Fresh(t)
  PROVE  /\ tables'[t].file \in MetadataFile
         /\ Follows(t) => /\ tables[t].file \in MetadataFile /\ tables[t].file # <<>>
                          /\ <<"table", tables[t].file>> \in published
                          /\ tables'[t].file[1] = tables[t].file[1]
                          /\ Ancestry(tables'[t].file) \subseteq Ancestry(tables[t].file) \cup files'
         /\ Fresh(t) => /\ Ancestry(tables'[t].file) \subseteq files'
                        /\ \A k \in published : /\ Apart(tables'[t].file, k[2])
                                                /\ Apart(k[2], tables'[t].file)
<1>1. tables'[t].file \in MetadataFile
  BY DEF TypeOK, Live, Record
<1>2. ASSUME Follows(t)
      PROVE  /\ tables[t].file \in MetadataFile /\ tables[t].file # <<>>
             /\ <<"table", tables[t].file>> \in published
             /\ tables'[t].file[1] = tables[t].file[1]
             /\ Ancestry(tables'[t].file) \subseteq Ancestry(tables[t].file) \cup files'
  <2>1. tables[t].file \in MetadataFile /\ <<"table", tables[t].file>> \in published
    BY <1>2 DEF Follows, Live, TypeOK, Record, ReadInv, KnownPointers
  <2>2. tables[t].file # <<>>
    BY <2>1 DEF ReadInv, KnownPointers
  <2>3. ASSUME WrittenOnto(tables'[t].file, tables[t].file), tables'[t].file \in files'
        PROVE  /\ tables'[t].file[1] = tables[t].file[1]
               /\ Ancestry(tables'[t].file) \subseteq Ancestry(tables[t].file) \cup files'
    <3>1. /\ tables'[t].file[1] = tables[t].file[1]
          /\ Ancestry(tables'[t].file) = Ancestry(tables[t].file) \cup {tables'[t].file}
      BY <1>1, <2>1, <2>2, <2>3, OntoAncestry
    <3> QED
      BY <2>3, <3>1
  <2>4. /\ tables'[t].file[1] = tables[t].file[1]
        /\ Ancestry(tables'[t].file) \subseteq Ancestry(tables[t].file) \cup files'
    BY <1>2, <2>3 DEF Follows
  <2> QED
    BY <2>1, <2>2, <2>4
<1>3. ASSUME Fresh(t)
      PROVE  /\ Ancestry(tables'[t].file) \subseteq files'
             /\ \A k \in published : /\ Apart(tables'[t].file, k[2])
                                     /\ Apart(k[2], tables'[t].file)
  <2>1. Ancestry(tables'[t].file) \subseteq files'
    BY <1>1, <1>3, FirstAncestry DEF Fresh
  <2>2. \A k \in published : Apart(tables'[t].file, k[2])
    BY <1>1, <1>3, FirstIsApart DEF Fresh, ReadInv
  <2> QED
    BY <2>1, <2>2 DEF Apart
<1> QED
  BY <1>1, <1>2, <1>3

\* Only a purge that loads or drops its table leaves a purge under way behind.
LEMMA PurgeGoesOn ==
  ASSUME TypeOK, NEW c \in Client, Arrive(c) \/ Continue(c) \/ Abandon(c),
         req'[c].op = "purge_table", req'[c].phase # "idle"
  PROVE  PurgeTableDrop(c) \/ \E t \in Ident : PurgeTableLoad(c, t)
<1>1. DOMAIN req = Client /\ req[c] \in Request
  BY DEF TypeOK
<1>2. ~Finish(c)
  BY <1>1 DEF Finish, Idle
<1>3. ASSUME NEW p, NEW f, Advance(c, p, f) PROVE req'[c].op = req[c].op
  BY <1>1, <1>3 DEF Advance, Request
<1>4. ASSUME NEW p, req' = [req EXCEPT ![c].phase = p] PROVE req'[c].op = req[c].op
  BY <1>1, <1>4 DEF Request
<1>5. ASSUME Arrive(c), ~\E t \in Ident : PurgeTableLoad(c, t) PROVE FALSE
  <2>1. ASSUME NEW r, Begin(c, r), r.op # "purge_table" PROVE FALSE
    BY <1>1, <2>1 DEF Begin
  <2>2. \A op, ph, t : On(op, ph, t).op = op
    BY DEF On, Idle
  <2>3. CASE CommitStart(c)
    BY <2>1, <2>3 DEF CommitStart, Idle
  <2>4. CASE \E t \in Ident : \/ CreateTableStart(c, t) \/ StageCreateStart(c, t)
                              \/ RegisterTableStart(c, t) \/ CreateViewStart(c, t)
                              \/ RegisterViewStart(c, t)
    BY <2>1, <2>2, <2>4 DEF CreateTableStart, StageCreateStart, CreateStart,
       RegisterTableStart, CreateViewStart, RegisterViewStart
  <2>5. CASE \E t \in Ident : UpdateViewStart(c, t)
    BY <2>1, <2>5 DEF UpdateViewStart, On, Idle
  <2>6. CASE \E s, d \in Ident : RenameTableStart(c, s, d) \/ RenameViewStart(c, s, d)
    BY <2>1, <2>6 DEF RenameTableStart, RenameViewStart, On, Idle
  <2> QED
    BY <1>5, <2>3, <2>4, <2>5, <2>6 DEF Arrive
<1>6. ASSUME CreateTablePrepare(c) \/ StageCreatePrepare(c) \/ CreateViewPrepare(c) PROVE FALSE
  BY <1>2, <1>3, <1>6 DEF CreateTablePrepare, StageCreatePrepare, CreateViewPrepare, FirstFile,
     InPhase
<1>7. ASSUME \E k \in published : RegisterTableRead(c, k[2]) \/ RegisterViewRead(c, k[2])
      PROVE  FALSE
  BY <1>2, <1>3, <1>7 DEF RegisterTableRead, RegisterViewRead, InPhase
<1>8. ASSUME UpdateViewPrepare(c) PROVE FALSE
  <2>1. WitnessHolds(c)
    BY <1>2, <1>8 DEF UpdateViewPrepare
  <2>2. req'[c].op = req[c].op
    BY <1>1, <1>8, <2>1 DEF UpdateViewPrepare, Request
  <2> QED
    BY <1>8, <2>2 DEF UpdateViewPrepare, InPhase
<1>9. ASSUME CommitPrepare(c) PROVE FALSE
  <2>1. PICK p : req' = [req EXCEPT ![c].phase = p]
    BY <1>9 DEF CommitPrepare
  <2> QED
    BY <1>4, <1>9, <2>1 DEF CommitPrepare, InPhase
<1>10. ASSUME CommitRefused(c) \/ CommitDiscard(c) PROVE FALSE
  BY <1>2, <1>4, <1>10 DEF CommitRefused, CommitDiscard, Retry, InPhase
<1>11. ASSUME CommitSwapLost(c) PROVE FALSE
  <2>1. PICK p : req' = [req EXCEPT ![c].phase = p]
    BY <1>11 DEF CommitSwapLost
  <2> QED
    BY <1>4, <1>11, <2>1 DEF CommitSwapLost, InPhase
<1> QED
  BY <1>2, <1>5, <1>6, <1>7, <1>8, <1>9, <1>10, <1>11 DEF Continue, CreateTableInsert,
     StageCreateInsert, RegisterTableInsert, PurgeTableDelete, RenameTableMove, CommitNotFound,
     CommitSwap, ViewInsert, UpdateViewSwap, RenameViewMove, Abandon

-----------------------------------------------------------------------------
LEMMA PurgesStep ==
  ASSUME TypeOK, TypeOK', MadeInv, PreparedOnto, UpdatesOnto, ReadInv, PurgesUnshared, NEW c \in Client,
         Arrive(c) \/ Continue(c) \/ Abandon(c)
  PROVE  PurgesSafe'
<1> SUFFICES ASSUME Purging PROVE PurgesSafe'
  BY DEF PurgesSafe, Purging
<1>0. Purging'
  BY DEF Purging
<1>1. /\ \A k \in published : k[1] # "staged"
      /\ \A t \in Live : Ancestry(tables[t].file) \subseteq files
      /\ \A s, t \in Live : s # t => Apart(tables[s].file, tables[t].file)
      /\ \A d \in Client : PurgesAlone(d)
  BY DEF ReadInv, PurgesSafe
<1>2. \A t \in Live' : Follows(t) \/ Fresh(t)
  BY LiveStep
<1>3. \A t \in Live' :
        /\ Follows(t) => /\ <<"table", tables[t].file>> \in published
                         /\ tables'[t].file[1] = tables[t].file[1]
                         /\ Ancestry(tables'[t].file) \subseteq Ancestry(tables[t].file) \cup files'
        /\ Fresh(t) => /\ Ancestry(tables'[t].file) \subseteq files'
                       /\ \A k \in published : /\ Apart(tables'[t].file, k[2])
                                               /\ Apart(k[2], tables'[t].file)
  BY <1>2, Roots
<1>4. ASSUME NEW k \in published' PROVE k[1] # "staged"
  <2>1. CASE k \in published
    BY <1>1, <2>1
  <2>2. CASE StageCreateInsert(c)
    <3>1. "stage_create_table" \in Enabled
      BY <2>2 DEF StageCreateInsert, InPhase, ReadInv, RequestsEnabled, Served
    <3> QED
      BY <3>1 DEF PurgesUnshared, Sharing
  <2>3. CASE ~StageCreateInsert(c) /\ k \notin published
    <3>1. Continue(c)
      BY <2>3 DEF Arrive, CreateTableStart, StageCreateStart, CreateStart, RegisterTableStart,
         PurgeTableLoad, PurgeStart, RenameTableStart, CommitStart, CreateViewStart,
         RegisterViewStart, UpdateViewStart, RenameViewStart, Abandon
    <3>2. CASE CreateTableInsert(c) \/ RegisterTableInsert(c)
      BY <2>3, <3>2 DEF CreateTableInsert, RegisterTableInsert, InsertTable
    <3>3. CASE ViewInsert(c) \/ UpdateViewSwap(c)
      BY <2>3, <3>3 DEF ViewInsert, InsertView, UpdateViewSwap
    <3>4. CASE CommitSwap(c)
      BY <2>3, <3>4 DEF CommitSwap
    <3> QED
      BY <2>3, <3>1, <3>2, <3>3, <3>4 DEF Continue, CreateTablePrepare, StageCreatePrepare,
         RegisterTableRead, PurgeTableDrop, PurgeTableDelete, RenameTableMove, CommitPrepare,
         CommitRefused, CommitNotFound, CommitSwapLost, CommitDiscard, CreateViewPrepare,
         RegisterViewRead, UpdateViewPrepare, RenameViewMove
  <2> QED
    BY <2>1, <2>2, <2>3
<1>5. ASSUME NEW t \in Live' PROVE Ancestry(tables'[t].file) \subseteq files'
  <2>1. CASE Follows(t)
    <3>1. t \in Live /\ <<"table", tables[t].file>> \in published
      BY <1>3, <2>1 DEF Follows
    <3>2. Ancestry(tables[t].file) \subseteq files
      BY <1>1, <3>1
    <3>3. tables[t].file \in MetadataFile /\ tables[t].file # <<>>
      BY <3>1 DEF TypeOK, ReadInv, KnownPointers
    <3>4. \A f \in Ancestry(tables[t].file) :
            f[1] = tables[t].file[1] /\ \E j \in published : j[2] = f
      BY <3>1, <3>3, AncestryFacts DEF ReadInv, KnownAncestry
    <3>5. ASSUME NEW f \in Ancestry(tables[t].file) PROVE f \in files'
      <4>1. ASSUME PurgeTableDelete(c) PROVE f \notin Ancestry(req[c].file)
        <5>1. /\ Apart(tables[t].file, req[c].file)
              /\ \A g \in Ancestry(req[c].file) : g[1] = req[c].file[1]
          BY <3>1, <4>1, PurgedWasPublished DEF ReadInv
        <5> QED
          BY <3>4, <5>1 DEF Apart
      <4>2. ASSUME f \in Pending(req[c], txn[c]) PROVE FALSE
        <5>1. Unseen(c, f, wrote[c], published)
          BY <4>2 DEF MadeInv, Made
        <5> QED
          BY <3>4, <5>1 DEF Unseen
      <4> QED
        BY <3>2, <4>1, <4>2, LostFiles
    <3> QED
      BY <1>3, <2>1, <3>5
  <2>2. CASE Fresh(t)
    BY <1>3, <2>2
  <2> QED
    BY <1>2, <2>1, <2>2
<1>6. ASSUME NEW s \in Live', NEW t \in Live', s # t
      PROVE  Apart(tables'[s].file, tables'[t].file)
  <2>0. s \in Ident /\ t \in Ident /\ tables'[s] # None /\ tables'[t] # None
    BY DEF Live
  <2>1. CASE Follows(s) /\ Follows(t)
    <3>1. /\ Apart(tables[s].file, tables[t].file)
          /\ tables'[s].file[1] = tables[s].file[1] /\ tables'[t].file[1] = tables[t].file[1]
      BY <1>1, <1>3, <1>6, <2>1 DEF Follows
    <3> QED
      BY <3>1 DEF Apart
  <2>2. ASSUME NEW x \in Live', NEW y \in Live', x # y, Fresh(x)
        PROVE  Apart(tables'[x].file, tables'[y].file) /\ Apart(tables'[y].file, tables'[x].file)
    <3>1. tables'[y] = tables[y] /\ y \in Ident /\ tables[y] # None
      BY <2>2 DEF Fresh, Live
    <3>2. <<"table", tables[y].file>> \in published
      BY <3>1 DEF ReadInv, KnownPointers
    <3>3. \A k \in published : /\ Apart(tables'[x].file, k[2])
                               /\ Apart(k[2], tables'[x].file)
      BY <1>3, <2>2
    <3> QED
      BY <3>1, <3>2, <3>3
  <2> QED
    BY <1>2, <1>6, <2>1, <2>2
<1>7. ASSUME NEW f, <<"table", f>> \in published, NEW t \in Live',
             t \in Live => Apart(tables[t].file, f)
      PROVE  Apart(tables'[t].file, f)
  <2>1. CASE Follows(t)
    <3>1. t \in Live /\ tables'[t].file[1] = tables[t].file[1]
      BY <1>3, <2>1 DEF Follows
    <3> QED
      BY <1>7, <3>1 DEF Apart
  <2>2. CASE Fresh(t)
    <3>1. \A k \in published : Apart(tables'[t].file, k[2])
      BY <1>3, <2>2
    <3> QED
      BY <1>7, <3>1
  <2> QED
    BY <1>2, <2>1, <2>2
<1>8. published \subseteq published'
  <2>1. CASE Continue(c)
    BY <2>1, StepPublishes DEF ReadInv
  <2>2. CASE Arrive(c) \/ Abandon(c)
    BY <2>2 DEF Arrive, CreateTableStart, StageCreateStart, CreateStart, RegisterTableStart,
       PurgeTableLoad, PurgeStart, RenameTableStart, CommitStart, CreateViewStart,
       RegisterViewStart, UpdateViewStart, RenameViewStart, Abandon
  <2> QED
    BY <2>1, <2>2
<1>9. ASSUME NEW d \in Client PROVE PurgesAlone(d)'
  <2>1. CASE d # c
    <3>1. req'[d] = req[d]
      BY <2>1, StepsMoveAlone DEF MovesAlone
    <3>2. PurgesAlone(d)
      BY <1>1
    <3>3. CASE req[d].op = "purge_table" /\ req[d].phase = "drop"
      <4>1. /\ <<"table", req[d].file>> \in published
            /\ \A t \in Live \ {req[d].tab} : Apart(tables[t].file, req[d].file)
        BY <3>2, <3>3 DEF PurgesAlone
      <4>2. \A t \in Live' \ {req[d].tab} : Apart(tables'[t].file, req[d].file)
        BY <1>7, <4>1
      <4> QED
        BY <1>8, <3>1, <3>3, <4>1, <4>2 DEF PurgesAlone
    <3>4. CASE req[d].op = "purge_table" /\ req[d].phase = "delete"
      <4>1. /\ <<"table", req[d].file>> \in published
            /\ \A t \in Live : Apart(tables[t].file, req[d].file)
        BY <3>2, <3>4 DEF PurgesAlone
      <4>2. \A t \in Live' : Apart(tables'[t].file, req[d].file)
        BY <1>7, <4>1
      <4> QED
        BY <1>8, <3>1, <3>4, <4>1, <4>2 DEF PurgesAlone
    <3> QED
      BY <3>1, <3>3, <3>4 DEF PurgesAlone
  <2>2. CASE d = c /\ req'[c].op = "purge_table" /\ req'[c].phase # "idle"
    <3>0. DOMAIN req = Client /\ req[c] \in Request /\ tables \in [Ident -> Record \cup {None}]
      BY DEF TypeOK
    <3>1. CASE \E t \in Ident : PurgeTableLoad(c, t)
      <4>1. PICK t \in Ident : PurgeTableLoad(c, t)
        BY <3>1
      <4>2. /\ req'[c].phase = "drop" /\ req'[c].tab = t /\ req'[c].file = tables[t].file
            /\ tables' = tables /\ t \in Live
        BY <3>0, <4>1 DEF PurgeTableLoad, PurgeStart, Begin, On, Idle, registry, Live
      <4>3. <<"table", tables[t].file>> \in published
        BY <4>2 DEF ReadInv, KnownPointers, Live
      <4>4. \A s \in Live' \ {t} : Apart(tables'[s].file, tables[t].file)
        BY <1>1, <4>2 DEF Live
      <4> QED
        BY <1>8, <2>2, <4>2, <4>3, <4>4 DEF PurgesAlone
    <3>2. CASE PurgeTableDrop(c)
      <4>1. req[c].op = "purge_table" /\ req[c].phase = "drop" /\ req[c].tab \in Ident
        BY <3>2 DEF PurgeTableDrop, InPhase, TypeOK, RequestsFitPhase
      <4>2. tables[req[c].tab] # None /\ Advance(c, "delete", req[c].file)
            /\ tables' = [tables EXCEPT ![req[c].tab] = None]
        BY <2>2, <3>0, <3>2 DEF PurgeTableDrop, Finish, Idle
      <4>3. req'[c].phase = "delete" /\ req'[c].file = req[c].file
        BY <3>0, <4>2 DEF Advance, Request
      <4>4. /\ <<"table", req[c].file>> \in published
            /\ \A t \in Live \ {req[c].tab} : Apart(tables[t].file, req[c].file)
        BY <1>1, <4>1 DEF PurgesAlone
      <4>5. \A t \in Live' : t \in Live \ {req[c].tab} /\ tables'[t] = tables[t]
        BY <3>0, <4>1, <4>2 DEF Live
      <4> QED
        BY <1>8, <2>2, <4>3, <4>4, <4>5 DEF PurgesAlone
    <3> QED
      BY <2>2, <3>1, <3>2, PurgeGoesOn
  <2>3. CASE d = c /\ ~(req'[c].op = "purge_table" /\ req'[c].phase # "idle")
    BY <2>3 DEF PurgesAlone
  <2> QED
    BY <2>1, <2>2, <2>3
<1> QED
  BY <1>0, <1>4, <1>5, <1>6, <1>9 DEF PurgesSafe

LEMMA ReadNext ==
  ASSUME TypeOK, TypeOK', MadeInv, PreparedOnto, UpdatesOnto, ReadInv, PurgesUnshared,
         [Next]_vars
  PROVE  ReadInv'
<1>1. KnownPointers' /\ KnownAncestry' /\ KindsApart' /\ RequestsEnabled'
  BY KnownNext, ServedNext DEF ReadInv
<1>2. KeptFiles' /\ PurgesSafe'
  <2>1. ASSUME NEW c \in Client, Arrive(c) \/ Continue(c) \/ Abandon(c)
        PROVE  KeptFiles' /\ PurgesSafe'
    BY <2>1, KeptStep, PurgesStep
  <2>2. CASE Immediate \/ UNCHANGED vars
    <3>1. UNCHANGED <<clients, files, published>>
      BY <2>2 DEF Immediate, CreateNamespace, DropNamespace, DropTable, DropView, vars, clients
    <3>2. \A t \in Live' : t \in Live /\ tables'[t] = tables[t]
      BY <2>2 DEF Immediate, CreateNamespace, DropNamespace, DropTable, DropView, vars, Live, TypeOK
    <3>3. KeptFiles'
      BY <3>1 DEF ReadInv, KeptFiles, clients, Purging
    <3>4. ASSUME Purging, NEW c \in Client PROVE PurgesAlone(c)'
      <4>1. PurgesAlone(c) /\ req' = req /\ published' = published
        BY <3>1, <3>4 DEF ReadInv, PurgesSafe, clients
      <4> QED
        BY <3>2, <4>1 DEF PurgesAlone
    <3>5. PurgesSafe'
      BY <3>1, <3>2, <3>4 DEF ReadInv, PurgesSafe, Purging
    <3> QED
      BY <3>3, <3>5
  <2> QED
    BY <2>1, <2>2 DEF Next
<1> QED
  BY <1>1, <1>2 DEF ReadInv

LEMMA InitRead == Init => ReadInv
<1> SUFFICES ASSUME Init PROVE ReadInv
  OBVIOUS
<1>1. TypeOK
  BY TypeInit
<1>2. \A t \in Ident : /\ SeedFile(t) \in MetadataFile /\ SeedFile(t) # <<>>
                       /\ SeedFile(t)[1] = <<t, 0>> /\ Len(SeedFile(t)) = 1
  BY DEF SeedFile, MetadataFile, WriteId
<1>3. \A t \in Ident : Ancestry(SeedFile(t)) = {SeedFile(t)}
  BY <1>2, FirstAncestry
<1>4. \A s, t \in Ident : s # t => Apart(SeedFile(s), SeedFile(t))
  BY <1>2 DEF Apart
<1>5. /\ InitTables \subseteq Ident /\ InitViews \subseteq Ident /\ InitTables \cap InitViews = {}
  BY NamesAssumption
<1>6. \A k \in published :
        \/ k[1] = "table" /\ \E t \in InitTables : k[2] = SeedFile(t)
        \/ k[1] = "view" /\ \E v \in InitViews : k[2] = SeedFile(v)
  BY DEF Init
<1>7. \A t \in Ident :
        /\ tables[t] # None => t \in InitTables /\ tables[t].file = SeedFile(t)
        /\ views[t] # None => t \in InitViews /\ views[t].file = SeedFile(t)
  BY DEF Init, SeedRecords
<1>8. /\ \A t \in InitTables : <<"table", SeedFile(t)>> \in published /\ SeedFile(t) \in files
      /\ \A v \in InitViews : <<"view", SeedFile(v)>> \in published /\ SeedFile(v) \in files
  BY DEF Init
<1>9. KnownPointers
  BY <1>2, <1>5, <1>6, <1>7, <1>8 DEF KnownPointers
<1>10. KnownAncestry
  BY <1>3, <1>5, <1>6 DEF KnownAncestry
<1>11. KindsApart
  BY <1>4, <1>5, <1>6 DEF KindsApart
<1>12. /\ \A c \in Client : req[c] = Idle /\ txn[c] = NoTransaction
       /\ \A c \in Client : Pending(req[c], txn[c]) = {}
  <2>1. \A c \in Client : req[c] = Idle /\ txn[c] = NoTransaction
    <3>1. req = [c \in Client |-> Idle] /\ txn = [c \in Client |-> NoTransaction]
      BY DEF Init
    <3> QED
      BY <3>1
  <2>2. NoTransaction.prepared = <<>> /\ Idle.phase = "idle"
    BY DEF NoTransaction, Idle
  <2> QED
    BY <2>1, <2>2, NonePending
<1>13. KeptFiles
  BY <1>6, <1>8, <1>12 DEF KeptFiles
<1>14. RequestsEnabled
  <2>1. Served(Idle)
    BY DEF Served, Idle
  <2> QED
    BY <1>12, <2>1 DEF RequestsEnabled
<1>15. \A c \in Client : PurgesAlone(c)
  BY <1>12 DEF PurgesAlone, Idle
<1>16. /\ \A k \in published : k[1] # "staged"
       /\ \A t \in Live : Ancestry(tables[t].file) \subseteq files
       /\ \A s, t \in Live : s # t => Apart(tables[s].file, tables[t].file)
  <2>1. \A t \in Live : /\ t \in Ident /\ t \in InitTables /\ tables[t].file = SeedFile(t)
                        /\ SeedFile(t) \in files
    BY <1>7, <1>8 DEF Live
  <2>2. \A t \in Live : Ancestry(tables[t].file) \subseteq files
    BY <1>3, <2>1
  <2>3. \A s, t \in Live : s # t => Apart(tables[s].file, tables[t].file)
    BY <1>4, <2>1
  <2>4. \A k \in published : k[1] # "staged"
    BY <1>6
  <2> QED
    BY <2>2, <2>3, <2>4
<1>17. PurgesSafe
  BY <1>15, <1>16 DEF PurgesSafe
<1> QED
  BY <1>9, <1>10, <1>11, <1>13, <1>14, <1>17 DEF ReadInv

LEMMA ReadableOf ==
  ASSUME TypeOK, MadeInv, ReadInv
  PROVE  HistoryReadable
<1>1. ASSUME NEW t \in Live PROVE Ancestry(tables[t].file) \subseteq files
  <2>1. CASE Purging
    BY <2>1 DEF ReadInv, PurgesSafe
  <2>2. CASE ~Purging
    <3>1. <<"table", tables[t].file>> \in published
      BY DEF Live, ReadInv, KnownPointers
    <3>2. \A f \in Ancestry(tables[t].file) : \E j \in published : j[2] = f
      BY <3>1 DEF ReadInv, KnownAncestry
    <3> QED
      BY <2>2, <3>2 DEF ReadInv, KeptFiles
  <2> QED
    BY <2>1, <2>2
<1>2. ASSUME NEW v \in LiveViews PROVE views[v].file \in files
  <2>1. <<"view", views[v].file>> \in published
    BY DEF LiveViews, ReadInv, KnownPointers
  <2> QED
    BY <2>1 DEF ReadInv, KeptFiles
<1>3. ASSUME NEW t \in Ident, staged[t] # None PROVE staged[t] \in files
  <2>1. <<"staged", staged[t]>> \in published
    BY <1>3 DEF MadeInv, StagingsKnown
  <2>2. ~Purging
    BY <2>1 DEF ReadInv, PurgesSafe
  <2> QED
    BY <2>1, <2>2 DEF ReadInv, KeptFiles
<1> QED
  BY <1>1, <1>2, <1>3 DEF HistoryReadable

\* Nothing in use is deleted: not by the cleanup of a commit that lost its swap
\* (redb.rs:1809-1821), nor by a purge, which drops whatever is under the name and deletes
\* what it loaded before (redb.rs:1037-1050).  The latter as long as no other name can have
\* come to share the files of the table purged: a rename, a registration of an old metadata
\* file or a commit onto a staging that another commit has used already makes two names
\* descend from one file, and a purge of either then takes it from both.
THEOREM HistoryReadableHolds == ASSUME PurgesUnshared PROVE Spec => []HistoryReadable
<1> DEFINE IInv == TypeOK /\ MadeInv /\ PreparedOnto /\ UpdatesOnto /\ ReadInv
<1>1. Init => IInv
  BY TypeInit, InitMade, InitRead DEF Init, PreparedOnto, UpdatesOnto, NoTransaction, Idle
<1>2. IInv /\ [Next]_vars => IInv'
  <2>1. IInv /\ [Next]_vars => TypeOK' /\ MadeInv' /\ PreparedOnto' /\ UpdatesOnto'
    BY TypeNext, NextMade, PreparedNext, UpdatesNext
  <2> QED
    BY <2>1, ReadNext
<1>3. IInv => HistoryReadable
  BY ReadableOf
<1> QED
  BY <1>1, <1>2, <1>3, PTL DEF Spec

-----------------------------------------------------------------------------
(* What a commit that lost leaves behind.  A handler that is cut off, or that *)
(* writes a file before it finds the name taken or the witness stale, leaves  *)
(* the file where it is, and so does an attempt over several tables whose     *)
(* later requirement fails.  Beside those nothing is left.                    *)

Tidy ==
  /\ MaxChanges = 1
  /\ Enabled \cap {"create_table", "create_view", "update_view", "abandon"} = {}

OneChange == \A c \in Client : Len(txn[c].changes) <= 1

AccountedFor(f, rs, xs, pub) ==
  (\E k \in pub : k[2] = f) \/ \E c \in Client : f \in Pending(rs[c], xs[c])

Accounted == \A f \in files : AccountedFor(f, req, txn, published)

LEMMA OneChangeStep ==
  ASSUME TypeOK, MadeInv, MaxChanges = 1, OneChange, NEW c \in Client,
         Arrive(c) \/ Continue(c) \/ Abandon(c)
  PROVE  OneChange'
<1>1. DOMAIN txn = Client /\ txn[c] \in Transaction
  BY DEF TypeOK
<1>2. Len(txn'[c].changes) <= 1
  <2>1. CASE txn'[c] = txn[c]
    BY <2>1 DEF OneChange
  <2>2. CASE txn' = [txn EXCEPT ![c] = NoTransaction]
    BY <1>1, <2>2 DEF NoTransaction
  <2>3. CASE \E n : txn' = [txn EXCEPT ![c] = Attempt(@.changes, n)]
    BY <1>1, <2>3 DEF Attempt, OneChange
  <2>4. CASE CommitStart(c)
    <3>1. PICK n \in 1..MaxChanges :
            \E changes \in [1..n -> UNION {Requests(t) : t \in Ident}] :
              txn' = [txn EXCEPT ![c] = Attempt(changes, 1)]
      BY <2>4 DEF CommitStart
    <3>2. PICK changes \in [1..n -> UNION {Requests(t) : t \in Ident}] :
              txn' = [txn EXCEPT ![c] = Attempt(changes, 1)]
      BY <3>1
    <3>3. txn'[c].changes = changes
      BY <1>1, <3>2 DEF Attempt
    <3>4. n = 1 /\ Len(changes) = n
      BY <3>1, <3>2
    <3> QED
      BY <3>3, <3>4
  <2>5. CASE CommitPrepare(c)
    <3>1. PICK all : txn' = [txn EXCEPT ![c].prepared = all]
      BY <2>5 DEF CommitPrepare
    <3>2. txn'[c].changes = txn[c].changes
      BY <1>1, <3>1 DEF Transaction
    <3> QED
      BY <3>2 DEF OneChange
  <2>6. CASE txn' = txn
    BY <2>1, <2>6
  <2>7. CASE Retry(c)
    BY <2>2, <2>3, <2>7 DEF Retry
  <2>8. CASE Arrive(c)
    BY <2>4, <2>6, <2>8 DEF Arrive, CreateTableStart, StageCreateStart, CreateStart,
       RegisterTableStart, PurgeTableLoad, PurgeStart, RenameTableStart, CreateViewStart,
       RegisterViewStart, UpdateViewStart, RenameViewStart
  <2>9. CASE CommitRefused(c) \/ CommitNotFound(c) \/ CommitSwap(c) \/ CommitDiscard(c) \/ Abandon(c)
    BY <2>2, <2>7, <2>9 DEF CommitRefused, CommitNotFound, CommitSwap, CommitDiscard, Abandon
  <2> QED
    BY <2>5, <2>6, <2>8, <2>9 DEF Continue, CreateTablePrepare, StageCreatePrepare,
       CreateTableInsert, StageCreateInsert, RegisterTableRead, RegisterTableInsert,
       PurgeTableDrop, PurgeTableDelete, RenameTableMove, CommitSwapLost, CreateViewPrepare,
       RegisterViewRead, ViewInsert, UpdateViewPrepare, UpdateViewSwap, RenameViewMove
<1> QED
  BY <1>2, StepsMoveAlone DEF OneChange, MovesAlone

\* A file that a request holds is held on, published, or deleted.
LEMMA HeldStep ==
  ASSUME TypeOK, MadeInv, RequestsEnabled, Tidy, OneChange, NEW c \in Client,
         Arrive(c) \/ Continue(c) \/ Abandon(c),
         NEW f \in Pending(req[c], txn[c]), f \in files'
  PROVE  f \in Pending(req'[c], txn'[c]) \/ \E k \in published' : k[2] = f
<1>1. /\ DOMAIN req = Client /\ DOMAIN txn = Client /\ req[c] \in Request
      /\ Made(c, req[c], txn[c], wrote[c], published) /\ Served(req[c])
  BY DEF TypeOK, MadeInv, RequestsEnabled
<1>2. /\ req[c].phase = "idle" \/ req[c].op # "commit" => txn[c].prepared = <<>>
      /\ req[c].phase # "idle"
           => req[c].op \notin {"create_table", "create_view", "update_view"}
  BY <1>1 DEF Made, Served, Tidy
<1>3. CASE req[c].phase = "idle"
  BY <1>2, <1>3, NonePending
<1>4. CASE req[c].op # "commit" /\ req[c].phase # "idle"
  <2>1. req[c].op = "stage_create_table" /\ req[c].phase = "insert" /\ f = req[c].file
    BY <1>2, <1>4 DEF Pending
  <2>2. StageCreateInsert(c)
    <3>1. ~Arrive(c)
      BY <2>1 DEF Arrive, CreateTableStart, StageCreateStart, CreateStart, RegisterTableStart,
         PurgeTableLoad, PurgeStart, RenameTableStart, CommitStart, CreateViewStart,
         RegisterViewStart, UpdateViewStart, RenameViewStart, Begin, Idle
    <3>2. ~Abandon(c)
      BY DEF Abandon, Tidy
    <3> QED
      BY <2>1, <3>1, <3>2 DEF Continue, CreateTablePrepare, StageCreatePrepare,
         CreateTableInsert, RegisterTableRead, RegisterTableInsert, PurgeTableDrop,
         PurgeTableDelete, RenameTableMove, CommitPrepare, CommitRefused, CommitNotFound,
         CommitSwap, CommitSwapLost, CommitDiscard, CreateViewPrepare, RegisterViewRead,
         ViewInsert, UpdateViewPrepare, UpdateViewSwap, RenameViewMove, InPhase
  <2>3. <<"staged", f>> \in published'
    BY <2>1, <2>2 DEF StageCreateInsert
  <2> QED
    BY <2>3
<1>5. CASE req[c].op = "commit" /\ req[c].phase # "idle"
  <2>1. PICK i \in DOMAIN txn[c].prepared : f = txn[c].prepared[i].file
    BY <1>5 DEF Pending
  <2>2. req[c].phase # "prepare"
    <3>1. txn[c].prepared \in Seq(Prepared) /\ txn[c].changes \in Seq(Change)
      BY AttemptType
    <3>2. Len(txn[c].prepared) >= 1 /\ Len(txn[c].changes) <= 1
      BY <2>1, <3>1 DEF OneChange
    <3>3. req[c].phase = "prepare" => Len(txn[c].prepared) < Len(txn[c].changes)
      BY <1>5 DEF TypeOK, RequestsFitPhase
    <3> QED
      BY <3>1, <3>2, <3>3
  <2>3. CommitSwap(c) \/ CommitSwapLost(c) \/ CommitDiscard(c)
    <3>1. ~Arrive(c)
      BY <1>5 DEF Arrive, CreateTableStart, StageCreateStart, CreateStart, RegisterTableStart,
         PurgeTableLoad, PurgeStart, RenameTableStart, CommitStart, CreateViewStart,
         RegisterViewStart, UpdateViewStart, RenameViewStart, Begin, Idle
    <3>2. ~Abandon(c)
      BY DEF Abandon, Tidy
    <3> QED
      BY <1>5, <2>2, <3>1, <3>2 DEF Continue, CreateTablePrepare, StageCreatePrepare,
         CreateTableInsert, StageCreateInsert, RegisterTableRead, RegisterTableInsert,
         PurgeTableDrop, PurgeTableDelete, RenameTableMove, CommitPrepare, CommitRefused,
         CommitNotFound, CreateViewPrepare, RegisterViewRead, ViewInsert, UpdateViewPrepare,
         UpdateViewSwap, RenameViewMove, InPhase
  <2>4. CASE CommitSwap(c)
    <3>1. <<"table", f>> \in published'
      BY <2>1, <2>4 DEF CommitSwap
    <3> QED
      BY <3>1
  <2>5. CASE CommitSwapLost(c)
    <3>1. txn' = txn
      BY <2>5 DEF CommitSwapLost
    <3> QED
      BY <2>1, <3>1 DEF Pending
  <2>6. CASE CommitDiscard(c)
    BY <2>1, <2>6 DEF CommitDiscard, WrittenByAttempt
  <2> QED
    BY <2>3, <2>4, <2>5, <2>6
<1> QED
  BY <1>3, <1>4, <1>5

\* A file that is new in the store is held by the request that wrote it.
LEMMA WrittenIsHeld ==
  ASSUME TypeOK, RequestsEnabled, Tidy, NEW c \in Client, Arrive(c) \/ Continue(c) \/ Abandon(c),
         NEW f \in files', f \notin files
  PROVE  f \in Pending(req'[c], txn'[c])
<1>1. /\ DOMAIN req = Client /\ DOMAIN txn = Client /\ req[c] \in Request
      /\ Served(req[c])
  BY DEF TypeOK, RequestsEnabled
<1>2. files' \subseteq files => FALSE
  OBVIOUS
<1>3. ASSUME CreateTablePrepare(c) \/ CreateViewPrepare(c) \/ UpdateViewPrepare(c) PROVE FALSE
  BY <1>1, <1>3 DEF CreateTablePrepare, CreateViewPrepare, UpdateViewPrepare, InPhase, Served, Tidy
<1>4. CASE StageCreatePrepare(c)
  <2> DEFINE g == <<FreshId(c)>>
  <2>1. Advance(c, "insert", g) /\ WriteFile(c, g) /\ req[c].op = "stage_create_table"
    BY <1>4 DEF StageCreatePrepare, FirstFile, InPhase
  <2>2. req'[c].op = "stage_create_table" /\ req'[c].phase = "insert" /\ req'[c].file = g
    BY <1>1, <2>1 DEF Advance, Request
  <2>3. f = g
    BY <2>1 DEF WriteFile
  <2> QED
    BY <2>2, <2>3 DEF Pending
<1>5. CASE CommitPrepare(c)
  <2> DEFINE g   == Append(Base(NextChange(c)), FreshId(c))
             p   == [tab |-> NextChange(c).tab, expected |-> tables[NextChange(c).tab], file |-> g]
             old == txn[c].prepared
             all == Append(old, p)
  <2>1. old \in Seq(Prepared) /\ txn[c] \in Transaction
    BY AttemptType
  <2>2. WriteFile(c, g) /\ txn'[c].prepared = all
    BY <1>1, <1>5, <2>1 DEF CommitPrepare, Transaction
  <2>3. f = g /\ p.file = g
    BY <2>2 DEF WriteFile
  <2> HIDE DEF g, p
  <2>4. Len(old) + 1 \in DOMAIN all /\ all[Len(old) + 1] = p
    BY <2>1
  <2> HIDE DEF all
  <2> QED
    BY <2>2, <2>3, <2>4 DEF Pending
<1>6. CASE Arrive(c) \/ Abandon(c)
  BY <1>2, <1>6 DEF Arrive, CreateTableStart, StageCreateStart, CreateStart, RegisterTableStart,
     PurgeTableLoad, PurgeStart, RenameTableStart, CommitStart, CreateViewStart,
     RegisterViewStart, UpdateViewStart, RenameViewStart, Abandon
<1> QED
  BY <1>2, <1>3, <1>4, <1>5, <1>6 DEF Continue, CreateTableInsert, StageCreateInsert,
     RegisterTableRead, RegisterTableInsert, PurgeTableDrop, PurgeTableDelete, RenameTableMove,
     CommitRefused, CommitNotFound, CommitSwap, CommitSwapLost, CommitDiscard, ViewInsert,
     RegisterViewRead, UpdateViewSwap, RenameViewMove

LEMMA AccountedStep ==
  ASSUME TypeOK, MadeInv, RequestsEnabled, Tidy, OneChange, Accounted,
         published \subseteq published', NEW c \in Client, Arrive(c) \/ Continue(c) \/ Abandon(c)
  PROVE  Accounted'
<1> SUFFICES ASSUME NEW f \in files'
             PROVE  (\E k \in published' : k[2] = f)
                    \/ \E d \in Client : f \in Pending(req'[d], txn'[d])
  BY DEF Accounted, AccountedFor
<1>1. CASE f \notin files
  BY <1>1, WrittenIsHeld
<1>2. CASE f \in files
  <2>1. CASE \E k \in published : k[2] = f
    BY <2>1
  <2>2. CASE f \in Pending(req[c], txn[c])
    BY <2>2, HeldStep
  <2>3. ASSUME NEW d \in Client, d # c, f \in Pending(req[d], txn[d])
        PROVE  f \in Pending(req'[d], txn'[d])
    BY <2>3, StepsMoveAlone DEF MovesAlone
  <2> QED
    BY <1>2, <2>1, <2>2, <2>3 DEF Accounted, AccountedFor
<1> QED
  BY <1>1, <1>2

LEMMA AccountedNext ==
  ASSUME TypeOK, MadeInv, PreparedOnto, UpdatesOnto, KnownPointers, RequestsEnabled, Tidy,
         OneChange, Accounted, [Next]_vars
  PROVE  OneChange' /\ Accounted'
<1>1. ASSUME NEW c \in Client, Arrive(c) \/ Continue(c) \/ Abandon(c)
      PROVE  OneChange' /\ Accounted'
  <2>1. published \subseteq published'
    <3>1. CASE Continue(c)
      BY <3>1, StepPublishes
    <3>2. CASE Arrive(c) \/ Abandon(c)
      BY <3>2 DEF Arrive, CreateTableStart, StageCreateStart, CreateStart, RegisterTableStart,
         PurgeTableLoad, PurgeStart, RenameTableStart, CommitStart, CreateViewStart,
         RegisterViewStart, UpdateViewStart, RenameViewStart, Abandon
    <3> QED
      BY <1>1, <3>1, <3>2
  <2> QED
    BY <1>1, <2>1, OneChangeStep, AccountedStep DEF Tidy
<1>2. CASE Immediate \/ UNCHANGED vars
  <2>1. UNCHANGED <<clients, files, published>>
    BY <1>2 DEF Immediate, CreateNamespace, DropNamespace, DropTable, DropView, vars, clients
  <2> QED
    BY <2>1 DEF OneChange, Accounted, AccountedFor, clients
<1> QED
  BY <1>1, <1>2 DEF Next

LEMMA NoLitterOf ==
  ASSUME TypeOK, KnownPointers, MadeInv, Accounted
  PROVE  NoLitter
<1> SUFFICES ASSUME NEW f \in files PROVE f \in Reachable
  BY DEF NoLitter
<1>1. CASE \E k \in published : k[2] = f
  <2>1. PICK k \in published : k[2] = f
    BY <1>1
  <2>2. f \in MetadataFile /\ f # <<>>
    BY <2>1 DEF TypeOK, KnownPointers
  <2>3. f \in Ancestry(k[2])
    BY <2>1, <2>2, AncestryFacts
  <2> QED
    BY <2>3 DEF Reachable
<1>2. CASE \E c \in Client : f \in Pending(req[c], txn[c])
  <2>1. PICK c \in Client : f \in Pending(req[c], txn[c])
    BY <1>2
  <2> DEFINE of(d) == {txn[d].prepared[i].file : i \in DOMAIN txn[d].prepared}
             known == UNION {Ancestry(k[2]) : k \in published}
  <2>2. f = req[c].file \/ f \in of(c)
    BY <2>1 DEF Pending
  <2>3. Reachable = known \cup (UNION {of(d) : d \in Client}) \cup {req[d].file : d \in Client}
    BY DEF Reachable
  <2> HIDE DEF of, known
  <2>4. f \in UNION {of(d) : d \in Client} \/ f \in {req[d].file : d \in Client}
    BY <2>2
  <2> QED
    BY <2>3, <2>4
<1> QED
  BY <1>1, <1>2 DEF Accounted, AccountedFor

\* The cleanup after a lost swap leaves nothing behind (the aim redb.rs:1797-1808 states),
\* however often commits, stagings, drops, purges and renames contend for one name: every
\* file in the store has been pointed at, or a request still holds it.  The condition names
\* the paths of redb.rs that do leave a file: a create or an update of a view that finds its
\* name taken or its witness stale after it has written, an attempt over several tables
\* whose later requirement fails, and a handler cut off between its steps.
THEOREM NoLitterHolds == ASSUME Tidy PROVE Spec => []NoLitter
<1> DEFINE IInv == /\ TypeOK /\ MadeInv /\ PreparedOnto /\ UpdatesOnto
                   /\ KnownPointers /\ KnownAncestry /\ KindsApart /\ RequestsEnabled
                   /\ OneChange /\ Accounted
<1>1. Init => IInv
  <2> SUFFICES ASSUME Init PROVE IInv
    OBVIOUS
  <2>1. TypeOK /\ MadeInv /\ PreparedOnto /\ UpdatesOnto /\ ReadInv
    BY TypeInit, InitMade, InitRead DEF Init, PreparedOnto, UpdatesOnto, NoTransaction, Idle
  <2>2. OneChange
    <3>1. \A c \in Client : txn[c] = NoTransaction
      BY DEF Init
    <3>2. NoTransaction.changes = <<>> /\ Len(<<>>) <= 1
      BY DEF NoTransaction
    <3> QED
      BY <3>1, <3>2 DEF OneChange
  <2>3. \A f \in files : \E k \in published : k[2] = f
    <3>1. \A t \in InitTables \cup InitViews :
            <<"table", SeedFile(t)>> \in published \/ <<"view", SeedFile(t)>> \in published
      BY DEF Init
    <3>2. \A f \in files : \E t \in InitTables \cup InitViews : f = SeedFile(t)
      BY DEF Init
    <3> QED
      BY <3>1, <3>2
  <2> QED
    BY <2>1, <2>2, <2>3 DEF ReadInv, Accounted, AccountedFor
<1>2. IInv /\ [Next]_vars => IInv'
  <2> SUFFICES ASSUME IInv, [Next]_vars PROVE IInv'
    OBVIOUS
  <2>1. TypeOK' /\ MadeInv' /\ PreparedOnto' /\ UpdatesOnto'
    BY TypeNext, NextMade, PreparedNext, UpdatesNext
  <2>2. KnownPointers' /\ KnownAncestry' /\ KindsApart' /\ RequestsEnabled'
    BY <2>1, KnownNext, ServedNext
  <2>3. OneChange' /\ Accounted'
    BY AccountedNext
  <2> QED
    BY <2>1, <2>2, <2>3
<1>3. IInv => NoLitter
  BY NoLitterOf
<1> QED
  BY <1>1, <1>2, <1>3, PTL DEF Spec
=============================================================================
