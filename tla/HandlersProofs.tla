--------------------------- MODULE HandlersProofs ---------------------------
(***************************************************************************)
(* Of the handlers, for any clients, replicas, tenants, policies, requests *)
(* and number of them: their state keeps its type, and the four properties *)
(* of Handlers hold.  Each follows from an invariant of its own, about one *)
(* request and the part of the state it will be decided by.                *)
(***************************************************************************)
EXTENDS Handlers, SequenceTheorems, TLAPS

-----------------------------------------------------------------------------
(* Types                                                                    *)

Phase == {"idle", "deciding", "permitted", "reading", "ready", "ran", "vended"}

Decision == Action \X Namespace

RequestState ==
  [phase : Phase, q : Menu \cup {None}, on : Replica \cup {None}, number : Nat,
   todo : Seq(Decision), owners : SUBSET Tenant, recorded : SUBSET Decision,
   read : NamespaceState \cup ObjectState \cup {None}, answer : Outcome \cup {None}]

\* What the next step of a request finds.
Fits(r) ==
  /\ r.phase # "idle" => r.q \in Menu /\ r.on \in Replica
  /\ r.phase = "deciding" => r.todo # <<>>
  /\ r.phase = "ready" /\ r.q.op = "UpdateProperties" => r.read \in NamespaceState

Requests ==
  /\ req \in [Client -> RequestState]
  /\ begun \in Nat
  /\ \A c \in Client : Fits(req[c]) /\ req[c].number <= begun

Catalog ==
  /\ namespaces \in [Namespace -> NamespaceState \cup {None}]
  /\ objects \in [Namespace -> ObjectState \cup {None}]

Receipts ==
  /\ shared \subseteq Scopes /\ lapsed \subseteq Scopes
  /\ local \in [Replica -> SUBSET Scopes]
  /\ reachable \in BOOLEAN
  /\ settled \in [Scopes -> Nat \cup {None}]

Policy ==
  /\ grants \in [Replica -> SUBSET (Principal \X Tenant \X Action)]
  /\ revoked \in [Replica -> [Principal -> Nat \cup {None}]]

TypeOK == Requests /\ Catalog /\ Receipts /\ Policy

-----------------------------------------------------------------------------
(* What a request asks                                                      *)

LEMMA MenuTyped ==
  ASSUME NEW q \in Menu
  PROVE  /\ q \in Request
         /\ q.op \in Renames \cup {"CommitTransaction"} => q.to \in Namespace
  BY RequestAssumption DEF Request, Renames

LEMMA DecisionsTyped ==
  ASSUME NEW q \in Menu
  PROVE  Decisions(q) \in Seq(Decision) /\ Decisions(q) # <<>>
<1>1. q \in Request
  BY MenuTyped
<1>2. ActionOf(q.op) \in Action
  BY DEF ActionOf, Action
<1>3. CASE q.op \in Renames \cup {"CommitTransaction"}
  <2>1. q.at \in Namespace /\ q.to \in Namespace
    BY <1>1, <1>3, MenuTyped DEF Request
  <2>2. <<"Update", q.at>> \in Decision /\ <<"Create", q.to>> \in Decision /\ <<"Update", q.to>> \in Decision
    BY <2>1 DEF Decision, Action
  <2> QED
    BY <1>3, <2>2 DEF Decisions, Renames
<1>4. CASE /\ q.op \notin Renames \cup {"CommitTransaction"}
           /\ q.op = "CreateNamespace" /\ ~Root(q)
  <2>1. ParentOf[q.at] \in Namespace
    BY <1>1, <1>4, RequestAssumption DEF Root, Request
  <2>2. <<"Create", ParentOf[q.at]>> \in Decision
    BY <2>1 DEF Decision, Action
  <2> QED
    BY <1>4, <2>2 DEF Decisions, Renames
<1>5. CASE /\ q.op \notin Renames \cup {"CommitTransaction"}
           /\ ~(q.op = "CreateNamespace" /\ ~Root(q))
  <2>1. <<ActionOf(q.op), q.at>> \in Decision
    BY <1>1, <1>2 DEF Decision, Request
  <2> QED
    BY <1>5, <2>1 DEF Decisions, Renames
<1> QED
  BY <1>3, <1>4, <1>5

LEMMA ScopeTyped ==
  ASSUME NEW q \in Menu, q.key # None
  PROVE  Scope(q) \in Scopes
  BY DEF Scopes

\* To reason of one request at a time.
LEMMA ClientStep ==
  ASSUME Requests, NEW c \in Client, NEW r \in RequestState,
         req' = [req EXCEPT ![c] = r], begun' \in Nat, begun <= begun',
         Fits(r), r.number <= begun'
  PROVE  Requests'
<1>1. req' \in [Client -> RequestState]
  BY DEF Requests
<1>2. ASSUME NEW d \in Client PROVE Fits(req'[d]) /\ req'[d].number <= begun'
  <2>1. CASE d = c
    BY <2>1 DEF Requests
  <2>2. CASE d # c
    <3>1. req'[d] = req[d] /\ req[d].number \in Nat
      BY <2>2 DEF Requests, RequestState
    <3> QED
      BY <3>1 DEF Requests
  <2> QED
    BY <2>1, <2>2
<1> QED
  BY <1>1, <1>2 DEF Requests

LEMMA IdleTyped ==
  ASSUME NEW a \in Outcome \cup {None}
  PROVE  [Idle EXCEPT !.answer = a] \in RequestState /\ Fits([Idle EXCEPT !.answer = a])
<1>1. <<>> \in Seq(Decision)
  OBVIOUS
<1>2. [Idle EXCEPT !.answer = a] \in RequestState
  BY <1>1 DEF Idle, RequestState, Phase
<1> QED
  BY <1>2 DEF Idle, Fits

LEMMA AnswerTyped ==
  ASSUME Requests, NEW c \in Client, NEW a \in Outcome \cup {None}, Answer(c, a), begun' = begun
  PROVE  Requests'
<1>1. [Idle EXCEPT !.answer = a].number = 0
  BY DEF Idle
<1>2. begun' \in Nat /\ begun <= begun' /\ 0 <= begun'
  BY DEF Requests
<1> QED
  BY <1>1, <1>2, IdleTyped, ClientStep DEF Answer

-----------------------------------------------------------------------------
(* Every step keeps requests as they are to be                              *)

LEMMA BeginTyped ==
  ASSUME Requests, NEW c \in Client, NEW q \in Menu, NEW r \in Replica, Begin(c, q, r)
  PROVE  Requests'
<1> DEFINE new == [Idle EXCEPT !.phase = "deciding", !.q = q, !.on = r,
                               !.number = begun + 1, !.todo = Decisions(q)]
<1>1. Decisions(q) \in Seq(Decision) /\ Decisions(q) # <<>>
  BY DecisionsTyped
<1>2. begun + 1 \in Nat /\ begun' = begun + 1
  BY DEF Begin, Requests
<1>3. new \in RequestState
  BY <1>1, <1>2 DEF Idle, RequestState, Phase
<1>4. Fits(new) /\ new.number = begun + 1
  BY <1>1 DEF Idle, Fits
<1>5. req' = [req EXCEPT ![c] = new]
  BY DEF Begin
<1>6. begun <= begun' /\ new.number <= begun'
  BY <1>2, <1>4 DEF Requests
<1> HIDE DEF new
<1> QED
  BY <1>2, <1>3, <1>4, <1>5, <1>6, ClientStep

LEMMA AskedTyped ==
  ASSUME TypeOK, NEW c \in Client, req[c].phase = "deciding"
  PROVE  /\ Head(req[c].todo) \in Decision /\ Tail(req[c].todo) \in Seq(Decision)
         /\ req[c].q \in Menu
         /\ OwnerAsked(c) # None => OwnerAsked(c) \in Tenant
<1>1. req[c] \in RequestState /\ Fits(req[c])
  BY DEF TypeOK, Requests
<1>2. req[c].todo \in Seq(Decision) /\ req[c].todo # <<>> /\ req[c].q \in Menu
  BY <1>1 DEF RequestState, Fits
<1>3. Head(req[c].todo) \in Decision /\ Tail(req[c].todo) \in Seq(Decision)
  BY <1>2
<1>4. Head(req[c].todo)[2] \in Namespace
  BY <1>3 DEF Decision
<1>5. req[c].q.by \in Principal
  BY <1>2, MenuTyped DEF Request
<1>6. OwnerAsked(c) # None => OwnerAsked(c) \in Tenant
  <2>1. CASE Root(req[c].q)
    BY <2>1, <1>5, RequestAssumption DEF OwnerAsked
  <2>2. CASE ~Root(req[c].q)
    BY <2>2, <1>4 DEF OwnerAsked, TypeOK, Catalog, NamespaceState
  <2> QED
    BY <2>1, <2>2
<1> QED
  BY <1>2, <1>3, <1>6

LEMMA ProceedTyped ==
  ASSUME TypeOK, NEW c \in Client, Permitted(c), NEW recorded \in BOOLEAN,
         Proceed(c, recorded), begun' = begun
  PROVE  Requests'
<1>1. /\ Head(req[c].todo) \in Decision /\ Tail(req[c].todo) \in Seq(Decision)
      /\ req[c].q \in Menu /\ OwnerAsked(c) \in Tenant
  BY AskedTyped DEF Permitted
<1>2. begun \in Nat /\ begun <= begun' /\ Requests
  BY DEF TypeOK, Requests
<1>3. CASE Answer(c, "forbidden")
  BY <1>2, <1>3, AnswerTyped DEF Outcome
<1>4. CASE ~Answer(c, "forbidden")
  <2> DEFINE rest == Tail(req[c].todo)
             new == [req[c] EXCEPT
               !.todo = rest, !.owners = req[c].owners \cup {OwnerAsked(c)},
               !.recorded = @ \cup (IF recorded THEN {Head(req[c].todo)} ELSE {}),
               !.phase = IF rest = <<>> THEN "permitted" ELSE "deciding"]
  <2>1. req' = [req EXCEPT ![c] = new]
    BY <1>4 DEF Proceed, TypeOK, Requests
  <2>2. req[c] \in RequestState /\ Fits(req[c]) /\ req[c].number <= begun /\ req[c].phase = "deciding"
    BY DEF TypeOK, Requests, Permitted
  <2>3. new \in RequestState /\ new.number = req[c].number
    BY <1>1, <2>2 DEF RequestState, Phase
  <2>4. Fits(new)
    BY <2>2, <1>1 DEF Fits, RequestState
  <2>5. begun' \in Nat /\ new.number <= begun'
    BY <1>2, <2>2, <2>3
  <2> HIDE DEF new
  <2> QED
    BY <1>2, <2>1, <2>3, <2>4, <2>5, ClientStep
<1> QED
  BY <1>3, <1>4

LEMMA GuardTyped ==
  ASSUME TypeOK, NEW c \in Client, Guard(c)
  PROVE  Requests'
<1>1. begun' = begun /\ Requests
  BY DEF Guard, TypeOK
<1>2. CASE Permit(c)
  <2>1. CASE Answer(c, "unavailable")
    BY <1>1, <2>1, AnswerTyped DEF Outcome
  <2>2. CASE \E recorded \in BOOLEAN : Proceed(c, recorded)
    BY <1>1, <1>2, <2>2, ProceedTyped DEF Permit
  <2> QED
    BY <1>2, <2>1, <2>2 DEF Permit
<1>3. CASE Deny(c)
  <2>1. Answer(c, "forbidden") \/ Answer(c, "not found")
    BY <1>3 DEF Deny
  <2> QED
    BY <1>1, <2>1, AnswerTyped DEF Outcome
<1> QED
  BY <1>2, <1>3 DEF Guard

\* A handler goes on with what it is about, at another phase and with what it has read.
LEMMA GoOnTyped ==
  ASSUME Requests, NEW c \in Client, begun' = begun,
         NEW phase \in Phase \ {"idle", "deciding"}, NEW read \in NamespaceState \cup ObjectState \cup {None},
         req[c].phase # "idle",
         phase = "ready" /\ req[c].q.op = "UpdateProperties" => read \in NamespaceState,
         req' = [req EXCEPT ![c] = [req[c] EXCEPT !.phase = phase, !.read = read]]
  PROVE  Requests'
<1> DEFINE new == [req[c] EXCEPT !.phase = phase, !.read = read]
<1>1. req[c] \in RequestState /\ Fits(req[c]) /\ req[c].number <= begun /\ begun \in Nat
  BY DEF Requests
<1>2. new \in RequestState /\ new.number = req[c].number
  BY <1>1 DEF RequestState
<1>3. Fits(new)
  BY <1>1 DEF Fits, RequestState
<1>4. begun' \in Nat /\ begun <= begun' /\ new.number <= begun'
  BY <1>1, <1>2
<1> HIDE DEF new
<1>5. req' = [req EXCEPT ![c] = new]
  BY DEF new
<1> QED
  BY <1>2, <1>3, <1>4, <1>5, ClientStep

LEMMA ReadyTyped ==
  ASSUME TypeOK, NEW c \in Client, req[c].phase = "permitted", Ready(c), begun' = begun
  PROVE  Requests'
<1> DEFINE phase == IF req[c].q.op \in ReadFirst THEN "reading" ELSE "ready"
<1>1. req[c] \in RequestState /\ req \in [Client -> RequestState]
  BY DEF TypeOK, Requests
<1>2. req[c].read \in NamespaceState \cup ObjectState \cup {None}
  BY <1>1 DEF RequestState
<1>3. req' = [req EXCEPT ![c] = [req[c] EXCEPT !.phase = phase, !.read = req[c].read]]
  BY <1>1 DEF Ready, RequestState
<1>4. phase \in Phase \ {"idle", "deciding"} /\ (phase = "ready" => req[c].q.op # "UpdateProperties")
  BY DEF ReadFirst, Phase
<1> HIDE DEF phase
<1> QED
  BY <1>2, <1>3, <1>4, GoOnTyped DEF TypeOK

LEMMA LoadedTyped ==
  ASSUME Catalog, NEW q \in Menu
  PROVE  /\ Loaded(q) \in NamespaceState \cup ObjectState \cup {None}
         /\ q.op = "UpdateProperties" => Loaded(q) \in NamespaceState \cup {None}
<1>1. namespaces[q.at] \in NamespaceState \cup {None} /\ objects[q.at] \in ObjectState \cup {None}
  BY MenuTyped DEF Request, Catalog
<1>2. CASE q.op \in {"UpdateProperties", "DropNamespace"}
  <2>1. Loaded(q) = namespaces[q.at]
    BY <1>2 DEF Loaded
  <2> QED
    BY <1>1, <2>1
<1>3. CASE q.op \notin {"UpdateProperties", "DropNamespace"}
  <2>1. Loaded(q) = objects[q.at] \/ Loaded(q) = None
    BY <1>3 DEF Loaded
  <2> QED
    BY <1>1, <1>3, <2>1
<1> QED
  BY <1>2, <1>3

LEMMA LoadTyped ==
  ASSUME TypeOK, NEW c \in Client, Load(c)
  PROVE  Requests'
<1> DEFINE what == Loaded(req[c].q)
<1>1. begun' = begun /\ Requests /\ Catalog /\ req[c].phase = "reading"
  BY DEF Load, TypeOK
<1>2. req[c].q \in Menu
  BY <1>1 DEF Requests, Fits
<1>3. CASE Answer(c, "failed") \/ Answer(c, "protected")
  BY <1>1, <1>3, AnswerTyped DEF Outcome
<1>4. CASE what # None /\ req' = [req EXCEPT ![c].phase = "ready", ![c].read = what]
  <2>1. /\ what \in NamespaceState \cup ObjectState \cup {None}
        /\ req[c].q.op = "UpdateProperties" => what \in NamespaceState
    BY <1>1, <1>2, <1>4, LoadedTyped
  <2>2. req' = [req EXCEPT ![c] = [req[c] EXCEPT !.phase = "ready", !.read = what]]
    BY <1>1, <1>4 DEF Requests
  <2>3. "ready" \in Phase \ {"idle", "deciding"}
    BY DEF Phase
  <2> HIDE DEF what
  <2> QED
    BY <1>1, <2>1, <2>2, <2>3, GoOnTyped
<1> QED
  BY <1>3, <1>4 DEF Load

LEMMA CallsTyped ==
  ASSUME TypeOK, NEW c \in Client, NEW ops, Calls(c, ops)
  PROVE  Requests'
<1>1. begun' = begun /\ Requests /\ req[c].phase = "ready"
  BY DEF Calls, TypeOK
<1>2. req' = [req EXCEPT ![c] = [req[c] EXCEPT !.phase = "ran", !.read = None]]
  BY <1>1 DEF Calls, Requests
<1>3. "ran" \in Phase \ {"idle", "deciding"}
  BY DEF Phase
<1> QED
  BY <1>1, <1>2, <1>3, GoOnTyped

LEMMA CallStoreIsCalls ==
  ASSUME NEW c \in Client, CallStore(c)
  PROVE  Calls(c, Operation)
  BY DEF CallStore, Calls, CreateNamespace, UpdateProperties, DropNamespace, CreateTable, StageTable,
         RegisterTable, CommitTable, CommitTransaction, DropTable, UnregisterTable, RenameTable,
         CreateView, CommitView, DropView, RenameView, Operation

LEMMA VendTyped ==
  ASSUME TypeOK, NEW c \in Client, Vend(c)
  PROVE  Requests'
<1>1. begun' = begun /\ Requests /\ req[c].phase = "ran" /\ req[c] \in RequestState
  BY DEF Vend, TypeOK, Requests
<1>2. CASE Answer(c, "failed")
  BY <1>1, <1>2, AnswerTyped DEF Outcome
<1>3. CASE req' = [req EXCEPT ![c].phase = "vended"]
  <2>1. req' = [req EXCEPT ![c] = [req[c] EXCEPT !.phase = "vended", !.read = req[c].read]]
    BY <1>1, <1>3 DEF Requests, RequestState
  <2>2. "vended" \in Phase \ {"idle", "deciding"} /\ req[c].read \in NamespaceState \cup ObjectState \cup {None}
    BY <1>1 DEF Phase, RequestState
  <2> QED
    BY <1>1, <2>1, <2>2, GoOnTyped
<1> QED
  BY <1>2, <1>3 DEF Vend

LEMMA HandleTyped ==
  ASSUME TypeOK, NEW c \in Client, Handle(c)
  PROVE  Requests'
<1>1. CASE Guard(c)
  BY <1>1, GuardTyped
<1>2. CASE LookUp(c)
  <2>1. begun' = begun /\ Requests /\ req[c].phase = "permitted"
    BY <1>2 DEF LookUp, TypeOK
  <2>2. Answer(c, "replayed") \/ Ready(c)
    BY <1>2 DEF LookUp
  <2> QED
    BY <2>1, <2>2, AnswerTyped, ReadyTyped DEF Outcome
<1>3. CASE Load(c)
  BY <1>3, LoadTyped
<1>4. CASE AnswerRead(c) \/ ReportMetrics(c) \/ StoreFails(c) \/ File(c)
  <2>1. begun' = begun /\ Requests
    BY <1>4 DEF AnswerRead, ReportMetrics, StoreFails, File, TypeOK
  <2>2. Answer(c, "ok") \/ Answer(c, "failed")
    BY <1>4 DEF AnswerRead, ReportMetrics, StoreFails, File
  <2> QED
    BY <2>1, <2>2, AnswerTyped DEF Outcome
<1>5. CASE CallStore(c)
  BY <1>5, CallStoreIsCalls, CallsTyped
<1>6. CASE Vend(c)
  BY <1>6, VendTyped
<1> QED
  BY <1>1, <1>2, <1>3, <1>4, <1>5, <1>6 DEF Handle

LEMMA RestartTyped ==
  ASSUME Requests, NEW r \in Replica, Restart(r)
  PROVE  Requests'
<1>1. Idle \in RequestState /\ Fits(Idle) /\ Idle.number = 0
  <2>1. <<>> \in Seq(Decision)
    OBVIOUS
  <2>2. Idle \in RequestState
    BY <2>1 DEF Idle, RequestState, Phase
  <2> QED
    BY <2>2 DEF Idle, Fits
<1>2. begun' = begun /\ begun \in Nat
  BY DEF Restart, Requests
<1>3. ASSUME NEW c \in Client
      PROVE  req'[c] \in RequestState /\ Fits(req'[c]) /\ req'[c].number <= begun'
  <2>1. req'[c] = Idle \/ req'[c] = req[c]
    BY DEF Restart
  <2> QED
    BY <1>1, <1>2, <2>1 DEF Requests
<1>4. req' \in [Client -> RequestState]
  BY <1>3 DEF Restart
<1> QED
  BY <1>2, <1>3, <1>4 DEF Requests

LEMMA RequestsStep ==
  ASSUME TypeOK, Next
  PROVE  Requests'
<1> Requests
  BY DEF TypeOK
<1>1. ASSUME NEW c \in Client, NEW q \in Menu, NEW r \in Replica, Begin(c, q, r) PROVE Requests'
  BY <1>1, BeginTyped
<1>2. ASSUME NEW c \in Client, Handle(c) PROVE Requests'
  BY <1>2, HandleTyped
<1>3. ASSUME NEW c \in Client, Disconnect(c) PROVE Requests'
  BY <1>3, AnswerTyped DEF Disconnect
<1>4. ASSUME UNCHANGED <<req, begun>> PROVE Requests'
  BY <1>4 DEF Requests
<1>5. ASSUME NEW r \in Replica, Restart(r) PROVE Requests'
  BY <1>5, RestartTyped
<1>6. \A s \in Scopes : Expire(s) => UNCHANGED <<req, begun>>
  BY DEF Expire
<1>7. \A r \in Replica, p \in Principal : Revoke(r, p) => UNCHANGED <<req, begun>>
  BY DEF Revoke
<1>8. Outage => UNCHANGED <<req, begun>>
  BY DEF Outage
<1> QED
  BY <1>1, <1>2, <1>3, <1>4, <1>5, <1>6, <1>7, <1>8 DEF Next

-----------------------------------------------------------------------------
(* Every step keeps the rest as it is to be                                 *)

LEMMA ProtectionTyped ==
  ASSUME begun \in Nat, NEW protect, NEW before \in Nat \cup {None}
  PROVE  Protection(protect, before) \in Nat \cup {None}
  BY DEF Protection

\* What a request that calls the store is, and what it names.
LEMMA CallerTyped ==
  ASSUME TypeOK, NEW c \in Client, NEW ops, Calls(c, ops)
  PROVE  /\ req[c].phase = "ready" /\ req[c].q.op \in ops
         /\ req[c] \in RequestState /\ Fits(req[c])
         /\ req[c].q \in Menu /\ req[c].q.at \in Namespace
         /\ req[c].q.op \in Renames \cup {"CommitTransaction"} => req[c].q.to \in Namespace
         /\ begun \in Nat /\ req[c].number \in Nat
<1>1. req[c].phase = "ready" /\ req[c].q.op \in ops
  BY DEF Calls
<1>2. req[c] \in RequestState /\ Fits(req[c]) /\ begun \in Nat
  BY DEF TypeOK, Requests
<1>3. req[c].q \in Menu
  BY <1>1, <1>2 DEF Fits
<1>4. req[c].q.at \in Namespace
  BY <1>3, MenuTyped DEF Request
<1> QED
  BY <1>1, <1>2, <1>3, <1>4, MenuTyped DEF RequestState

LEMMA NamespaceCallsTyped ==
  ASSUME TypeOK, NEW c \in Client, CreateNamespace(c) \/ UpdateProperties(c) \/ DropNamespace(c)
  PROVE  Catalog'
<1>1. objects' = objects /\ Catalog
  BY DEF CreateNamespace, UpdateProperties, DropNamespace, TypeOK
<1>2. CASE CreateNamespace(c)
  <2>1. req[c].q.at \in Namespace /\ req[c].owners \subseteq Tenant /\ begun \in Nat
    BY <1>2, CallerTyped DEF CreateNamespace, RequestState
  <2>2. PICK owner \in req[c].owners : namespaces' = [namespaces EXCEPT
          ![req[c].q.at] = [owner |-> owner, protectedAt |-> Protection(req[c].q.protect, None)]]
    BY <1>2 DEF CreateNamespace
  <2>3. Protection(req[c].q.protect, None) \in Nat \cup {None}
    BY <2>1, ProtectionTyped
  <2> QED
    BY <1>1, <2>1, <2>2, <2>3 DEF Catalog, NamespaceState
<1>3. CASE UpdateProperties(c)
  <2>1. req[c].q.at \in Namespace /\ begun \in Nat /\ req[c].read \in NamespaceState
    BY <1>3, CallerTyped DEF UpdateProperties, Fits
  <2>2. PICK protect : namespaces' = [namespaces EXCEPT
          ![req[c].q.at] = [owner |-> req[c].read.owner,
                            protectedAt |-> Protection(protect, namespaces[req[c].q.at].protectedAt)]]
    BY <1>3 DEF UpdateProperties
  <2>3. namespaces[req[c].q.at] \in NamespaceState
    BY <1>1, <1>3, <2>1 DEF UpdateProperties, Catalog
  <2>4. Protection(protect, namespaces[req[c].q.at].protectedAt) \in Nat \cup {None}
    BY <2>1, <2>3, ProtectionTyped DEF NamespaceState
  <2> QED
    BY <1>1, <2>1, <2>2, <2>4 DEF Catalog, NamespaceState
<1>4. CASE DropNamespace(c)
  BY <1>1, <1>4 DEF DropNamespace, Catalog
<1> QED
  BY <1>2, <1>3, <1>4

LEMMA AddsTyped ==
  ASSUME TypeOK, NEW c \in Client, NEW ops, Calls(c, ops), NEW kind \in {"table", "view"}, Adds(c, kind)
  PROVE  Catalog'
<1>1. req[c].q.at \in Namespace /\ begun \in Nat /\ req[c].number \in Nat
  BY CallerTyped
<1>2. Protection(req[c].q.protect, None) \in Nat \cup {None}
  BY <1>1, ProtectionTyped
<1> QED
  BY <1>1, <1>2 DEF Adds, Catalog, ObjectState, TypeOK

LEMMA WrittenTyped ==
  ASSUME TypeOK, NEW c \in Client, NEW ops, Calls(c, ops), NEW n \in Namespace, Kind(n) \in {"table", "view"}
  PROVE  /\ objects[n] \in ObjectState
         /\ Written(c, n) \in ObjectState
         /\ Written(c, n).protectedAt = Protection(req[c].q.protect, objects[n].protectedAt)
<1>1. objects[n] \in ObjectState
  BY DEF Kind, TypeOK, Catalog
<1>2. begun \in Nat /\ req[c].number \in Nat
  BY CallerTyped
<1>3. Protection(req[c].q.protect, objects[n].protectedAt) \in Nat \cup {None}
  BY <1>1, <1>2, ProtectionTyped DEF ObjectState
<1> DEFINE p == Protection(req[c].q.protect, objects[n].protectedAt)
           w == req[c].number
           x == objects[n]
<1>4. Written(c, n) = [x EXCEPT !.protectedAt = p, !.written = w]
  BY Zenon DEF Written
<1>5. x \in ObjectState /\ p \in Nat \cup {None} /\ w \in Nat
  BY <1>1, <1>2, <1>3
<1>6. Written(c, n) \in ObjectState /\ Written(c, n).protectedAt = p
  <2> HIDE DEF x, p, w
  <2> QED
    BY <1>4, <1>5 DEF ObjectState
<1> QED
  BY <1>1, <1>6

LEMMA WritesTyped ==
  ASSUME TypeOK, NEW c \in Client, CommitTable(c) \/ CommitTransaction(c) \/ CommitView(c)
  PROVE  Catalog'
<1>1. Catalog /\ namespaces' = namespaces
  BY DEF TypeOK, CommitTable, CommitTransaction, CommitView
<1>2. CASE CommitTable(c) \/ CommitView(c)
  <2> DEFINE n == req[c].q.at
  <2>1. PICK ops : Calls(c, ops)
    BY <1>2 DEF CommitTable, CommitView
  <2>2. n \in Namespace
    BY <2>1, CallerTyped
  <2>3. Written(c, n) \in ObjectState
    BY <1>2, <2>1, <2>2, WrittenTyped DEF CommitTable, CommitView
  <2>4. objects' = [objects EXCEPT ![n] = Written(c, n)]
    BY <1>2 DEF CommitTable, CommitView
  <2> QED
    BY <1>1, <2>2, <2>3, <2>4 DEF Catalog
<1>3. CASE CommitTransaction(c)
  <2> DEFINE tables == {req[c].q.at, req[c].q.to}
  <2>1. \A n \in tables \cap Namespace : Written(c, n) \in ObjectState
    BY <1>3, WrittenTyped DEF CommitTransaction
  <2>2. objects' = [n \in Namespace |-> IF n \in tables THEN Written(c, n) ELSE objects[n]]
    BY <1>3 DEF CommitTransaction
  <2> QED
    BY <1>1, <2>1, <2>2 DEF Catalog
<1> QED
  BY <1>2, <1>3

LEMMA RemovesTyped ==
  ASSUME TypeOK, NEW c \in Client, NEW kind, Removes(c, kind)
  PROVE  Catalog'
  BY DEF Removes, TypeOK, Catalog

LEMMA MovesTyped ==
  ASSUME TypeOK, NEW c \in Client, NEW ops, Calls(c, ops), ops \subseteq Renames,
         NEW kind \in {"table", "view"}, Moves(c, kind)
  PROVE  Catalog'
<1> DEFINE q == req[c].q
           moved == [objects[q.at] EXCEPT !.protectedAt = IF @ = None THEN None ELSE begun]
<1>1. q.at \in Namespace /\ q.to \in Namespace /\ begun \in Nat
  BY CallerTyped
<1>2. objects[q.at] \in ObjectState
  BY <1>1 DEF Moves, Kind, TypeOK, Catalog
<1>3. moved \in ObjectState
  BY <1>1, <1>2 DEF ObjectState
<1>4. objects' = [objects EXCEPT ![q.at] = None, ![q.to] = moved] /\ namespaces' = namespaces
  BY DEF Moves
<1> HIDE DEF moved
<1> QED
  BY <1>1, <1>3, <1>4 DEF TypeOK, Catalog

LEMMA StoreUntouched ==
  ASSUME Next, ~\E c \in Client : CallStore(c)
  PROVE  UNCHANGED store
<1>1. ASSUME NEW c \in Client, Handle(c) PROVE UNCHANGED store
  <2>1. CASE Guard(c) \/ LookUp(c) \/ Load(c) \/ AnswerRead(c)
    BY <2>1 DEF Guard, LookUp, Load, AnswerRead
  <2>2. CASE ReportMetrics(c) \/ StoreFails(c) \/ Vend(c) \/ File(c)
    BY <2>2 DEF ReportMetrics, StoreFails, Vend, File
  <2> QED
    BY <1>1, <2>1, <2>2 DEF Handle
<1>2. ASSUME NEW c \in Client, Disconnect(c) \/ \E q \in Menu, r \in Replica : Begin(c, q, r)
      PROVE  UNCHANGED store
  BY <1>2 DEF Begin, Disconnect
<1>3. \A s \in Scopes : Expire(s) => UNCHANGED store
  BY DEF Expire
<1>4. \A r \in Replica, p \in Principal : Revoke(r, p) => UNCHANGED store
  BY DEF Revoke
<1>5. \A r \in Replica : Restart(r) => UNCHANGED store
  BY DEF Restart
<1>6. Outage => UNCHANGED store
  BY DEF Outage
<1> QED
  BY <1>1, <1>2, <1>3, <1>4, <1>5, <1>6 DEF Next

LEMMA CatalogStep ==
  ASSUME TypeOK, Next
  PROVE  Catalog'
<1>1. ASSUME UNCHANGED store PROVE Catalog'
  BY <1>1 DEF store, TypeOK, Catalog
<1>2. ASSUME NEW c \in Client, CallStore(c) PROVE Catalog'
  <2>1. CASE CreateNamespace(c) \/ UpdateProperties(c) \/ DropNamespace(c)
    BY <2>1, NamespaceCallsTyped
  <2>2. CASE CreateTable(c) \/ RegisterTable(c) \/ CreateView(c)
    BY <2>2, AddsTyped DEF CreateTable, RegisterTable, CreateView
  <2>3. CASE StageTable(c)
    BY <1>1, <2>3 DEF StageTable
  <2>4. CASE CommitTable(c) \/ CommitTransaction(c) \/ CommitView(c)
    BY <2>4, WritesTyped
  <2>5. CASE DropTable(c) \/ UnregisterTable(c) \/ DropView(c)
    BY <2>5, RemovesTyped DEF DropTable, UnregisterTable, DropView
  <2>6. CASE RenameTable(c) \/ RenameView(c)
    BY <2>6, MovesTyped DEF RenameTable, RenameView, Renames
  <2> QED
    BY <1>2, <2>1, <2>2, <2>3, <2>4, <2>5, <2>6 DEF CallStore
<1> QED
  BY <1>1, <1>2, StoreUntouched

\* A request past its guard is of a principal, on a replica, and of a scope if it has a key.
LEMMA RunningTyped ==
  ASSUME TypeOK, NEW c \in Client, req[c].phase # "idle"
  PROVE  /\ req[c] \in RequestState /\ req[c].q \in Menu /\ req[c].on \in Replica
         /\ req[c].q.by \in Principal
         /\ req[c].q.key # None => Scope(req[c].q) \in Scopes
         /\ begun \in Nat /\ req[c].number \in Nat /\ req[c].number <= begun
<1>1. /\ req[c] \in RequestState /\ Fits(req[c])
      /\ begun \in Nat /\ req[c].number <= begun
  BY DEF TypeOK, Requests
<1>2. req[c].q \in Menu /\ req[c].on \in Replica
  BY <1>1 DEF Fits
<1>3. req[c].q.by \in Principal
  BY <1>2, MenuTyped DEF Request
<1> QED
  BY <1>1, <1>2, <1>3, ScopeTyped DEF RequestState

LEMMA PutTyped ==
  ASSUME Receipts, begun \in Nat, NEW s \in Scopes, NEW r \in Replica, Put(s, r), reachable' = reachable
  PROVE  Receipts'
<1>1. local' \in [Replica -> SUBSET Scopes]
  BY DEF Put, Receipts
<1>2. shared' \subseteq Scopes /\ lapsed' \subseteq Scopes
  BY DEF Put, Receipts
<1>3. settled' \in [Scopes -> Nat \cup {None}]
  BY DEF Put, Receipts
<1> QED
  BY <1>1, <1>2, <1>3 DEF Receipts

LEMMA ReceiptsStep ==
  ASSUME TypeOK, Next
  PROVE  Receipts'
<1> Receipts
  BY DEF TypeOK
<1>1. ASSUME UNCHANGED <<receipts, settled>> PROVE Receipts'
  BY <1>1 DEF Receipts, receipts
<1>2. ASSUME NEW c \in Client, CallStore(c) PROVE Receipts'
  <2>1. UNCHANGED <<receipts, settled>>
    BY <1>2, CallStoreIsCalls DEF Calls
  <2> QED
    BY <1>1, <2>1
<1>3. ASSUME NEW c \in Client, LookUp(c) PROVE Receipts'
  <2>1. req[c].phase # "idle" /\ UNCHANGED <<shared, lapsed, reachable, settled>>
    BY <1>3 DEF LookUp
  <2>2. CASE HasReceipt(c)
    <3>1. Scope(req[c].q) \in Scopes
      BY <2>1, <2>2, RunningTyped DEF HasReceipt
    <3>2. local' = [local EXCEPT ![req[c].on] = @ \cup {Scope(req[c].q)}]
      BY <1>3, <2>2 DEF LookUp
    <3> QED
      BY <2>1, <3>1, <3>2 DEF Receipts
  <2>3. CASE ~HasReceipt(c)
    BY <1>1, <1>3, <2>1, <2>3 DEF LookUp, receipts
  <2> QED
    BY <2>2, <2>3
<1>4. ASSUME NEW c \in Client, File(c) PROVE Receipts'
  <2>1. req[c].phase # "idle" /\ reachable' = reachable
    BY <1>4 DEF File
  <2>2. CASE req[c].q.key # None /\ Put(Scope(req[c].q), req[c].on)
    <3>1. Scope(req[c].q) \in Scopes /\ req[c].on \in Replica /\ begun \in Nat
      BY <2>1, <2>2, RunningTyped
    <3> QED
      BY <2>1, <2>2, <3>1, PutTyped
  <2>3. CASE UNCHANGED <<local, shared, lapsed, settled>>
    BY <1>1, <2>1, <2>3 DEF receipts
  <2> QED
    BY <1>4, <2>2, <2>3 DEF File
<1>5. ASSUME NEW c \in Client, Handle(c), ~CallStore(c), ~LookUp(c), ~File(c) PROVE Receipts'
  <2>1. CASE Guard(c) \/ Load(c) \/ AnswerRead(c)
    BY <1>1, <2>1 DEF Guard, Load, AnswerRead
  <2>2. CASE ReportMetrics(c) \/ StoreFails(c) \/ Vend(c)
    BY <1>1, <2>2 DEF ReportMetrics, StoreFails, Vend
  <2> QED
    BY <1>5, <2>1, <2>2 DEF Handle
<1>6. ASSUME NEW s \in Scopes, Expire(s) PROVE Receipts'
  <2>1. reachable' = reachable
    BY <1>6 DEF Expire
  <2>2. CASE /\ shared' = shared \ {s} /\ lapsed' = lapsed \cup {s}
             /\ settled' = [settled EXCEPT ![s] = None] /\ UNCHANGED local
    BY <2>1, <2>2 DEF Receipts
  <2>3. CASE \E r \in Replica : /\ local' = [local EXCEPT ![r] = @ \ {s}]
                                /\ UNCHANGED <<shared, lapsed, settled>>
    BY <2>1, <2>3 DEF Receipts
  <2> QED
    BY <1>6, <2>2, <2>3 DEF Expire
<1>7. ASSUME Outage PROVE Receipts'
  BY <1>7 DEF Outage, Receipts
<1>8. ASSUME NEW r \in Replica, Restart(r) PROVE Receipts'
  BY <1>8 DEF Restart, Receipts
<1>9. ASSUME NEW c \in Client, NEW q \in Menu, NEW r \in Replica, Begin(c, q, r) PROVE Receipts'
  BY <1>1, <1>9 DEF Begin
<1>10. ASSUME NEW c \in Client, Disconnect(c) PROVE Receipts'
  BY <1>1, <1>10 DEF Disconnect
<1>11. ASSUME NEW r \in Replica, NEW p \in Principal, Revoke(r, p) PROVE Receipts'
  BY <1>1, <1>11 DEF Revoke
<1> QED
  BY <1>2, <1>3, <1>4, <1>5, <1>6, <1>7, <1>8, <1>9, <1>10, <1>11 DEF Next

\* What takes a step that changes some replica's policy set.
PolicyMoves ==
  \E r \in Replica, lost \in SUBSET Principal : Loses(r, lost) /\ begun' = begun

LEMMA PolicyUntouched ==
  ASSUME Next, ~PolicyMoves
  PROVE  UNCHANGED <<grants, revoked>>
<1>1. ASSUME NEW c \in Client, Handle(c) PROVE UNCHANGED <<grants, revoked>>
  <2>1. CASE CallStore(c)
    BY <2>1, CallStoreIsCalls DEF Calls
  <2>2. CASE Guard(c) \/ LookUp(c) \/ Load(c) \/ AnswerRead(c)
    BY <2>2 DEF Guard, LookUp, Load, AnswerRead
  <2>3. CASE ReportMetrics(c) \/ StoreFails(c) \/ Vend(c) \/ File(c)
    BY <2>3 DEF ReportMetrics, StoreFails, Vend, File
  <2> QED
    BY <1>1, <2>1, <2>2, <2>3 DEF Handle
<1>2. ASSUME NEW c \in Client, NEW q \in Menu, NEW r \in Replica, Begin(c, q, r)
      PROVE  UNCHANGED <<grants, revoked>>
  BY <1>2 DEF Begin
<1>3. \A c \in Client : Disconnect(c) => UNCHANGED <<grants, revoked>>
  BY DEF Disconnect
<1>4. \A s \in Scopes : Expire(s) => UNCHANGED <<grants, revoked>>
  BY DEF Expire
<1>5. ASSUME NEW r \in Replica, Restart(r) PROVE PolicyMoves
  <2> DEFINE lost == {p \in Principal : \E o \in Replica : revoked[o][p] # None}
  <2>1. lost \in SUBSET Principal /\ Loses(r, lost) /\ begun' = begun
    BY <1>5 DEF Restart
  <2> HIDE DEF lost
  <2> QED
    BY <2>1 DEF PolicyMoves
<1>6. ASSUME NEW r \in Replica, NEW p \in Principal, Revoke(r, p) PROVE PolicyMoves
  <2>1. {p} \in SUBSET Principal /\ Loses(r, {p}) /\ begun' = begun
    BY <1>6 DEF Revoke
  <2> QED
    BY <2>1 DEF PolicyMoves
<1>7. Outage => UNCHANGED <<grants, revoked>>
  BY DEF Outage
<1> QED
  BY <1>1, <1>2, <1>3, <1>4, <1>5, <1>6, <1>7 DEF Next

\* A set that takes something away gives nothing.
LEMMA Losing ==
  ASSUME TypeOK, NEW r \in Replica, NEW lost \in SUBSET Principal, Loses(r, lost),
         NEW o \in Replica
  PROVE  /\ grants'[o] \subseteq grants[o]
         /\ \A p \in Principal :
              /\ revoked'[o][p] \in {revoked[o][p], begun}
              /\ revoked'[o][p] # revoked[o][p] => o = r /\ p \in lost
         /\ o = r => \A g \in grants'[o] : g[1] \notin lost
<1>1. CASE o = r
  <2>1. grants'[o] = {g \in grants[o] : g[1] \notin lost}
    BY <1>1 DEF Loses, TypeOK, Policy
  <2>2. revoked'[o] = [p \in Principal |->
          IF p \in lost /\ revoked[r][p] = None THEN begun ELSE revoked[r][p]]
    BY <1>1 DEF Loses, TypeOK, Policy
  <2> QED
    BY <1>1, <2>1, <2>2
<1>2. CASE o # r
  <2>1. grants'[o] = grants[o] /\ revoked'[o] = revoked[o]
    BY <1>2 DEF Loses, TypeOK, Policy
  <2> QED
    BY <1>2, <2>1
<1> QED
  BY <1>1, <1>2

LEMMA PolicyStep ==
  ASSUME TypeOK, Next
  PROVE  Policy'
<1>1. ASSUME NEW r \in Replica, NEW lost \in SUBSET Principal, Loses(r, lost) PROVE Policy'
  <2>1. begun \in Nat
    BY DEF TypeOK, Requests
  <2>2. {g \in grants[r] : g[1] \notin lost} \in SUBSET (Principal \X Tenant \X Action)
    BY DEF TypeOK, Policy
  <2>3. grants' \in [Replica -> SUBSET (Principal \X Tenant \X Action)]
    BY <1>1, <2>2 DEF Loses, TypeOK, Policy
  <2>4. [p \in Principal |-> IF p \in lost /\ revoked[r][p] = None THEN begun ELSE revoked[r][p]]
          \in [Principal -> Nat \cup {None}]
    BY <2>1 DEF TypeOK, Policy
  <2>5. revoked' \in [Replica -> [Principal -> Nat \cup {None}]]
    BY <1>1, <2>4 DEF Loses, TypeOK, Policy
  <2> QED
    BY <2>3, <2>5 DEF Policy
<1>2. ASSUME UNCHANGED <<grants, revoked>> PROVE Policy'
  BY <1>2 DEF TypeOK, Policy
<1> QED
  BY <1>1, <1>2, PolicyUntouched DEF PolicyMoves

LEMMA TypeInit == Init => TypeOK
<1> SUFFICES ASSUME Init PROVE TypeOK
  OBVIOUS
<1>1. Idle \in RequestState /\ Fits(Idle) /\ Idle.number = 0
  <2>1. <<>> \in Seq(Decision)
    OBVIOUS
  <2>2. Idle \in RequestState
    BY <2>1 DEF Idle, RequestState, Phase
  <2> QED
    BY <2>2 DEF Idle, Fits
<1>2. req = [c \in Client |-> Idle] /\ begun = 0
  BY DEF Init
<1>3. Requests
  BY <1>1, <1>2 DEF Requests
<1>4. Catalog
  <2>1. PICK start \in Starts : namespaces = start.namespaces /\ objects = start.objects
    BY DEF Init
  <2> QED
    BY <2>1, StartsAssumption DEF Catalog
<1>5. Receipts
  BY DEF Init, Receipts
<1>6. Policy
  BY RequestAssumption DEF Init, Policy
<1> QED
  BY <1>3, <1>4, <1>5, <1>6 DEF TypeOK

\* In every reachable state each request has what its next step reads, and the catalog, the
\* receipts and the policies are what the handlers take them for (RequestPath, Handlers).
THEOREM TypeCorrect == Spec => []TypeOK
<1>1. TypeOK /\ [Next]_vars => TypeOK'
  <2> SUFFICES ASSUME TypeOK, [Next]_vars PROVE TypeOK'
    OBVIOUS
  <2>1. CASE Next
    BY <2>1, RequestsStep, CatalogStep, ReceiptsStep, PolicyStep DEF TypeOK
  <2>2. CASE UNCHANGED vars
    BY <2>2 DEF vars, store, receipts, TypeOK, Requests, Catalog, Receipts, Policy
  <2> QED
    BY <2>1, <2>2
<1> QED
  BY TypeInit, <1>1, PTL DEF Spec

-----------------------------------------------------------------------------
(* How a request goes on                                                    *)

LEMMA AnswerEnds ==
  ASSUME Requests, NEW c \in Client, NEW a, Answer(c, a)
  PROVE  /\ req'[c].phase = "idle" /\ req'[c].answer = a
         /\ \A d \in Client \ {c} : req'[d] = req[d]
  BY DEF Answer, Idle, Requests

\* A step of one client's is nothing to another's request.
LEMMA OthersStay ==
  ASSUME TypeOK, NEW c \in Client,
         Handle(c) \/ Disconnect(c) \/ \E q \in Menu, r \in Replica : Begin(c, q, r)
  PROVE  \A d \in Client \ {c} : req'[d] = req[d]
<1> req \in [Client -> RequestState] /\ Requests
  BY DEF TypeOK, Requests
<1>1. CASE Guard(c)
  <2>1. CASE \E recorded \in BOOLEAN : Proceed(c, recorded) /\ ~Answer(c, "forbidden")
    BY <2>1 DEF Proceed
  <2> QED
    BY <1>1, <2>1, AnswerEnds DEF Guard, Permit, Deny
<1>2. CASE LookUp(c)
  BY <1>2, AnswerEnds DEF LookUp, Ready
<1>3. CASE Load(c)
  BY <1>3, AnswerEnds DEF Load
<1>4. CASE AnswerRead(c) \/ ReportMetrics(c) \/ StoreFails(c) \/ File(c) \/ Disconnect(c)
  BY <1>4, AnswerEnds DEF AnswerRead, ReportMetrics, StoreFails, File, Disconnect
<1>5. CASE CallStore(c)
  BY <1>5, CallStoreIsCalls DEF Calls
<1>6. CASE Vend(c)
  BY <1>6, AnswerEnds DEF Vend
<1>7. CASE \E q \in Menu, r \in Replica : Begin(c, q, r)
  BY <1>7 DEF Begin
<1> QED
  BY <1>1, <1>2, <1>3, <1>4, <1>5, <1>6, <1>7 DEF Handle

\* What a request is about, and what of it is on record.
Same(c) == /\ req'[c].q = req[c].q
           /\ req'[c].number = req[c].number
           /\ req'[c].on = req[c].on
           /\ req'[c].recorded = req[c].recorded

Past == Phase \ {"idle", "deciding"}

\* What its own client's step makes of a request.
OwnStep(c) ==
  \/ req'[c].phase = "idle"
  \/ req[c].phase \in Past /\ Same(c)
  \/ /\ Permitted(c) /\ ~Answer(c, "forbidden")
     /\ \E recorded \in BOOLEAN : Proceed(c, recorded) /\ (FailClosed => recorded)

LEMMA HandleIsOwnStep ==
  ASSUME TypeOK, NEW c \in Client, Handle(c)
  PROVE  OwnStep(c)
<1> /\ req \in [Client -> RequestState] /\ Requests
    /\ req[c] \in RequestState
  BY DEF TypeOK, Requests
<1>1. CASE Guard(c)
  <2>1. ASSUME NEW a, Answer(c, a) PROVE OwnStep(c)
    BY <2>1, AnswerEnds DEF OwnStep
  <2>2. CASE Deny(c)
    BY <2>1, <2>2 DEF Deny
  <2>3. CASE Permit(c)
    <3>1. CASE Answer(c, "unavailable") \/ Answer(c, "forbidden")
      BY <2>1, <3>1
    <3>2. CASE ~Answer(c, "unavailable") /\ ~Answer(c, "forbidden")
      <4>1. Permitted(c)
        BY <2>3 DEF Permit
      <4>2. Proceed(c, TRUE) \/ (~FailClosed /\ Proceed(c, FALSE))
        BY <2>3, <3>2 DEF Permit
      <4>3. \E recorded \in BOOLEAN : Proceed(c, recorded) /\ (FailClosed => recorded)
        BY <4>2
      <4> QED
        BY <3>2, <4>1, <4>3 DEF OwnStep
    <3> QED
      BY <3>1, <3>2
  <2> QED
    BY <1>1, <2>2, <2>3 DEF Guard
<1>2. CASE LookUp(c)
  <2>1. CASE Answer(c, "replayed")
    BY <2>1, AnswerEnds DEF OwnStep
  <2>2. CASE Ready(c)
    <3>1. req[c].phase \in Past
      BY <1>2 DEF LookUp, Past, Phase
    <3>2. Same(c)
      BY <2>2 DEF Ready, Same, RequestState
    <3> QED
      BY <3>1, <3>2 DEF OwnStep
  <2> QED
    BY <1>2, <2>1, <2>2 DEF LookUp
<1>3. CASE Load(c)
  <2>1. CASE Answer(c, "failed") \/ Answer(c, "protected")
    BY <2>1, AnswerEnds DEF OwnStep
  <2>2. CASE req' = [req EXCEPT ![c].phase = "ready", ![c].read = Loaded(req[c].q)]
    <3>1. req[c].phase \in Past
      BY <1>3 DEF Load, Past, Phase
    <3>2. Same(c)
      BY <2>2 DEF Same, RequestState
    <3> QED
      BY <3>1, <3>2 DEF OwnStep
  <2> QED
    BY <1>3, <2>1, <2>2 DEF Load
<1>4. CASE AnswerRead(c) \/ ReportMetrics(c) \/ StoreFails(c) \/ File(c)
  BY <1>4, AnswerEnds DEF AnswerRead, ReportMetrics, StoreFails, File, OwnStep
<1>5. CASE CallStore(c)
  <2>1. req[c].phase \in Past
    BY <1>5, CallStoreIsCalls DEF Calls, Past, Phase
  <2>2. req' = [req EXCEPT ![c].phase = "ran", ![c].read = None]
    BY <1>5, CallStoreIsCalls DEF Calls
  <2>3. Same(c)
    BY <2>2 DEF Same, RequestState
  <2> QED
    BY <2>1, <2>3 DEF OwnStep
<1>6. CASE Vend(c)
  <2>1. CASE Answer(c, "failed")
    BY <2>1, AnswerEnds DEF OwnStep
  <2>2. CASE req' = [req EXCEPT ![c].phase = "vended"]
    <3>1. req[c].phase \in Past
      BY <1>6 DEF Vend, Past, Phase
    <3>2. Same(c)
      BY <2>2 DEF Same, RequestState
    <3> QED
      BY <3>1, <3>2 DEF OwnStep
  <2> QED
    BY <1>6, <2>1, <2>2 DEF Vend
<1> QED
  BY <1>1, <1>2, <1>3, <1>4, <1>5, <1>6 DEF Handle

\* Only a request's own client begins it and only its handler takes it further.
LEMMA OwnTurn ==
  ASSUME TypeOK, Next, NEW d \in Client, req'[d] # req[d], req'[d].phase # "idle"
  PROVE  Handle(d) \/ \E q \in Menu, r \in Replica : Begin(d, q, r)
<1> Requests
  BY DEF TypeOK
<1>1. ASSUME NEW c \in Client, d # c,
             Handle(c) \/ Disconnect(c) \/ \E q \in Menu, r \in Replica : Begin(c, q, r)
      PROVE  FALSE
  BY <1>1, OthersStay
<1>2. ~Disconnect(d)
  BY AnswerEnds DEF Disconnect
<1>3. ASSUME NEW r \in Replica, Restart(r) PROVE FALSE
  <2>1. req'[d] = Idle
    BY <1>3 DEF Restart
  <2> QED
    BY <2>1 DEF Idle
<1>4. \A s \in Scopes : Expire(s) => req' = req
  BY DEF Expire
<1>5. \A r \in Replica, p \in Principal : Revoke(r, p) => req' = req
  BY DEF Revoke
<1>6. Outage => req' = req
  BY DEF Outage
<1> QED
  BY <1>1, <1>2, <1>3, <1>4, <1>5, <1>6 DEF Next

\* A request that is not over was there before, has just begun, or has just been permitted.
LEMMA Onward ==
  ASSUME TypeOK, Next, NEW d \in Client, req'[d].phase # "idle"
  PROVE  \/ req'[d] = req[d]
         \/ \E q \in Menu, r \in Replica : Begin(d, q, r)
         \/ req[d].phase \in Past /\ Same(d)
         \/ /\ Permitted(d) /\ ~Answer(d, "forbidden") /\ Guard(d)
            /\ \E recorded \in BOOLEAN : Proceed(d, recorded) /\ (FailClosed => recorded)
<1>1. CASE Handle(d)
  <2>1. OwnStep(d)
    BY <1>1, HandleIsOwnStep
  <2>2. CASE Permitted(d)
    <3>1. Guard(d)
      BY <1>1, <2>2, CallStoreIsCalls
      DEF Handle, Permitted, LookUp, Load, AnswerRead, ReportMetrics, StoreFails, Calls, Vend, File
    <3> QED
      BY <2>1, <3>1 DEF OwnStep
  <2> QED
    BY <2>1, <2>2 DEF OwnStep
<1> QED
  BY <1>1, OwnTurn

\* A request comes to read what it changes, or to change it, by its handler only.
LEMMA GetsReady ==
  ASSUME TypeOK, Next, NEW c \in Client, req'[c].phase \in {"reading", "ready"}
  PROVE  \/ req'[c] = req[c]
         \/ /\ LookUp(c) /\ ~HasReceipt(c) /\ Same(c) /\ req[c].phase = "permitted"
            /\ req'[c].phase = "ready" => req[c].q.op \notin ReadFirst
         \/ /\ Load(c) /\ Same(c) /\ req[c].phase = "reading"
            /\ Loaded(req[c].q) # None /\ ~Protects(req[c].q, Loaded(req[c].q))
<1> /\ req \in [Client -> RequestState] /\ Requests
    /\ req[c] \in RequestState
  BY DEF TypeOK, Requests
<1> SUFFICES ASSUME req'[c] # req[c]
             PROVE  \/ /\ LookUp(c) /\ ~HasReceipt(c) /\ Same(c) /\ req[c].phase = "permitted"
                       /\ req'[c].phase = "ready" => req[c].q.op \notin ReadFirst
                    \/ /\ Load(c) /\ Same(c) /\ req[c].phase = "reading"
                       /\ Loaded(req[c].q) # None /\ ~Protects(req[c].q, Loaded(req[c].q))
  OBVIOUS
<1>0. \A a : ~Answer(c, a)
  BY AnswerEnds
<1>1. ASSUME NEW q \in Menu, NEW r \in Replica, Begin(c, q, r) PROVE FALSE
  BY <1>1 DEF Begin, Idle
<1>2. CASE Guard(c)
  <2>1. PICK recorded \in BOOLEAN : Proceed(c, recorded)
    BY <1>0, <1>2 DEF Guard, Permit, Deny
  <2>2. req'[c].phase \in {"permitted", "deciding"}
    BY <1>0, <2>1 DEF Proceed, RequestState
  <2> QED
    BY <2>2
<1>3. CASE LookUp(c)
  <2>1. ~HasReceipt(c) /\ Ready(c) /\ req[c].phase = "permitted"
    BY <1>0, <1>3 DEF LookUp
  <2>2. Same(c) /\ (req'[c].phase = "ready" => req[c].q.op \notin ReadFirst)
    BY <2>1 DEF Ready, Same, RequestState
  <2> QED
    BY <1>3, <2>1, <2>2
<1>4. CASE Load(c)
  <2>1. /\ Loaded(req[c].q) # None /\ ~Protects(req[c].q, Loaded(req[c].q)) /\ req[c].phase = "reading"
        /\ req' = [req EXCEPT ![c].phase = "ready", ![c].read = Loaded(req[c].q)]
    BY <1>0, <1>4 DEF Load
  <2>2. Same(c)
    BY <2>1 DEF Same, RequestState
  <2> QED
    BY <1>4, <2>1, <2>2
<1>5. CASE CallStore(c)
  <2>1. req' = [req EXCEPT ![c].phase = "ran", ![c].read = None]
    BY <1>5, CallStoreIsCalls DEF Calls
  <2> QED
    BY <2>1 DEF RequestState
<1>6. CASE Vend(c)
  BY <1>0, <1>6 DEF Vend, RequestState
<1>7. CASE AnswerRead(c) \/ ReportMetrics(c) \/ StoreFails(c) \/ File(c)
  BY <1>0, <1>7 DEF AnswerRead, ReportMetrics, StoreFails, File
<1> QED
  BY <1>1, <1>2, <1>3, <1>4, <1>5, <1>6, <1>7, OwnTurn DEF Handle

\* What changes the catalog is the request's call of the store.
LEMMA RunsIsCall ==
  ASSUME TypeOK, Next, NEW c \in Client, Runs(c)
  PROVE  CallStore(c)
<1> /\ req \in [Client -> RequestState] /\ Requests
    /\ req[c] \in RequestState /\ req[c].phase = "ready" /\ req'[c].phase = "ran"
  BY DEF TypeOK, Requests, Runs
<1>1. \A a : ~Answer(c, a)
  BY AnswerEnds
<1>2. Handle(c)
  BY OwnTurn DEF Begin
<1> QED
  BY <1>1, <1>2 DEF Handle, Guard, Permit, Permitted, Deny, LookUp, Load, AnswerRead, ReportMetrics,
                    StoreFails, Vend, File

-----------------------------------------------------------------------------
(* Who has lost its grants gets nothing                                     *)

Current(r) == revoked[r.on][r.q.by] = None \/ revoked[r.on][r.q.by] >= r.number

\* What a principal has lost on a replica it has not got back there, and a request there
\* that is past its decisions was begun before.
Revocations ==
  /\ \A r \in Replica, p \in Principal : revoked[r][p] # None =>
       /\ revoked[r][p] <= begun
       /\ \A g \in grants[r] : g[1] # p
  /\ \A c \in Client : req[c].phase \in Past => Current(req[c])

LEMMA BegunGrows ==
  ASSUME TypeOK, Next
  PROVE  begun \in Nat /\ begun' \in Nat /\ begun <= begun'
<1>1. begun \in Nat /\ begun' \in Nat
  BY RequestsStep DEF TypeOK, Requests
<1>2. ASSUME NEW c \in Client, NEW q \in Menu, NEW r \in Replica, Begin(c, q, r) PROVE begun <= begun'
  BY <1>1, <1>2 DEF Begin
<1>3. ASSUME NEW c \in Client, Handle(c) PROVE begun' = begun
  <2>1. CASE CallStore(c)
    BY <2>1, CallStoreIsCalls DEF Calls
  <2>2. CASE Guard(c) \/ LookUp(c) \/ Load(c) \/ AnswerRead(c)
    BY <2>2 DEF Guard, LookUp, Load, AnswerRead
  <2>3. CASE ReportMetrics(c) \/ StoreFails(c) \/ Vend(c) \/ File(c)
    BY <2>3 DEF ReportMetrics, StoreFails, Vend, File
  <2> QED
    BY <1>3, <2>1, <2>2, <2>3 DEF Handle
<1>4. \A c \in Client : Disconnect(c) => begun' = begun
  BY DEF Disconnect
<1>5. \A s \in Scopes : Expire(s) => begun' = begun
  BY DEF Expire
<1>6. \A r \in Replica : Restart(r) => begun' = begun
  BY DEF Restart
<1>7. \A r \in Replica, p \in Principal : Revoke(r, p) => begun' = begun
  BY DEF Revoke
<1>8. Outage => begun' = begun
  BY DEF Outage
<1>9. begun' = begun => begun <= begun'
  BY <1>1
<1> QED
  BY <1>1, <1>2, <1>3, <1>4, <1>5, <1>6, <1>7, <1>8, <1>9 DEF Next

LEMMA LossesStay ==
  ASSUME TypeOK, Revocations, Next, NEW o \in Replica, NEW p \in Principal,
         revoked'[o][p] # None
  PROVE  revoked'[o][p] <= begun' /\ \A g \in grants'[o] : g[1] # p
<1>1. begun \in Nat /\ begun' \in Nat /\ begun <= begun'
  BY BegunGrows
<1>0. revoked[o][p] \in Nat \cup {None}
  BY DEF TypeOK, Policy
<1>2. CASE PolicyMoves
  <2>1. PICK r \in Replica, lost \in SUBSET Principal : Loses(r, lost) /\ begun' = begun
    BY <1>2 DEF PolicyMoves
  <2>2. /\ grants'[o] \subseteq grants[o]
        /\ revoked'[o][p] \in {revoked[o][p], begun}
        /\ revoked'[o][p] # revoked[o][p] => o = r /\ p \in lost
        /\ o = r => \A g \in grants'[o] : g[1] \notin lost
    BY <2>1, Losing
  <2>3. CASE revoked'[o][p] = revoked[o][p]
    BY <1>1, <2>1, <2>2, <2>3 DEF Revocations
  <2>4. CASE revoked'[o][p] # revoked[o][p]
    BY <1>1, <2>1, <2>2, <2>4
  <2> QED
    BY <2>3, <2>4
<1>3. CASE ~PolicyMoves
  <2>1. grants' = grants /\ revoked' = revoked
    BY <1>3, PolicyUntouched
  <2>2. revoked[o][p] \in Nat /\ revoked[o][p] <= begun /\ \A g \in grants[o] : g[1] # p
    BY <1>0, <2>1 DEF Revocations
  <2> QED
    BY <1>1, <2>1, <2>2
<1> QED
  BY <1>2, <1>3

LEMMA CurrentStays ==
  ASSUME TypeOK, Revocations, Next, NEW c \in Client, req'[c].phase \in Past
  PROVE  Current(req[c])' 
<1>1. /\ req'[c].q = req[c].q /\ req'[c].number = req[c].number /\ req'[c].on = req[c].on
      /\ req[c].phase # "idle"
      /\ req[c].phase \in Past \/ (Permitted(c) /\ Guard(c))
  <2>0. req'[c].phase \notin {"idle", "deciding"}
    BY DEF Past
  <2>1. CASE req'[c] = req[c]
    BY <2>1 DEF Past
  <2>2. CASE req[c].phase \in Past /\ Same(c)
    BY <2>2 DEF Past, Same
  <2>4. ASSUME NEW q \in Menu, NEW r \in Replica, Begin(c, q, r) PROVE FALSE
    <3>1. req'[c].phase = "deciding"
      BY <2>4 DEF Begin, Idle, TypeOK, Requests
    <3> QED
      BY <2>0, <3>1
  <2>3. CASE /\ Permitted(c) /\ ~Answer(c, "forbidden") /\ Guard(c)
             /\ \E recorded \in BOOLEAN : Proceed(c, recorded)
    <3>1. PICK recorded \in BOOLEAN : Proceed(c, recorded)
      BY <2>3
    <3>2. req[c] \in RequestState /\ req \in [Client -> RequestState]
      BY DEF TypeOK, Requests
    <3>3. req'[c].q = req[c].q /\ req'[c].number = req[c].number /\ req'[c].on = req[c].on
      BY <2>3, <3>1, <3>2 DEF Proceed, RequestState
    <3> QED
      BY <2>3, <3>3 DEF Permitted
  <2> QED
    BY <2>0, <2>1, <2>2, <2>3, <2>4, Onward
<1>2. /\ req[c].q.by \in Principal /\ req[c].on \in Replica /\ begun \in Nat
      /\ req[c].number \in Nat /\ req[c].number <= begun
  BY <1>1, RunningTyped
<1>3. Current(req[c])
  <2>1. CASE req[c].phase \in Past
    BY <2>1 DEF Revocations
  <2>2. CASE Permitted(c)
    <3> DEFINE g == <<req[c].q.by, OwnerAsked(c), Head(req[c].todo)[1]>>
    <3>1. g \in grants[req[c].on]
      BY <2>2 DEF Permitted, Allows
    <3>2. g[1] = req[c].q.by
      OBVIOUS
    <3>3. revoked[req[c].on][req[c].q.by] = None
      BY <1>2, <3>1, <3>2 DEF Revocations
    <3> QED
      BY <3>3 DEF Current
  <2> QED
    BY <1>1, <2>1, <2>2
<1>4. CASE PolicyMoves
  <2>1. PICK r \in Replica, lost \in SUBSET Principal : Loses(r, lost)
    BY <1>4 DEF PolicyMoves
  <2>2. revoked'[req[c].on][req[c].q.by] \in {revoked[req[c].on][req[c].q.by], begun}
    BY <1>2, <2>1, Losing
  <2> QED
    BY <1>1, <1>2, <1>3, <2>2 DEF Current
<1>5. CASE ~PolicyMoves
  <2>1. revoked' = revoked
    BY <1>5, PolicyUntouched
  <2> QED
    BY <1>1, <1>3, <2>1 DEF Current
<1> QED
  BY <1>4, <1>5

LEMMA RevocationsInductive ==
  /\ Init => Revocations
  /\ TypeOK /\ Revocations /\ [Next]_vars => Revocations'
<1>1. ASSUME Init PROVE Revocations
  BY <1>1 DEF Init, Revocations, Idle, Past
<1>2. ASSUME TypeOK, Revocations, Next PROVE Revocations'
  BY <1>2, LossesStay, CurrentStays DEF Revocations
<1>3. ASSUME Revocations, UNCHANGED vars PROVE Revocations'
  BY <1>3 DEF vars, Revocations, Current
<1> QED
  BY <1>1, <1>2, <1>3

\* Until it is permitted a request is not answered with success.
LEMMA SuccessIsPast ==
  ASSUME TypeOK, Next, NEW d \in Client, Succeeds(d)
  PROVE  req[d].phase \in Past
<1> Requests /\ req[d].phase \in Phase
  BY DEF TypeOK, Requests, RequestState
<1>0. /\ req[d].phase # "idle" /\ req'[d] # req[d]
      /\ req'[d].answer \notin {None, "unavailable", "forbidden", "not found"}
  BY RequestAssumption DEF Succeeds, Outcome
<1> SUFFICES ASSUME req[d].phase = "deciding" PROVE FALSE
  BY <1>0 DEF Past
<1>1. ASSUME NEW c \in Client, d # c,
             Handle(c) \/ Disconnect(c) \/ \E q \in Menu, r \in Replica : Begin(c, q, r)
      PROVE  FALSE
  BY <1>0, <1>1, OthersStay
<1>2. ASSUME Handle(d) PROVE FALSE
  <2>1. Guard(d)
    BY <1>2, CallStoreIsCalls
    DEF Handle, LookUp, Load, AnswerRead, ReportMetrics, StoreFails, Calls, Vend, File
  <2>2. CASE Answer(d, "unavailable") \/ Answer(d, "forbidden") \/ Answer(d, "not found")
    BY <1>0, <2>2, AnswerEnds
  <2>3. CASE \E recorded \in BOOLEAN : Proceed(d, recorded) /\ ~Answer(d, "forbidden")
    <3>1. req[d] \in RequestState /\ req \in [Client -> RequestState]
      BY DEF TypeOK, Requests
    <3>2. req'[d].phase \in {"permitted", "deciding"}
      BY <2>3, <3>1 DEF Proceed, RequestState
    <3> QED
      BY <3>2 DEF Succeeds
  <2> QED
    BY <2>1, <2>2, <2>3 DEF Guard, Permit, Deny
<1>3. ~\E q \in Menu, r \in Replica : Begin(d, q, r)
  BY DEF Begin
<1>4. ~Disconnect(d)
  BY <1>0, AnswerEnds DEF Disconnect
<1>5. ASSUME NEW r \in Replica, Restart(r) PROVE FALSE
  <2>1. req'[d] = Idle
    BY <1>0, <1>5 DEF Restart
  <2> QED
    BY <1>0, <2>1 DEF Idle
<1>6. \A s \in Scopes : Expire(s) => req' = req
  BY DEF Expire
<1>7. \A r \in Replica, p \in Principal : Revoke(r, p) => req' = req
  BY DEF Revoke
<1>8. Outage => req' = req
  BY DEF Outage
<1> QED
  BY <1>0, <1>1, <1>2, <1>3, <1>4, <1>5, <1>6, <1>7, <1>8 DEF Next

\* No request begun on a replica after its principal lost its grants there changes anything
\* or is answered with success, whatever is under way or filed on the other replicas, which
\* learn of the loss by polling or restarting (guard.rs: authorize, before the receipt is
\* looked for; reloadable.rs: swap, spawn_policy_poller).
THEOREM RevokedGetsNothingHolds == Spec => RevokedGetsNothing
<1> DEFINE Step == \A c \in Client : Runs(c) \/ Succeeds(c) =>
             LET lost == revoked[req[c].on][req[c].q.by] IN lost = None \/ lost >= req[c].number
<1>1. TypeOK /\ Revocations /\ [Next]_vars => [Step]_vars
  <2> SUFFICES ASSUME TypeOK, Revocations, Next, NEW c \in Client, Runs(c) \/ Succeeds(c)
               PROVE  LET lost == revoked[req[c].on][req[c].q.by] IN lost = None \/ lost >= req[c].number
    OBVIOUS
  <2>1. req[c].phase \in Past
    BY SuccessIsPast DEF Runs, Past, Phase
  <2> QED
    BY <2>1 DEF Revocations, Current
<1> QED
  BY <1>1, TypeCorrect, RevocationsInductive, PTL DEF Spec, RevokedGetsNothing

-----------------------------------------------------------------------------
(* Changes are on record                                                    *)

Items(s) == {s[i] : i \in DOMAIN s}

\* What a request has to have decided is on record or still to be decided.
Recorded(r) ==
  r.phase # "idle" =>
    Items(Decisions(r.q)) \subseteq r.recorded \cup (IF r.phase = "deciding" THEN Items(r.todo) ELSE {})

OnRecord == FailClosed => \A c \in Client : Recorded(req[c])

LEMMA HeadAndTail ==
  ASSUME NEW S, NEW s \in Seq(S), s # <<>>
  PROVE  /\ Items(s) = {Head(s)} \cup Items(Tail(s))
         /\ Tail(s) = <<>> => Items(Tail(s)) = {}
<1>1. Len(s) \in Nat \ {0} /\ DOMAIN s = 1 .. Len(s) /\ Head(s) = s[1]
  OBVIOUS
<1>2. Tail(s) \in Seq(S) /\ Len(Tail(s)) = Len(s) - 1 /\ DOMAIN Tail(s) = 1 .. (Len(s) - 1)
  OBVIOUS
<1>3. \A i \in 1 .. (Len(s) - 1) : Tail(s)[i] = s[i + 1]
  OBVIOUS
<1>4. ASSUME NEW i \in 1 .. Len(s) PROVE s[i] \in {Head(s)} \cup Items(Tail(s))
  <2>1. CASE i = 1
    BY <1>1, <2>1
  <2>2. CASE i # 1
    <3>1. i - 1 \in DOMAIN Tail(s) /\ Tail(s)[i - 1] = s[i]
      BY <1>1, <1>2, <1>3, <2>2
    <3> QED
      BY <3>1 DEF Items
  <2> QED
    BY <2>1, <2>2
<1>5. ASSUME NEW i \in 1 .. (Len(s) - 1) PROVE Tail(s)[i] \in Items(s)
  <2>1. i + 1 \in DOMAIN s /\ Tail(s)[i] = s[i + 1]
    BY <1>1, <1>3
  <2> QED
    BY <2>1 DEF Items
<1>6. Head(s) \in Items(s)
  BY <1>1 DEF Items
<1>7. Tail(s) = <<>> => Items(Tail(s)) = {}
  BY DEF Items
<1> QED
  BY <1>1, <1>2, <1>4, <1>5, <1>6, <1>7 DEF Items

LEMMA RecordedStays ==
  ASSUME TypeOK, FailClosed, OnRecord, Next, NEW c \in Client, req'[c].phase # "idle"
  PROVE  Recorded(req[c])'
<1> /\ req \in [Client -> RequestState] /\ req[c] \in RequestState
    /\ req'[c] \in RequestState /\ Recorded(req[c]) /\ FailClosed
  BY RequestsStep DEF TypeOK, Requests, OnRecord
<1>1. CASE req'[c] = req[c]
  BY <1>1 DEF Recorded
<1>2. ASSUME NEW q \in Menu, NEW r \in Replica, Begin(c, q, r) PROVE Recorded(req[c])'
  <2>1. req'[c].phase = "deciding" /\ req'[c].q = q /\ req'[c].todo = Decisions(q)
    BY <1>2 DEF Begin, Idle
  <2> QED
    BY <2>1 DEF Recorded
<1>3. CASE req[c].phase \in Past /\ Same(c)
  <2>1. Items(Decisions(req[c].q)) \subseteq req[c].recorded
    BY <1>3 DEF Recorded, Past
  <2> QED
    BY <1>3, <2>1 DEF Recorded, Same
<1>4. CASE /\ Permitted(c) /\ ~Answer(c, "forbidden")
           /\ \E recorded \in BOOLEAN : Proceed(c, recorded) /\ (FailClosed => recorded)
  <2> DEFINE rest == Tail(req[c].todo)
  <2>1. req[c].phase = "deciding" /\ req[c].todo \in Seq(Decision) /\ req[c].todo # <<>>
    BY <1>4 DEF Permitted, TypeOK, Requests, Fits, RequestState
  <2>2. Proceed(c, TRUE) /\ ~Answer(c, "forbidden")
    BY <1>4
  <2>3. /\ req'[c].q = req[c].q /\ req'[c].todo = rest
        /\ req'[c].recorded = req[c].recorded \cup {Head(req[c].todo)}
        /\ req'[c].phase = IF rest = <<>> THEN "permitted" ELSE "deciding"
    BY <2>2 DEF Proceed, RequestState
  <2>4. Items(Decisions(req[c].q)) \subseteq req[c].recorded \cup Items(req[c].todo)
    BY <2>1 DEF Recorded
  <2>5. Items(req[c].todo) = {Head(req[c].todo)} \cup Items(rest) /\ (rest = <<>> => Items(rest) = {})
    BY <2>1, HeadAndTail
  <2> HIDE DEF rest
  <2>6. Items(Decisions(req'[c].q))
          \subseteq req'[c].recorded \cup (IF req'[c].phase = "deciding" THEN Items(req'[c].todo) ELSE {})
    BY <2>3, <2>4, <2>5
  <2> QED
    BY <2>6 DEF Recorded
<1> QED
  BY <1>1, <1>2, <1>3, <1>4, Onward

LEMMA OnRecordInductive ==
  /\ Init => OnRecord
  /\ TypeOK /\ OnRecord /\ [Next]_vars => OnRecord'
<1>1. ASSUME Init PROVE OnRecord
  BY <1>1 DEF Init, OnRecord, Recorded, Idle
<1>2. ASSUME TypeOK, OnRecord, Next PROVE OnRecord'
  <2>1. ASSUME FailClosed, NEW c \in Client PROVE Recorded(req[c])'
    <3>1. CASE req'[c].phase = "idle"
      BY <3>1 DEF Recorded
    <3>2. CASE req'[c].phase # "idle"
      BY <1>2, <2>1, <3>2, RecordedStays
    <3> QED
      BY <3>1, <3>2
  <2> QED
    BY <2>1 DEF OnRecord
<1>3. ASSUME OnRecord, UNCHANGED vars PROVE OnRecord'
  BY <1>3 DEF vars, OnRecord, Recorded
<1> QED
  BY <1>1, <1>2, <1>3

\* Where the auditor fails closed nothing changes before all it had to decide is on record,
\* a rename's two decisions and a transaction's one per table (guard.rs: record_decision).
THEOREM ChangesAreOnRecordHolds == Spec => ChangesAreOnRecord
<1> DEFINE Step == FailClosed => \A c \in Client : Runs(c) =>
             LET decisions == Decisions(req[c].q)
             IN \A i \in DOMAIN decisions : decisions[i] \in req[c].recorded
<1>1. TypeOK /\ OnRecord /\ [Next]_vars => [Step]_vars
  <2> SUFFICES ASSUME OnRecord, FailClosed, NEW c \in Client, Runs(c),
                      NEW i \in DOMAIN Decisions(req[c].q)
               PROVE  Decisions(req[c].q)[i] \in req[c].recorded
    OBVIOUS
  <2>1. Recorded(req[c]) /\ req[c].phase = "ready"
    BY DEF OnRecord, Runs
  <2> QED
    BY <2>1 DEF Recorded, Items
<1> QED
  BY <1>1, TypeCorrect, OnRecordInductive, PTL DEF Spec, ChangesAreOnRecord

-----------------------------------------------------------------------------
(* A key runs once                                                          *)

Unsettled(r) == settled[Scope(r.q)] = None \/ settled[Scope(r.q)] >= r.number

\* An answer that counts is one the next to look finds; who has looked found none.
Answers ==
  /\ \A s \in Scopes : settled[s] # None => settled[s] <= begun /\ reachable /\ s \in shared
  /\ \A c \in Client : req[c].phase \in {"reading", "ready"} /\ req[c].q.key # None => Unsettled(req[c])

\* What may become of an answer.
Found(s) == settled[s] # None => settled[s] <= begun /\ reachable /\ s \in shared

Resettles(s) ==
  \/ UNCHANGED <<settled, shared, reachable>>
  \/ settled'[s] = None
  \/ /\ UNCHANGED reachable /\ (s \in shared => s \in shared')
     /\ \/ settled'[s] = settled[s]
        \/ settled'[s] = begun /\ begun' = begun /\ reachable /\ s \in shared'

LEMMA PutSettles ==
  ASSUME Receipts, NEW t \in Scopes, NEW r \in Replica, NEW s \in Scopes,
         Put(t, r), UNCHANGED <<reachable, begun>>
  PROVE  Resettles(s)
<1>1. CASE reachable /\ t \notin lapsed
  <2>1. shared' = shared \cup {t} /\ settled' = [settled EXCEPT ![t] = begun]
    BY <1>1 DEF Put
  <2> QED
    BY <1>1, <2>1 DEF Resettles, Receipts
<1>2. CASE reachable /\ t \in lapsed
  BY <1>2 DEF Put, Resettles
<1>3. CASE ~reachable
  BY <1>3 DEF Put, Resettles
<1> QED
  BY <1>1, <1>2, <1>3

LEMMA Resettling ==
  ASSUME TypeOK, Next, NEW s \in Scopes
  PROVE  Resettles(s)
<1> Receipts /\ Requests
  BY DEF TypeOK
<1>1. ASSUME NEW c \in Client, CallStore(c) PROVE Resettles(s)
  BY <1>1, CallStoreIsCalls DEF Calls, Resettles, receipts
<1>2. ASSUME NEW c \in Client, File(c) PROVE Resettles(s)
  <2>1. req[c].phase # "idle" /\ UNCHANGED <<reachable, begun>>
    BY <1>2 DEF File
  <2>2. CASE req[c].q.key # None /\ Put(Scope(req[c].q), req[c].on)
    <3>1. Scope(req[c].q) \in Scopes /\ req[c].on \in Replica
      BY <2>1, <2>2, RunningTyped
    <3> QED
      BY <2>1, <2>2, <3>1, PutSettles
  <2>3. CASE UNCHANGED <<shared, settled>>
    BY <2>1, <2>3 DEF Resettles
  <2> QED
    BY <1>2, <2>2, <2>3 DEF File
<1>3. ASSUME NEW c \in Client, Handle(c), ~CallStore(c), ~File(c) PROVE Resettles(s)
  <2>1. CASE Guard(c) \/ LookUp(c) \/ Load(c) \/ AnswerRead(c)
    BY <2>1 DEF Guard, LookUp, Load, AnswerRead, Resettles, receipts
  <2>2. CASE ReportMetrics(c) \/ StoreFails(c) \/ Vend(c)
    BY <2>2 DEF ReportMetrics, StoreFails, Vend, Resettles, receipts
  <2> QED
    BY <1>3, <2>1, <2>2 DEF Handle
<1>4. ASSUME NEW t \in Scopes, Expire(t) PROVE Resettles(s)
  <2>1. CASE shared' = shared \ {t} /\ settled' = [settled EXCEPT ![t] = None]
    BY <1>4, <2>1 DEF Expire, Resettles, Receipts
  <2>2. CASE UNCHANGED <<shared, lapsed, settled>>
    BY <1>4, <2>2 DEF Expire, Resettles
  <2> QED
    BY <1>4, <2>1, <2>2 DEF Expire
<1>5. Outage => Resettles(s)
  BY DEF Outage, Resettles
<1>6. ASSUME NEW r \in Replica, Restart(r) PROVE Resettles(s)
  BY <1>6 DEF Restart, Resettles
<1>7. ASSUME NEW r \in Replica, NEW p \in Principal, Revoke(r, p) PROVE Resettles(s)
  BY <1>7 DEF Revoke, Resettles, receipts
<1>8. ASSUME NEW c \in Client, Disconnect(c) \/ \E q \in Menu, r \in Replica : Begin(c, q, r)
      PROVE  Resettles(s)
  BY <1>8 DEF Disconnect, Begin, Resettles, receipts
<1> QED
  BY <1>1, <1>2, <1>3, <1>4, <1>5, <1>6, <1>7, <1>8 DEF Next

LEMMA FoundStays ==
  ASSUME TypeOK, Next, NEW s \in Scopes, Found(s)
  PROVE  Found(s)'
<1>1. begun \in Nat /\ begun' \in Nat /\ begun <= begun'
  BY BegunGrows
<1>2. Resettles(s) /\ settled[s] \in Nat \cup {None}
  BY Resettling DEF TypeOK, Receipts
<1> QED
  BY <1>1, <1>2 DEF Found, Resettles

LEMMA UnsettledStays ==
  ASSUME TypeOK, Answers, Next, NEW c \in Client,
         req'[c].phase \in {"reading", "ready"}, req'[c].q.key # None
  PROVE  Unsettled(req[c])'
<1> DEFINE s == Scope(req[c].q)
<1>1. /\ req'[c].q = req[c].q /\ req'[c].number = req[c].number
      /\ req[c].phase # "idle" /\ Unsettled(req[c])
  <2>1. CASE req'[c] = req[c]
    BY <2>1 DEF Answers
  <2>2. CASE LookUp(c) /\ ~HasReceipt(c) /\ Same(c) /\ req[c].phase = "permitted"
    <3>1. req'[c].q = req[c].q /\ s \in Scopes
      BY <2>2, RunningTyped DEF Same
    <3>2. ~(reachable /\ s \in shared)
      BY <2>2, <3>1 DEF HasReceipt
    <3>3. settled[s] = None
      BY <3>1, <3>2 DEF Answers
    <3> QED
      BY <2>2, <3>3 DEF Unsettled, Same
  <2>3. CASE Same(c) /\ req[c].phase = "reading"
    BY <2>3 DEF Same, Answers
  <2> QED
    BY <2>1, <2>2, <2>3, GetsReady
<1>2. s \in Scopes /\ req[c].number \in Nat /\ req[c].number <= begun
  BY <1>1, RunningTyped
<1>3. settled'[s] \in {None, settled[s], begun}
  BY <1>2, Resettling DEF Resettles
<1>4. settled'[s] = None \/ settled'[s] >= req[c].number
  <2>1. settled[s] = None \/ settled[s] >= req[c].number
    BY <1>1 DEF Unsettled
  <2>2. begun >= req[c].number
    BY <1>2, BegunGrows
  <2> QED
    BY <1>3, <2>1, <2>2
<1>5. Scope(req'[c].q) = s
  BY <1>1
<1> QED
  BY <1>1, <1>4, <1>5 DEF Unsettled

LEMMA AnswersInductive ==
  /\ Init => Answers
  /\ TypeOK /\ Answers /\ [Next]_vars => Answers'
<1>1. ASSUME Init PROVE Answers
  BY <1>1 DEF Init, Answers, Idle
<1>2. ASSUME TypeOK, Answers, Next PROVE Answers'
  <2>1. \A s \in Scopes : Found(s)'
    BY <1>2, FoundStays DEF Answers, Found
  <2> QED
    BY <1>2, <2>1, UnsettledStays DEF Answers, Found
<1>3. ASSUME Answers, UNCHANGED vars PROVE Answers'
  BY <1>3 DEF vars, receipts, Answers, Unsettled
<1> QED
  BY <1>1, <1>2, <1>3

\* Once an attempt with a key was answered no attempt begun since runs again, on whichever
\* replica, while its receipt lasts and the shared store answers (idempotency.rs: get, set).
THEOREM AnsweredOnceHolds == Spec => AnsweredOnce
<1> DEFINE Step == \A c \in Client : Runs(c) /\ req[c].q.key # None =>
             LET answered == settled[Scope(req[c].q)]
             IN answered = None \/ answered >= req[c].number
<1>1. TypeOK /\ Answers /\ [Next]_vars => [Step]_vars
  BY DEF Answers, Unsettled, Runs
<1> QED
  BY <1>1, TypeCorrect, AnswersInductive, PTL DEF Spec, AnsweredOnce

-----------------------------------------------------------------------------
(* Protection holds                                                         *)

NamespaceSince(n) == IF namespaces[n] = None THEN None ELSE namespaces[n].protectedAt
ObjectSince(n) == IF objects[n] = None THEN None ELSE objects[n].protectedAt

Since(q) == IF q.op = "DropNamespace" THEN NamespaceSince(q.at) ELSE ObjectSince(q.at)

Asks(r) == r.q.op \in Drops \ {"UnregisterTable"}

\* Who is about to drop something has seen it unprotected: what protects it came since.
Seen == \A c \in Client : req[c].phase = "ready" /\ Asks(req[c]) =>
          Since(req[c].q) = None \/ Since(req[c].q) >= req[c].number

\* A name is protected no earlier than it was, or since now.
LEMMA ProtectionMoves ==
  ASSUME NEW protect, NEW before
  PROVE  Protection(protect, before) \in {None, begun, before}
  BY DEF Protection

LEMMA NamespaceSinceMoves ==
  ASSUME TypeOK, NEW c \in Client, CreateNamespace(c) \/ UpdateProperties(c) \/ DropNamespace(c),
         NEW n \in Namespace
  PROVE  NamespaceSince(n)' \in {None, begun, NamespaceSince(n)}
<1>1. CASE CreateNamespace(c)
  <2>1. PICK owner : namespaces' = [namespaces EXCEPT
          ![req[c].q.at] = [owner |-> owner, protectedAt |-> Protection(req[c].q.protect, None)]]
    BY <1>1 DEF CreateNamespace
  <2>2. Protection(req[c].q.protect, None) \in {None, begun}
    BY ProtectionMoves
  <2> QED
    BY <2>1, <2>2 DEF NamespaceSince, TypeOK, Catalog
<1>2. CASE UpdateProperties(c)
  <2>1. PICK protect, owner : namespaces' = [namespaces EXCEPT
          ![req[c].q.at] = [owner |-> owner,
                            protectedAt |-> Protection(protect, namespaces[req[c].q.at].protectedAt)]]
    BY <1>2 DEF UpdateProperties
  <2>2. Protection(protect, namespaces[req[c].q.at].protectedAt)
          \in {None, begun, namespaces[req[c].q.at].protectedAt}
    BY ProtectionMoves
  <2>3. namespaces[req[c].q.at] # None
    BY <1>2 DEF UpdateProperties
  <2> QED
    BY <2>1, <2>2, <2>3 DEF NamespaceSince, TypeOK, Catalog
<1>3. CASE DropNamespace(c)
  BY <1>3 DEF DropNamespace, NamespaceSince, TypeOK, Catalog
<1> QED
  BY <1>1, <1>2, <1>3

LEMMA AddsMoves ==
  ASSUME TypeOK, NEW c \in Client, NEW kind, Adds(c, kind), NEW n \in Namespace
  PROVE  ObjectSince(n)' \in {None, begun, ObjectSince(n)}
<1>1. Protection(req[c].q.protect, None) \in {None, begun}
  BY ProtectionMoves
<1> QED
  BY <1>1 DEF Adds, ObjectSince, TypeOK, Catalog

LEMMA WritesMove ==
  ASSUME TypeOK, NEW c \in Client, CommitTable(c) \/ CommitTransaction(c) \/ CommitView(c),
         NEW n \in Namespace
  PROVE  ObjectSince(n)' \in {None, begun, ObjectSince(n)}
<1> DEFINE tables == IF req[c].q.op = "CommitTransaction" THEN {req[c].q.at, req[c].q.to} ELSE {req[c].q.at}
<1>1. /\ \E ops : Calls(c, ops)
      /\ \A m \in tables : Kind(m) \in {"table", "view"}
      /\ objects'[n] = IF n \in tables THEN Written(c, n) ELSE objects[n]
  <2>1. CASE CommitTable(c)
    BY <2>1 DEF CommitTable, Calls, TypeOK, Catalog
  <2>2. CASE CommitTransaction(c)
    BY <2>2 DEF CommitTransaction, Calls
  <2>3. CASE CommitView(c)
    BY <2>3 DEF CommitView, Calls, TypeOK, Catalog
  <2> QED
    BY <2>1, <2>2, <2>3
<1> HIDE DEF tables
<1>2. CASE n \notin tables
  BY <1>1, <1>2 DEF ObjectSince
<1>3. CASE n \in tables
  <2>1. objects[n] \in ObjectState /\ Written(c, n) \in ObjectState
    BY <1>1, <1>3, WrittenTyped
  <2>2. Written(c, n).protectedAt = Protection(req[c].q.protect, objects[n].protectedAt)
    BY <1>1, <1>3, WrittenTyped
  <2>3. objects[n] # None
    BY <1>1, <1>3 DEF Kind
  <2>4. ObjectSince(n) = objects[n].protectedAt
    BY <2>3 DEF ObjectSince
  <2>5. ObjectSince(n)' \in {None, Written(c, n).protectedAt}
    BY <1>1, <1>3 DEF ObjectSince
  <2> QED
    BY <2>2, <2>4, <2>5, ProtectionMoves
<1> QED
  BY <1>2, <1>3

LEMMA MovesMove ==
  ASSUME TypeOK, NEW c \in Client, NEW ops, Calls(c, ops), ops \subseteq Renames,
         NEW kind \in {"table", "view"}, Moves(c, kind), NEW n \in Namespace
  PROVE  ObjectSince(n)' \in {None, begun, ObjectSince(n)}
<1> DEFINE q == req[c].q
           moved == [objects[q.at] EXCEPT !.protectedAt = IF @ = None THEN None ELSE begun]
<1>1. q.at \in Namespace /\ q.to \in Namespace
  BY CallerTyped
<1>2. objects[q.at] \in ObjectState
  BY <1>1 DEF Moves, Kind, TypeOK, Catalog
<1>3. moved.protectedAt \in {None, begun}
  BY <1>2 DEF ObjectState
<1>4. objects' = [objects EXCEPT ![q.at] = None, ![q.to] = moved]
  BY DEF Moves
<1> HIDE DEF moved
<1> QED
  BY <1>1, <1>3, <1>4 DEF ObjectSince, TypeOK, Catalog

LEMMA RemovesMove ==
  ASSUME TypeOK, NEW c \in Client, NEW kind, Removes(c, kind), NEW n \in Namespace
  PROVE  ObjectSince(n)' \in {None, begun, ObjectSince(n)}
  BY DEF Removes, ObjectSince, TypeOK, Catalog

\* Of a request under way, which no step of the store moves.
LEMMA SinceMoves ==
  ASSUME TypeOK, Next, NEW q \in Menu
  PROVE  Since(q)' \in {None, begun, Since(q)}
<1> q.at \in Namespace
  BY MenuTyped DEF Request
<1>0. ASSUME UNCHANGED store PROVE Since(q)' = Since(q)
  BY <1>0 DEF store, Since, NamespaceSince, ObjectSince
<1>1. ASSUME NEW c \in Client, CallStore(c) PROVE Since(q)' \in {None, begun, Since(q)}
  <2> DEFINE n == q.at
  <2>1. CASE CreateNamespace(c) \/ UpdateProperties(c) \/ DropNamespace(c)
    <3>1. objects' = objects
      BY <2>1 DEF CreateNamespace, UpdateProperties, DropNamespace
    <3> QED
      BY <2>1, <3>1, NamespaceSinceMoves DEF Since, ObjectSince
  <2>2. CASE CreateTable(c) \/ RegisterTable(c) \/ CreateView(c)
    <3>1. PICK kind : Adds(c, kind)
      BY <2>2 DEF CreateTable, RegisterTable, CreateView
    <3> QED
      BY <3>1, AddsMoves DEF Adds, Since, NamespaceSince
  <2>3. CASE StageTable(c)
    BY <1>0, <2>3 DEF StageTable
  <2>4. CASE CommitTable(c) \/ CommitTransaction(c) \/ CommitView(c)
    <3>1. namespaces' = namespaces
      BY <2>4 DEF CommitTable, CommitTransaction, CommitView
    <3> QED
      BY <2>4, <3>1, WritesMove DEF Since, NamespaceSince
  <2>5. CASE DropTable(c) \/ UnregisterTable(c) \/ DropView(c)
    <3>1. PICK kind : Removes(c, kind)
      BY <2>5 DEF DropTable, UnregisterTable, DropView
    <3> QED
      BY <3>1, RemovesMove DEF Removes, Since, NamespaceSince
  <2>6. CASE RenameTable(c) \/ RenameView(c)
    <3>1. /\ \E ops : Calls(c, ops) /\ ops \subseteq Renames
          /\ \E kind \in {"table", "view"} : Moves(c, kind)
      BY <2>6 DEF RenameTable, RenameView, Renames
    <3> QED
      BY <3>1, MovesMove DEF Moves, Since, NamespaceSince
  <2> QED
    BY <1>1, <2>1, <2>2, <2>3, <2>4, <2>5, <2>6 DEF CallStore
<1>2. ASSUME ~\E c \in Client : CallStore(c) PROVE UNCHANGED store
  BY <1>2, StoreUntouched
<1> QED
  BY <1>0, <1>1, <1>2

LEMMA SeenStays ==
  ASSUME TypeOK, Seen, Next, NEW c \in Client, req'[c].phase = "ready", Asks(req[c])'
  PROVE  Since(req[c].q)' = None \/ Since(req[c].q)' >= req'[c].number
<1>1. req[c].phase # "idle" /\ req'[c].q = req[c].q /\ req'[c].number = req[c].number
  <2>1. CASE req'[c] = req[c]
    BY <2>1
  <2>2. CASE Same(c) /\ req[c].phase \in {"permitted", "reading"}
    BY <2>2 DEF Same
  <2> QED
    BY <2>1, <2>2, GetsReady
<1>2. req[c].q \in Menu /\ req[c].number \in Nat /\ begun \in Nat /\ req[c].number <= begun
  BY <1>1, RunningTyped
<1>3. Since(req[c].q) = None \/ Since(req[c].q) >= req[c].number
  <2>1. CASE req'[c] = req[c]
    BY <2>1 DEF Seen, Asks
  <2>2. CASE req[c].q.op \notin ReadFirst
    BY <1>1, <2>2 DEF Asks, Drops, ReadFirst
  <2>3. CASE /\ Load(c) /\ Loaded(req[c].q) # None
             /\ ~Protects(req[c].q, Loaded(req[c].q))
    <3>1. Loaded(req[c].q).protectedAt = None
      BY <1>1, <2>3 DEF Protects, Asks
    <3>2. CASE req[c].q.op = "DropNamespace"
      BY <2>3, <3>1, <3>2 DEF Loaded, Since, NamespaceSince
    <3>3. CASE req[c].q.op # "DropNamespace"
      <4>1. Loaded(req[c].q) = objects[req[c].q.at]
        BY <1>1, <2>3, <3>3 DEF Loaded, Asks, Drops
      <4> QED
        BY <2>3, <3>1, <3>3, <4>1 DEF Since, ObjectSince
    <3> QED
      BY <3>2, <3>3
  <2> QED
    BY <2>1, <2>2, <2>3, GetsReady
<1>4. ASSUME NEW q \in Menu, q = req[c].q PROVE Since(q)' \in {None, begun, Since(q)}
  BY SinceMoves
<1>5. PICK q \in Menu : q = req[c].q
  BY <1>2
<1>6. Since(req[c].q)' = Since(q)' /\ Since(req[c].q) = Since(q)
  BY <1>1, <1>5 DEF Since, NamespaceSince, ObjectSince
<1> QED
  BY <1>1, <1>2, <1>3, <1>4, <1>5, <1>6

LEMMA SeenInductive ==
  /\ Init => Seen
  /\ TypeOK /\ Seen /\ [Next]_vars => Seen'
<1>1. ASSUME Init PROVE Seen
  BY <1>1 DEF Init, Seen, Idle
<1>2. ASSUME TypeOK, Seen, Next PROVE Seen'
  BY <1>2, SeenStays DEF Seen
<1>3. ASSUME Seen, UNCHANGED vars PROVE Seen'
  BY <1>3 DEF vars, store, Seen, Asks, Since, NamespaceSince, ObjectSince
<1> QED
  BY <1>1, <1>2, <1>3

\* A drop that runs finds what it drops.
LEMMA DropsWhatIsThere ==
  ASSUME NEW c \in Client, CallStore(c), Asks(req[c])
  PROVE  Since(req[c].q) = IF req[c].q.op = "DropNamespace" THEN namespaces[req[c].q.at].protectedAt
                           ELSE objects[req[c].q.at].protectedAt
<1>1. DropNamespace(c) \/ DropTable(c) \/ DropView(c)
  BY DEF CallStore, Asks, Drops, Calls, CreateNamespace, UpdateProperties, CreateTable, StageTable,
         RegisterTable, CommitTable, CommitTransaction, UnregisterTable, RenameTable,
         CreateView, CommitView, RenameView
<1>2. CASE DropNamespace(c)
  BY <1>2 DEF DropNamespace, Calls, Since, NamespaceSince
<1>3. CASE DropTable(c) \/ DropView(c)
  <2>1. objects[req[c].q.at] # None /\ req[c].q.op # "DropNamespace"
    BY <1>3 DEF DropTable, DropView, Removes, Kind, Calls
  <2> QED
    BY <2>1 DEF Since, ObjectSince
<1> QED
  BY <1>1, <1>2, <1>3

\* What was protected before a request to drop it began, and has been since, is not dropped
\* by it, although the handler reads protection in a step of its own (namespace.rs, table.rs,
\* view.rs: the drops).
THEOREM ProtectionHoldsHolds == Spec => ProtectionHolds
<1> DEFINE Step == \A c \in Client : Runs(c) /\ req[c].q.op \in Drops \ {"UnregisterTable"} =>
             LET q == req[c].q
                 since == IF q.op = "DropNamespace" THEN namespaces[q.at].protectedAt
                          ELSE objects[q.at].protectedAt
             IN since = None \/ since >= req[c].number
<1>1. TypeOK /\ Seen /\ [Next]_vars => [Step]_vars
  <2> SUFFICES ASSUME TypeOK, Seen, Next, NEW c \in Client, Runs(c), Asks(req[c])
               PROVE  LET q == req[c].q
                          since == IF q.op = "DropNamespace" THEN namespaces[q.at].protectedAt
                                   ELSE objects[q.at].protectedAt
                      IN since = None \/ since >= req[c].number
    BY DEF Asks
  <2>1. CallStore(c) /\ req[c].phase = "ready"
    BY RunsIsCall DEF Runs
  <2> QED
    BY <2>1, DropsWhatIsThere DEF Seen
<1> QED
  BY <1>1, TypeCorrect, SeenInductive, PTL DEF Spec, ProtectionHolds
=============================================================================
