----------------------------- MODULE TableAccess -----------------------------
(***************************************************************************)
(* Reading a table under policy: how a request is decided and recorded     *)
(* (src/auth/cedar.rs, src/catalog/v1/guard.rs), and what loadTable,       *)
(* loadCredentials and planTableScan then hand over (src/catalog/v1/       *)
(* table.rs, plan.rs, restrictions.rs, freshness.rs), while policy sets    *)
(* are swapped and the table's schema changes between a handler's steps.   *)
(*                                                                         *)
(* One request is followed at a time: requests share nothing but what the  *)
(* environment changes under them.                                         *)
(***************************************************************************)
EXTENDS Predicates, SequencesExt

CONSTANTS
  Parent,        \* [Field -> Field or None]: the field each one is nested in
  MapKey,        \* the fields that are the key half of a map
  Partition,     \* the fields some partition spec of the table has for source
  DeletesOf,     \* [Row -> SUBSET Nat]: the delete files, by the order of their paths,
                 \* that apply to the data file of a row: the row is gone if there are any
  InitSchema,
  PolicySets,    \* the policy sets an author submits
  Filters,       \* the filters a client sends
  Statistics,    \* the sets of fields it asks statistics of
  FailClosed,    \* how the auditor is configured
  SigningEnabled,
  MaxChanges     \* bound: policy swaps and schema changes, none of them while an
                 \* answer, which they do not change, is on its way

\* A policy, as far as one caller and one table are concerned: the actions it
\* applies to and those it fails to evaluate for, and a permit's annotations.
IsPolicy(p) ==
  /\ p.effect \in {"permit", "forbid"}
  /\ p.matches \cup p.fails \subseteq {"Read", "Update"}
  /\ p.mask \subseteq Name

ASSUME TableAssumption ==
  /\ Parent \in [Field -> Field \cup {None}]
  /\ MapKey \subseteq Field /\ Partition \subseteq Field
  /\ DeletesOf \in [Row -> SUBSET Nat]
  /\ InitSchema \in [Field -> Name \cup {None}]
  /\ {FailClosed, SigningEnabled} \subseteq BOOLEAN
  /\ MaxChanges \in Nat
  /\ \A set \in PolicySets : \A p \in set : IsPolicy(p)

VARIABLES
  current,   \* the policy set in force
  schema,    \* the table's current schema
  past,      \* the names any of its schemas has had
  pointer,   \* its metadata location
  req,       \* the request in flight
  held,      \* what the client keeps of its last full load, with its tag
  changes    \* swaps and schema changes so far

vars == <<current, schema, past, pointer, req, held, changes>>

-----------------------------------------------------------------------------
(* Decisions                                                               *)

Matching(set, action, effect) == {p \in set : p.effect = effect /\ action \in p.matches}

\* A policy that fails to evaluate denies: Cedar would skip it, a forbid included.
Allows(set, action) ==
  /\ \A p \in set : action \notin p.fails
  /\ Matching(set, action, "forbid") = {}
  /\ Matching(set, action, "permit") # {}

\* Bug: a permit without a filter leaves the other permits' filters standing.
FiltersStand(permits) ==
  [filters |-> {p.filter : p \in permits} \ {None},
   masks   |-> {n \in Name : \A p \in permits : n \in p.mask}]

\* The filters of the matching permits, unless one of them has none; the columns
\* every one of them withholds.
CollectObligations(permits) ==
  [filters |-> IF \E p \in permits : p.filter = None THEN {} ELSE {p.filter : p \in permits},
   masks   |-> {n \in Name : \A p \in permits : n \in p.mask}]

NoObligations == [filters |-> {}, masks |-> {}]

\* CedarAuthorizer::new refuses a set with a filter that could never be bound.
Compiles(set) == \A p \in set : p.filter # None => ValidPolicyFilter(p.filter)

-----------------------------------------------------------------------------
(* Masks                                                                   *)

RECURSIVE Ancestors(_)
Ancestors(f) == IF Parent[f] = None THEN {} ELSE {Parent[f]} \cup Ancestors(Parent[f])

Within(fields) == {f \in Field : Ancestors(f) \cap fields # {}}

\* The fields one mask names now: exactly, or else in any case.
MaskedBy(n, sch) ==
  IF ExactlyNamed(sch, n) # {} THEN ExactlyNamed(sch, n) ELSE NamedInAnyCase(sch, n)

\* A mask whose column an older schema had and this one has not is an error; one
\* that no schema had is about other tables.  A mask covers what is nested in it.
MaskedFieldIds(masks, sch, earlier) ==
  LET gone(n)  == MaskedBy(n, sch) = {} /\ \E m \in earlier : Fold[m] = Fold[n]
      resolved == UNION {MaskedBy(n, sch) : n \in masks}
  IN IF \E n \in masks : gone(n) THEN None
     ELSE resolved \cup (Within(resolved) \cap InSchema(sch))

\* Bug: a masked field is published along with the one it is nested in.
AllProjected(masked) == IF masked \cap MapKey # {} THEN None ELSE masked

\* Of nested masked fields only the outermost is published, and never a map's key.
ColumnProjections(masked) ==
  IF masked \cap MapKey # {} THEN None ELSE {f \in masked : Ancestors(f) \cap masked = {}}

\* The restrictions on a table, or None where they cannot be expressed.
ReadRestrictions(obligations, sch, earlier) ==
  LET masked      == MaskedFieldIds(obligations.masks, sch, earlier)
      projections == IF masked = None THEN None ELSE ColumnProjections(masked)
  IN IF obligations = NoObligations THEN [rows |-> Row, columns |-> {}]
     ELSE IF projections = None THEN None
     ELSE [rows |-> RowFilter(obligations.filters, sch), columns |-> projections]

-----------------------------------------------------------------------------
(* Requests                                                                *)

Nothing == [status |-> None]

\* Bug: a tag says whether a table is restricted, not how.
EtagOfRestricted(location, remoteSigning, obligations) ==
  <<location, remoteSigning, obligations = NoObligations>>

\* What the representation of a load depends on.
EtagFor(location, remoteSigning, obligations) == <<location, remoteSigning, obligations>>

Idle == [op |-> None, phase |-> "idle", vended |-> FALSE, signing |-> FALSE,
         decidedBy |-> {}, permits |-> {}, table |-> None,
         write |-> FALSE, credential |-> "none", recorded |-> {}, answer |-> Nothing]

Obligations == CollectObligations(req.permits)

Go(phase) == req' = [req EXCEPT !.phase = phase]

Answer(a) == req' = [req EXCEPT !.phase = "answered", !.answer = a]

Environment == <<current, schema, past, pointer, changes>>

\* What the answer to a load says of a table, storage credentials aside.
Document(table, obligations, remoteSigning) ==
  [table   |-> table,
   read    |-> ReadRestrictions(obligations, table.schema, table.past),
   mode    |-> IF obligations = NoObligations THEN "client" ELSE "server",
   signer  |-> remoteSigning /\ SigningEnabled /\ obligations = NoObligations]

TableNow == [pointer |-> pointer, schema |-> schema, past |-> past]

Init ==
  /\ current \in PolicySets /\ Compiles(current)
  /\ schema = InitSchema
  /\ past = {InitSchema[f] : f \in InSchema(InitSchema)}
  /\ pointer = 0
  /\ req = Idle
  /\ held = None
  /\ changes = 0

MayChange == changes < MaxChanges /\ req.phase # "answered"

\* The environment: a poller or an author swaps the policy set, ...
Swap(set) ==
  /\ MayChange /\ Compiles(set)
  /\ current' = set
  /\ changes' = changes + 1
  /\ UNCHANGED <<schema, past, pointer, req, held>>

\* ... and a commit renames a column or, without a name, drops it.  In the same commit
\* another column may take the name it had, one the table has or a new one.
ChangeColumn(f, n, taker) ==
  /\ MayChange
  /\ f \in InSchema(schema) /\ Parent[taker] = Parent[f]
  /\ \A g \in {f, taker} : g \notin MapKey /\ Within({g}) \cap InSchema(schema) = {}
  /\ n # None => NamedInAnyCase(schema, n) = {}
  /\ schema' = [schema EXCEPT ![taker] = schema[f], ![f] = n]
  /\ past' = past \cup ({n} \ {None})
  /\ pointer' = pointer + 1
  /\ changes' = changes + 1
  /\ UNCHANGED <<current, req, held>>

-----------------------------------------------------------------------------
(* guard::authorize                                                        *)

\* The decision, taken by the set in force at this moment.  What a client holds of
\* an earlier load matters to loads only: others are followed without.
Authorize(op, vended, signing) ==
  /\ req = Idle
  /\ op # "load" => held = None
  /\ req' = [Idle EXCEPT !.op = op, !.phase = "record", !.vended = vended,
                         !.signing = signing, !.decidedBy = current,
                         !.permits = IF Allows(current, "Read")
                                       THEN Matching(current, "Read", "permit") ELSE {}]
  /\ UNCHANGED <<Environment, held>>

\* The record of a read may be lost.  A denied read is answered as if there were no table.
RecordRead ==
  /\ req.phase = "record"
  /\ IF Allows(req.decidedBy, "Read")
       THEN Go(IF req.op = "load" /\ held # None /\ ~req.vended THEN "revalidate" ELSE "load")
       ELSE Answer([status |-> "not_found"])
  /\ UNCHANGED <<Environment, held>>

-----------------------------------------------------------------------------
(* loadTable and loadCredentials                                           *)

\* If-None-Match, answered from the pointer alone.
Revalidate ==
  /\ req.phase = "revalidate"
  /\ IF EtagFor(pointer, req.signing, Obligations) = held.tag
       THEN Answer([status |-> "not_modified"])
       ELSE Go("load")
  /\ UNCHANGED <<Environment, held>>

Load ==
  /\ req.phase = "load" /\ req.op \in {"load", "credentials", "plan"}
  /\ req' = [req EXCEPT !.table = TableNow,
                        !.phase = IF req.op = "plan" THEN "plan"
                                  ELSE IF req.vended THEN "vend" ELSE "publish"]
  /\ UNCHANGED <<Environment, held>>

\* No credential: the table is restricted.
Withhold ==
  /\ req.phase = "vend" /\ Obligations # NoObligations
  /\ IF req.op = "load" THEN Go("publish") ELSE Answer([status |-> "forbidden"])
  /\ UNCHANGED <<Environment, held>>

\* No credential: the storage is not this server's, or not its provider's.
NotDelegated ==
  /\ req.phase = "vend" /\ Obligations = NoObligations
  /\ IF req.op = "load" THEN Go("publish") ELSE Answer([status |-> "not_supported"])
  /\ UNCHANGED <<Environment, held>>

\* Authorized::also_permits: whether the credential may write is a second decision.
DecideUpdate ==
  /\ req.phase = "vend" /\ Obligations = NoObligations
  /\ req' = [req EXCEPT !.phase = "record_update", !.write = Allows(current, "Update")]
  /\ UNCHANGED <<Environment, held>>

\* A record of a permitted change that is lost refuses the request if so configured.
Record(what, kept, next) ==
  IF ~kept /\ FailClosed
    THEN Answer([status |-> "unavailable"])
    ELSE req' = [next EXCEPT !.recorded = IF kept THEN @ \cup {what} ELSE @]

RecordUpdate(kept) ==
  /\ req.phase = "record_update"
  /\ LET next == [req EXCEPT !.phase = "exchange"]
     IN IF req.write THEN Record("update", kept, next) ELSE req' = next
  /\ UNCHANGED <<Environment, held>>

\* The provider's answer: a credential, none, or a failure.
Exchange(outcome, kept) ==
  /\ req.phase = "exchange"
  /\ LET given == IF outcome = "none" THEN "none" ELSE IF req.write THEN "write" ELSE "read"
         next  == IF req.op = "load"
                    THEN [req EXCEPT !.phase = "publish", !.credential = given]
                    ELSE [req EXCEPT !.phase = "answered", !.credential = given,
                            !.answer = [status |-> IF given = "none" THEN "not_supported"
                                                                     ELSE "credentials"]]
     IN CASE outcome = "failed" -> Answer([status |-> "unavailable"])
          [] outcome # "failed" /\ given = "write" -> Record("vend", kept, next)
          [] OTHER -> req' = next
  /\ UNCHANGED <<Environment, held>>

\* The answer to a load.  One without credentials carries a tag to revalidate by.
Publish ==
  /\ req.phase = "publish"
  /\ LET document == Document(req.table, Obligations, req.signing)
     IN IF document.read = None
          THEN Answer([status |-> "forbidden"]) /\ UNCHANGED held
          ELSE /\ Answer([status |-> "loaded", document |-> document])
               /\ held' = IF req.vended THEN held
                          ELSE [tag |-> EtagFor(req.table.pointer, req.signing, Obligations),
                                document |-> document]
  /\ UNCHANGED Environment

\* A HEAD request: the table may have been dropped since the decision.
TableExists ==
  /\ req.phase = "load" /\ req.op = "exists"
  /\ \E status \in {"exists", "not_found"} : Answer([status |-> status])
  /\ UNCHANGED <<Environment, held>>

-----------------------------------------------------------------------------
(* planTableScan                                                           *)

\* Every plan is whole in the answer to its request: there is none to fetch, no task
\* to fetch and nothing to cancel.
NoSuchPlan ==
  /\ req.phase = "load" /\ req.op \in {"fetch", "cancel"}
  /\ Answer([status |-> IF req.op = "fetch" THEN "no_such_plan" ELSE "cancelled"])
  /\ UNCHANGED <<Environment, held>>

\* A plan of a filter j, read under the schema sch, with the statistics of some
\* columns: what refuses it.
PlanRefusal(j, sch, caseSensitive, stats, table, obligations) ==
  LET masked == MaskedFieldIds(obligations.masks, table.schema, table.past)
  IN CASE ParsePredicate(j, sch, caseSensitive) = None -> "bad_request"
       [] masked = None                               -> "forbidden"
       [] masked \cap Partition # {}                  -> "forbidden"
       [] ~(stats \subseteq InSchema(sch))            -> "bad_request"
       [] stats \cap masked # {}                      -> "forbidden"
       [] OTHER                                       -> None

\* The delete files of a plan, each once.
DeleteFiles(files) == SetToSortSeq(UNION {DeletesOf[f] : f \in files}, <)

\* Bug: a task refers to delete files by their place among its own.
TasksOfTheirOwn(files, deletes) == [f \in files |-> DOMAIN DeleteFiles({f})]

\* A task for each data file, with its delete files' places in the plan's list.
ScanTasks(files, deletes) ==
  [f \in files |-> {i \in DOMAIN deletes : deletes[i] \in DeletesOf[f]}]

\* What the plan tells of a file: statistics where they were asked for, and always
\* the partition it is in.
FileEntry(stats) == [statistics |-> stats, partition |-> Partition]

\* What is left for the reader to apply: the filter it sent, which pruned files only,
\* and the policy's.
ResidualFilter(j, obligations, sch) ==
  [requested |-> j, policy |-> RowFilter(obligations.filters, sch)]

\* Filters are bound to the current schema or, on request, to the snapshot's: the
\* one it was written under.  A data file holds one row; how many of them make a plan
\* too large for one answer is left open.
BuildPlan(j, onSnapshot, caseSensitive, stats, tooLarge) ==
  /\ req.phase = "plan"
  /\ LET sch     == IF onSnapshot THEN InitSchema ELSE req.table.schema
         refusal == PlanRefusal(j, sch, caseSensitive, stats, req.table, Obligations)
         files   == ParsePredicate(j, sch, caseSensitive)
                    \cap PolicyPredicate(Obligations.filters, sch, caseSensitive)
         deletes == DeleteFiles(files)
     IN Answer(IF refusal # None THEN [status |-> refusal]
               ELSE IF tooLarge THEN [status |-> "bad_request"]
               ELSE [status |-> "planned", filter |-> j, schema |-> sch,
                     caseSensitive |-> caseSensitive, entry |-> FileEntry(stats),
                     deletes |-> deletes, tasks |-> ScanTasks(files, deletes),
                     residual |-> ResidualFilter(j, Obligations, sch)])
  /\ UNCHANGED <<Environment, held>>

Reply ==
  /\ req.phase = "answered"
  /\ req' = Idle
  /\ UNCHANGED <<Environment, held>>

Next ==
  \/ \E set \in PolicySets : Swap(set)
  \/ \E f, taker \in Field, n \in Name \cup {None} : ChangeColumn(f, n, taker)
  \/ \E vended, signing \in BOOLEAN : Authorize("load", vended, signing)
  \/ Authorize("credentials", TRUE, FALSE)
  \/ \E op \in {"plan", "exists", "fetch", "cancel"} : Authorize(op, FALSE, FALSE)
  \/ RecordRead \/ Revalidate \/ Load
  \/ Withhold \/ NotDelegated \/ DecideUpdate
  \/ \E kept \in BOOLEAN : RecordUpdate(kept)
  \/ \E outcome \in {"granted", "none", "failed"}, kept \in BOOLEAN : Exchange(outcome, kept)
  \/ Publish \/ TableExists \/ NoSuchPlan
  \/ \E j \in Filters, onSnapshot, caseSensitive, tooLarge \in BOOLEAN, stats \in Statistics :
       BuildPlan(j, onSnapshot, caseSensitive, stats, tooLarge)
  \/ Reply

Spec == Init /\ [][Next]_vars

-----------------------------------------------------------------------------

Answered(status) == req.answer.status = status

\* What one permit lets the caller see of a table it can be read against.
Grants(p, sch, caseSensitive) ==
  CASE p.filter = None                               -> Row
    [] p.filter # None /\ Unknown(p.filter, sch, caseSensitive) = {}
                       -> Meaning(p.filter, sch, caseSensitive, {})
    [] OTHER                                         -> {}

\* A row read from a planned file, once the delete files its task refers to are applied.
Remains(a, f) == \A i \in a.tasks[f] : a.deletes[i] \notin DeletesOf[f]

\* Safety.  A reader that plans here, applies the delete files of each task and then the
\* residual gets the rows it asked for among those its permits grant and the table still
\* has, no fewer and no more: widening a client's filter under negations never prunes a
\* row, a policy's filter is never widened, a filter of one permit this table cannot
\* carry neither voids nor blocks the others, and no file loses a delete file of its own
\* in the list they share (predicate.rs:19-53, plan.rs:407-609 and 917-1003).
ReaderGetsItsRows ==
  Answered("planned") =>
    LET a       == req.answer
        granted == UNION {Grants(p, a.schema, a.caseSensitive) : p \in req.permits}
        live    == {f \in Row : DeletesOf[f] = {}}
        read    == {f \in DOMAIN a.tasks : Remains(a, f)}
        meaning(j, holds) == Meaning(j, a.schema, a.caseSensitive, holds)
    IN \A holds \in SUBSET Unknown(a.filter, a.schema, a.caseSensitive) :
         read \cap a.residual.policy \cap meaning(a.residual.requested, holds)
           = live \cap granted \cap meaning(a.filter, holds)

Visible(permits, caseSensitive) ==
  PolicyPredicate(CollectObligations(permits).filters, schema, caseSensitive)

\* Safety.  A further matching permit never takes a row or a column away: filters
\* are joined, masks are met, and no annotation means neither
\* (cedar.rs:692-788, authz.rs:418-433).
PermitsOnlyAdd ==
  LET all == Matching(current, "Read", "permit")
  IN \A some \in SUBSET all \ {{}} :
       /\ \A caseSensitive \in BOOLEAN :
            Visible(some, caseSensitive) \subseteq Visible(all, caseSensitive)
       /\ CollectObligations(all).masks \subseteq CollectObligations(some).masks

\* Safety.  The column that has the name every matching permit masks, in whatever case
\* and with what is nested in it, is withheld from what is answered: a load projects
\* each such field by exactly one action, and a plan tells neither its statistics nor
\* its partition values.  A mask follows the name and not the column.  Once its column
\* is renamed or dropped there is no answer at all, until another column takes the
\* name: then that one is withheld, and the one that had it is told
\* (restrictions.rs:102-184, plan.rs:678-730 and 815-913).
MasksAreKept ==
  (Answered("loaded") \/ Answered("planned")) =>
    LET masks    == Obligations.masks
        named    == {f \in InSchema(req.table.schema) :
                       \E n \in masks : Fold[n] = Fold[req.table.schema[f]]}
        withheld == named \cup (Within(named) \cap InSchema(req.table.schema))
    IN /\ \A n \in masks : Fold[n] \in {Fold[m] : m \in req.table.past}
                             => NamedInAnyCase(req.table.schema, n) # {}
       /\ Answered("loaded") =>
            LET projected == req.answer.document.read.columns
            IN /\ projected \subseteq withheld
               /\ \A f \in withheld : Cardinality(projected \cap ({f} \cup Ancestors(f))) = 1
       /\ Answered("planned") =>
            (req.answer.entry.statistics \cup req.answer.entry.partition) \cap withheld = {}

\* Action property.  A client told "not modified" holds what a load would now answer,
\* restrictions and signer included, whichever sets decided its requests and whatever
\* was committed between (freshness.rs:60-74).
NotModifiedIsTrue ==
  [][req'.answer.status = "not_modified" /\ req'.answer # req.answer
       => held.document = Document(TableNow, Obligations, req.signing)]_vars
=============================================================================
