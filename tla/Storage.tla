------------------------------- MODULE Storage -------------------------------
(***************************************************************************)
(* Access to tables' files: credentials vended with a table                *)
(* (src/catalog/v1/table.rs, src/credentials), requests to S3 signed for a *)
(* client (sign.rs) and the files of a plan signed beforehand (plan.rs),   *)
(* while tables come, go and move, and policies change.                    *)
(*                                                                         *)
(* A request goes through phases: what it is authorised for, what it is    *)
(* authorised for besides, the table it then finds under the name, and     *)
(* what is issued for it.                                                  *)
(***************************************************************************)
EXTENDS Resources, Signing, DelegationKeys

CONSTANTS
  Scenarios     \* by name: how the server is configured, what is there, what clients ask for,
                \* and bounds: edits of resources, changes of policy, requests, failures

Right == {"read", "restricted", "create", "update"}

VARIABLES
  scenario,   \* the name of one, and what is left of its bounds
  rights,     \* per client and name: what policies permit, and whether they restrict what
              \* is read of it
  request,    \* what each client's request is doing
  seen,       \* history, per client: what policies permitted at one time of its request
  trail,      \* history, per client: what the audit trail holds of its request
  purged      \* history: the names of the table last purged, and what was deleted with it

\* The place of one of the names a resource has had: for a view its default too.
AtHome(r, l) ==
  \E i \in r.names :
    IsWithin(PlaceOf(i), l) \/ (r.kind = "view" /\ IsWithin(ViewLocation(i), l))

\* Where the names of a catalog of ours put things, and the resource is there.
Follows(i, r) == r # None /\ Warehouse[Governing(i[1])] # None => AtHome(r, r.at)

\* Within the warehouse of its catalog, if it is one of ours.
Housed(i, r) ==
  r # None /\ Warehouse[Governing(i[1])] # None => IsWithin(WarehouseFor(i[1]), r.at)

\* Every scenario starts with resources where their names, or their warehouses, put them, and
\* knows of no other names, requests and rights than there are.
ASSUME ScenariosAssumption ==
  \A name \in DOMAIN Scenarios :
    LET set == Scenarios[name]
    IN /\ DOMAIN set.held = Ident
       /\ \A i \in Ident : set.held[i] # None =>
            /\ set.held[i] = [kind |-> set.held[i].kind, at |-> set.held[i].at,
                             files |-> set.held[i].files, names |-> {i}]
            /\ IsLocation(set.held[i].at)
            /\ IF set.scope = "table" THEN Follows(i, set.held[i]) ELSE Housed(i, set.held[i])
       /\ set.names \subseteq Ident /\ \A l \in set.places : IsLocation(l)
       /\ \A ask \in set.asks :
            /\ ask # None /\ ask.on \in Ident
            /\ ask.place # None => IsLocation(ask.place)
            /\ ask.form \in {"vend", "sign", "plan", "create", "stage"}
            /\ ask.form = "sign" => IsRemoteRequest(ask.request)
       /\ set.policies \subseteq [Client -> [Ident -> SUBSET Right]]

accessVars == <<rights, request, seen, trail>>
vars == <<resources, keyVars, scenario, accessVars, purged>>

Setup == Scenarios[scenario.name]

Idle == [phase |-> "idle", ask |-> None, plain |-> FALSE, write |-> FALSE, table |-> None,
         reach |-> {}]

Worth(right) ==
  (right \ {"restricted"}) \cup {"plain" : x \in IF "restricted" \in right THEN {} ELSE {"read"} \cap right}

To(c, phase) == request' = [request EXCEPT ![c].phase = phase]

-----------------------------------------------------------------------------
(* The audit trail                                                          *)

\* Bug: a record that is lost stops nothing.
NothingStops(kept) == FALSE

\* What cannot be recorded is not granted, where the trail fails closed.
Stops(kept) == ~kept /\ Setup.failClosed

Record(c, event, kept) ==
  /\ trail' = IF kept THEN [trail EXCEPT ![c] = @ \cup {event}] ELSE trail
  /\ scenario' = IF kept THEN scenario ELSE [scenario EXCEPT !.failures = @ - 1]

MayKeep == IF scenario.failures > 0 THEN BOOLEAN ELSE {TRUE}

-----------------------------------------------------------------------------
(* A request                                                                *)

\* Tables that are made are handed out to be written.
Makes(ask) == ask.form \in {"create", "stage"}

Needs(ask) == IF Makes(ask) THEN "create" ELSE "read"

\* What a request is, and whether it may be asked here at all.
Addressing(ask) == Resolve(ask.request, Setup.style)

Admits(ask, plain) ==
  CASE ask.form = "sign" -> Setup.signing /\ Addressing(ask) # None /\ plain
    [] ask.form = "plan" -> Warehouse[Governing(ask.on[1])] # None
    [] OTHER             -> TRUE

IsWrite(ask) == ask.form = "sign" /\ Addressing(ask).op = "write"

Ask(c, ask) ==
  LET right == rights[c][ask.on]
      plain == Makes(ask) \/ "restricted" \notin right
      admitted == Needs(ask) \in right /\ Admits(ask, plain)
  IN /\ request[c].phase \in {"idle", "granted", "refused"} /\ scenario.requests > 0
     /\ scenario' = [scenario EXCEPT !.requests = @ - 1]
     /\ request' = [request EXCEPT ![c] = [Idle EXCEPT
          !.ask = ask, !.plain = plain,
          !.phase = IF ~admitted THEN "refused" ELSE IF IsWrite(ask) THEN "write"
                    ELSE IF Makes(ask) THEN "decided" ELSE "load"]]
     /\ seen' = [seen EXCEPT ![c] = Worth(right)]
     /\ trail' = [trail EXCEPT ![c] = {}]
     /\ UNCHANGED <<resources, keyVars, rights, purged>>

\* That a table may be created is recorded before it is.
RecordDecision(c) ==
  /\ request[c].phase = "decided"
  /\ \E kept \in MayKeep :
       /\ Record(c, "decided", kept)
       /\ To(c, IF Stops(kept) THEN "refused" ELSE "load")
  /\ UNCHANGED <<resources, keyVars, rights, seen, purged>>

\* Bug: who may read may write.
ReadingSuffices(c) == "read" \in rights[c][request[c].ask.on]

\* The second decision, by the policies there are by then.
MayUpdate(c) == "update" \in rights[c][request[c].ask.on]

AlsoPermits(c) ==
  /\ request[c].phase = "write"
  /\ IF ~MayUpdate(c)
     THEN /\ To(c, IF request[c].ask.form = "sign" THEN "refused" ELSE "issue")
          /\ UNCHANGED <<trail, scenario>>
     ELSE \E kept \in MayKeep :
            /\ Record(c, "decided", kept)
            /\ To(c, IF Stops(kept) THEN "refused"
                     ELSE IF request[c].ask.form = "sign" THEN "load" ELSE "issue-write")
  /\ UNCHANGED <<resources, keyVars, rights, seen, purged>>

IsTable(i) == IF held[i] = None THEN FALSE ELSE held[i].kind = "table"

\* The table under the name, as it is now.
Found(c, table, phase, reach) ==
  request' = [request EXCEPT ![c].table = table, ![c].phase = phase, ![c].reach = reach]

Vendable(c, table) ==
  /\ request[c].plain
  /\ ManagesStorageFor(request[c].ask.on[1], table.at)
  /\ SupportsLocation(Setup.provider, table.at)

LoadForVending(c) ==
  LET i == request[c].ask.on
  IN /\ request[c].phase = "load"
     /\ \/ /\ request[c].ask.form = "create"
           /\ CreateTable(i, request[c].ask.place)
           /\ Found(c, held'[i], IF Vendable(c, held'[i]) THEN "issue-write" ELSE "refused", {})
        \/ /\ request[c].ask.form = "stage"
           /\ StageCreateTable(i, request[c].ask.place)
           /\ Found(c, staged'[i], IF Vendable(c, staged'[i]) THEN "issue-write" ELSE "refused", {})
        \/ /\ request[c].ask.form = "vend" /\ IsTable(i)
           /\ Found(c, held[i], IF Vendable(c, held[i]) THEN "write" ELSE "refused", {})
           /\ UNCHANGED resources
     /\ UNCHANGED <<keyVars, scenario, rights, seen, trail, purged>>

Signs(c, table) ==
  /\ ManagesStorageFor(request[c].ask.on[1], table.at)
  /\ IsVendable(Setup.prefixes, table.at)
  /\ Confine(Addressing(request[c].ask), table.at)

LoadForSigning(c) ==
  LET i == request[c].ask.on
  IN /\ request[c].phase = "load" /\ request[c].ask.form = "sign"
     /\ IsTable(i)
     /\ Found(c, held[i], IF ~Signs(c, held[i]) THEN "refused"
                          ELSE IF IsWrite(request[c].ask) THEN "issue-write" ELSE "issue", {})
     /\ UNCHANGED <<resources, keyVars, scenario, rights, seen, trail, purged>>

Presigns(table) == \A f \in table.files : EnsureOwned(table.at, f) /\ HasObjectUrl(f)

\* The files a plan names are signed for the client that may not have all of the table; one
\* that is not the table's own fails the plan.
LoadForPlan(c) ==
  LET i == request[c].ask.on
      delegated == ~request[c].plain /\ Setup.signing /\ IsVendable(Setup.prefixes, held[i].at)
  IN /\ request[c].phase = "load" /\ request[c].ask.form = "plan"
     /\ IsTable(i)
     /\ Found(c, held[i], IF delegated /\ ~Presigns(held[i]) THEN "refused" ELSE "granted",
              IF delegated THEN held[i].files ELSE {})
     /\ UNCHANGED <<resources, keyVars, scenario, rights, seen, trail, purged>>

\* The name is not a table's, or is taken, or the place is not one it may have.
NotThere(c) ==
  LET ask == request[c].ask
      i   == ask.on
  IN /\ request[c].phase = "load"
     /\ CASE ask.form = "create" -> ~(Ours(i) /\ Accepts(i, ask.place) /\ held[i] = None)
          [] ask.form = "stage"  -> ~(Ours(i) /\ Accepts(i, ask.place) /\ ~IsTable(i))
          [] OTHER               -> ~IsTable(i)
     /\ To(c, "refused")
     /\ UNCHANGED <<resources, keyVars, scenario, rights, seen, trail, purged>>

\* What is issued: it goes out only once the trail has what it must.
Issued(c) ==
  LET write == request[c].phase \in {"issue-write", "exchange-write"}
      reach == IF request[c].ask.form = "sign" THEN S3Reaches(request[c].ask.request)
               ELSE Within(request[c].table.at)
  IN \E kept \in IF write THEN MayKeep ELSE {TRUE} :
       /\ Record(c, "granted", kept)
       /\ request' = [request EXCEPT
            ![c].phase = IF Stops(kept) THEN "refused" ELSE "granted",
            ![c].write = write, ![c].reach = reach]
       /\ UNCHANGED <<resources, rights, seen, purged>>

Issuing(c) == request[c].phase \in {"issue", "issue-write"}

OfAzure(c) == request[c].ask.form # "sign" /\ Setup.provider = "azure"

Issue(c) ==
  /\ Issuing(c)
  /\ request[c].ask.form # "sign" => IsVendable(Setup.prefixes, request[c].table.at)
  /\ Issued(c)
  /\ IF OfAzure(c) THEN SignWithKept(c) ELSE UNCHANGED keyVars

\* A signature of Azure's may need a key first.
Exchange(c) ==
  /\ Issuing(c) /\ OfAzure(c) /\ IsVendable(Setup.prefixes, request[c].table.at)
  /\ StartFetch(c)
  /\ To(c, IF request[c].phase = "issue" THEN "exchange" ELSE "exchange-write")
  /\ UNCHANGED <<resources, scenario, rights, seen, trail, purged>>

Exchanged(c) ==
  /\ request[c].phase \in {"exchange", "exchange-write"}
  /\ FinishFetch(c) /\ Issued(c)

\* Outside what the provider may vend for, or the provider, or a signer, fails.
NotIssued(c) ==
  /\ \/ /\ Issuing(c) /\ request[c].ask.form # "sign"
        /\ ~IsVendable(Setup.prefixes, request[c].table.at)
        /\ UNCHANGED <<keyVars, scenario>>
     \/ /\ Issuing(c) /\ scenario.failures > 0
        /\ scenario' = [scenario EXCEPT !.failures = @ - 1]
        /\ UNCHANGED keyVars
     \/ /\ request[c].phase \in {"exchange", "exchange-write"} /\ scenario.failures > 0
        /\ scenario' = [scenario EXCEPT !.failures = @ - 1]
        /\ FailFetch(c)
  /\ To(c, "refused")
  /\ UNCHANGED <<resources, rights, seen, trail, purged>>

-----------------------------------------------------------------------------
(* What else happens                                                        *)

Edit ==
  /\ scenario.edits > 0
  /\ scenario' = [scenario EXCEPT !.edits = @ - 1]
  /\ UNCHANGED <<keyVars, accessVars>>
  /\ \E i \in Setup.names :
       \/ Changed(i, Setup.places, Setup.files) /\ UNCHANGED purged
       \/ /\ IsTable(i)
          /\ Drop(i)
          /\ purged' = [of |-> i, table |-> held[i], files |-> Deletes(held[i])]

\* Another set of policies is in force, for every client at once.
PolicyChange ==
  /\ scenario.swaps > 0
  /\ scenario' = [scenario EXCEPT !.swaps = @ - 1]
  /\ rights' \in Setup.policies
  /\ seen' = [c \in Client |->
       IF request[c].ask = None THEN {} ELSE seen[c] \cup Worth(rights'[c][request[c].ask.on])]
  /\ UNCHANGED <<resources, keyVars, request, trail, purged>>

Time == Tick /\ Setup.provider = "azure" /\ UNCHANGED <<resources, scenario, accessVars, purged>>

-----------------------------------------------------------------------------
Init ==
  /\ \E name \in DOMAIN Scenarios :
       LET set == Scenarios[name]
       IN scenario = [name |-> name, edits |-> set.edits, swaps |-> set.swaps,
                  requests |-> set.requests, failures |-> set.failures]
  /\ ResourcesInit(Setup.held) /\ scope = Setup.scope
  /\ KeysInit
  /\ rights \in Setup.policies
  /\ request = [c \in Client |-> Idle]
  /\ seen = [c \in Client |-> {}]
  /\ trail = [c \in Client |-> {}]
  /\ purged = None

Next ==
  \/ \E c \in Client :
       \/ \E ask \in Setup.asks : Ask(c, ask)
       \/ RecordDecision(c) \/ AlsoPermits(c)
       \/ LoadForVending(c) \/ LoadForSigning(c) \/ LoadForPlan(c) \/ NotThere(c)
       \/ Issue(c) \/ Exchange(c) \/ Exchanged(c) \/ NotIssued(c)
  \/ Edit \/ PolicyChange \/ Time

Spec == Init /\ [][Next]_vars

-----------------------------------------------------------------------------
(* Properties                                                               *)

\* Under the scope of tables the files of a table or a view live in the place of its name, or
\* of one it had before, whatever was declared, registered, staged, committed and renamed in
\* whatever order (location.rs:408-436): each call only checks a location against the bound
\* of the moment, or against where the resource is by then.
LocationsFollowNames ==
  scope = "table" => \A i \in Ident : Follows(i, held[i]) /\ Follows(i, staged[i])

Entitled(i, r, l) ==
  IF scope = "table" THEN \E n \in r.names : IsWithin(PlaceOf(n), l)
  ELSE IsWithin(WarehouseFor(i[1]), l)

\* What a client can reach with what was issued to it, read the way the storage service reads
\* it, and what a purge deletes, is in the place of a name the table has had: a prefix
\* matches what is beside it, a body and a header name objects of their own, a plan and a
\* table's metadata name files anywhere (sign.rs:583-605, 1188; aws.rs:170; plan.rs:278;
\* purge.rs:263).  Another table's place may be inside that one, so that not only one table
\* is reached, against location.rs:434-436: of a table a.x and a table t in the namespace
\* a.x the second is in wh/a/x/t, inside wh/a/x.
ReachFollowsNames ==
  /\ \A c \in Client : request[c].phase = "granted" =>
       \A o \in request[c].reach : Entitled(request[c].ask.on, request[c].table, o)
  /\ purged # None =>
       \A f \in purged.files : Entitled(purged.of, purged.table, f)

\* Whoever is let at files was, while the request ran, permitted to read all of the table, or,
\* of a plan, to read what the plan has; and was permitted to write it to be let write it,
\* or had just made it.  The two decisions may be of different policies (guard.rs:146).
AccessIsEarned ==
  \A c \in Client : request[c].phase = "granted" =>
    LET form == request[c].ask.form
    IN /\ form \in {"vend", "sign"} => "plain" \in seen[c]
       /\ form = "plan" => "read" \in seen[c]
       /\ request[c].write => (IF form \in {"create", "stage"} THEN "create" ELSE "update") \in seen[c]

\* Where the trail fails closed, no access to write is out that it does not hold
\* (table.rs:276-318, sign.rs:1227-1270).
WriteAccessIsOnRecord ==
  \A c \in Client :
    request[c].phase = "granted" /\ request[c].write /\ Setup.failClosed => "granted" \in trail[c]

\* No signature outlives the key it is made with, however long the key was kept and however
\* slow the exchange was (azure.rs:380), as configured: no longer than the margin.
KeysOutliveAccess == Duration <= KeyRefreshMargin => \A c \in Client : sas[c].end <= sas[c].keyEnd
=============================================================================
