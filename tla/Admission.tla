----------------------------- MODULE Admission ------------------------------
(***************************************************************************)
(* From a request's arrival to its handler (src/auth/middleware.rs): which *)
(* address it is attributed to (remote_ip.rs), what that client may still  *)
(* spend (RateLimits), who it is by the authenticators configured, one     *)
(* after the other (authn.rs, store.rs; the issuer's keys in KeySets), and *)
(* what its tenant may spend.  Requests run at the same time; the host     *)
(* changes API keys, and the issuer its keys, under them.                  *)
(***************************************************************************)
EXTENDS KeySets, RateLimits, Sequences, SequencesExt

CONSTANTS
  Address, Proxy,    \* the addresses there are, and those of trusted proxies
  Unreadable,        \* an entry of the forwarding chain that is no address
  BucketOf,          \* [Address -> Bucket]
  ApiKey, TenantOf,  \* [ApiKey \cup Kid -> Tenant]
  Scenarios          \* the authenticators configured, in the order they are tried; what
                     \* requests come with; and bounds: requests begun, changes of the
                     \* issuer's keys, changes of API keys

\* A credential: none, one that is malformed, a token and the key that signed it, or an
\* API key, which can be sent as a bearer too.
Credential ==
  [kind : {"none", "malformed"}] \cup [kind : {"token"}, kid : Kid, genuine : BOOLEAN]
  \cup [kind : {"key"}, key : ApiKey, bearer : BOOLEAN]

Arrival == [peer : Address, forwarded : Seq(Address \cup {Unreadable}),
            real : Address \cup {None, Unreadable}, with : Credential]

ASSUME AdmissionAssumption ==
  /\ Proxy \subseteq Address /\ Unreadable \notin Address /\ None \notin Address \cup Bucket
  /\ BucketOf \in [Address -> Bucket] /\ TenantOf \in [ApiKey \cup Kid -> Tenant]
  /\ Scenarios \subseteq [mechanisms : {<<>>, <<"jwt">>, <<"key">>, <<"jwt", "key">>},
                           arrivals : SUBSET Arrival,
                           requests : Nat, rotations : Nat, edits : Nat]

VARIABLES
  keys,       \* per API key None, or whether it is enabled and when it expires
  listed,     \* the API keys their prefixes lead to
  updating,   \* an update of a key between its look-up and its write, or None
  deleting,   \* the API keys removed whose prefixes still lead to them
  req,        \* what each client's request is doing
  begun,      \* requests begun so far
  left,       \* the scenario: what requests come with, and what is left of its bounds
  removed,    \* history: per API key, the latest request begun when it was gone
  passed,     \* history: per client and tick, the requests let past its bucket by then
  spent       \* history: the same per tenant

apiKeys == <<keys, listed, updating, deleting, removed>>
history == <<begun, left, passed, spent>>
vars == <<now, keyVars, limitVars, apiKeys, req, history>>

Idle == [phase |-> "idle", with |-> None, from |-> None, arrived |-> None, number |-> 0,
         todo |-> <<>>, errors |-> <<>>, tenant |-> None, expires |-> None]

Mechanisms == left.mechanisms

\* One more by this tick, and by those to come.
OneMore(times) == [tick \in 0..MaxTime |-> IF tick < now THEN times[tick] ELSE times[tick] + 1]

\* The request is answered: with a status, or by its handler.
Answered(c) == req' = [req EXCEPT ![c] = Idle]

-----------------------------------------------------------------------------
(* Arrival                                                                 *)

\* The address a request is attributed to: the last in the chain that is not a trusted
\* proxy's, the first where all are, and nobody's where that entry is unreadable.
ClientAddress(arrival) ==
  LET chain   == Append(arrival.forwarded, arrival.peer)
      outside == {i \in DOMAIN chain : chain[i] \notin Proxy}
      hop     == IF outside = {} THEN 1 ELSE CHOOSE i \in outside : \A j \in outside : j <= i
  IN IF Proxy = {} THEN arrival.peer
     ELSE IF /\ arrival.forwarded = <<>> /\ arrival.peer \in Proxy
             /\ arrival.real \notin {None, Unreadable}
       THEN arrival.real
     ELSE IF chain[hop] = Unreadable THEN None ELSE chain[hop]

\* Nobody's address is neither limited nor banned.
Arrive(c, arrival) ==
  LET from == ClientAddress(arrival)
      b    == BucketOf[from]
  IN /\ req[c].phase = "idle" /\ left.requests > 0
     /\ begun' = begun + 1 /\ left' = [left EXCEPT !.requests = @ - 1]
     /\ IF from = None \/ CheckIpLimit(b)
          THEN req' = [req EXCEPT ![c] = [Idle EXCEPT
                 !.phase = "authenticating", !.with = arrival.with, !.from = from,
                 !.arrived = arrival, !.number = begun + 1, !.todo = Mechanisms]]
          ELSE Answered(c)
     /\ IF from = None
          THEN UNCHANGED <<buckets, failing, passed>>
          ELSE /\ SpendIpToken(b)
               /\ passed' = IF CheckIpLimit(b) THEN [passed EXCEPT ![b] = OneMore(@)] ELSE passed
     /\ UNCHANGED <<now, keyVars, tenants, counting, apiKeys, spent>>

-----------------------------------------------------------------------------
(* Authentication                                                          *)

Trying(c, mechanism) ==
  /\ req[c].phase = "authenticating" /\ req[c].todo # <<>> /\ Head(req[c].todo) = mechanism

\* A mechanism's error is kept unless it found no credential of its kind, and the next
\* is tried.
Fails(c, error) ==
  req' = [req EXCEPT ![c].todo = Tail(@),
                     ![c].errors = IF error = "absent" THEN @ ELSE Append(@, error)]

\* The request's error is the last one kept.
Error(c) == IF req[c].errors = <<>> THEN "absent" ELSE Last(req[c].errors)

Succeeds(c, tenant, expires) ==
  req' = [req EXCEPT ![c].phase = "known", ![c].tenant = tenant, ![c].expires = expires]

\* A bearer that is no token is refused before a key is looked for.
TryToken(c) ==
  LET with == req[c].with
      v    == verifying[c]
  IN /\ Trying(c, "jwt")
     /\ \/ /\ v.phase = "none" /\ with.kind = "token"
           /\ Verify(c, with.kid) /\ UNCHANGED req
        \/ /\ v.phase = "none" /\ with.kind # "token"
           /\ Fails(c, IF with.kind = "none" \/ (with.kind = "key" /\ ~with.bearer)
                       THEN "absent" ELSE "rejected")
           /\ UNCHANGED verifying
        \/ /\ v.phase \in {"verified", "unknown", "fault"}
           /\ IF v.phase = "verified" /\ with.genuine THEN Succeeds(c, TenantOf[with.kid], None)
              ELSE Fails(c, IF v.phase = "fault" THEN "fault" ELSE "rejected")
           /\ verifying' = [verifying EXCEPT ![c] = NoToken]
     /\ UNCHANGED <<now, published, cached, decoding, lastForced, refetches, limitVars,
                    apiKeys, history>>

\* Bug: a key is looked up by its record alone.
FoundUnlisted(k) == keys[k] # None

Found(k) == k \in listed /\ keys[k] # None

\* A bearer token is no API key, and is refused as a malformed one.
TryKey(c) ==
  LET with == req[c].with
      k    == with.key
  IN /\ Trying(c, "key")
     /\ IF with.kind = "none" THEN Fails(c, "absent")
        ELSE IF with.kind # "key" THEN Fails(c, "rejected")
        ELSE IF Found(k) /\ keys[k].enabled /\ now <= keys[k].expires
          THEN Succeeds(c, TenantOf[k], keys[k].expires)
        ELSE Fails(c, "rejected")
     /\ UNCHANGED <<now, keyVars, limitVars, apiKeys, history>>

\* Where nothing is configured everybody is the anonymous principal.
TryNothing(c) ==
  /\ req[c].phase = "authenticating" /\ Mechanisms = <<>>
  /\ \E t \in Tenant : Succeeds(c, t, None)
  /\ UNCHANGED <<now, keyVars, limitVars, apiKeys, history>>

\* The client's failures are forgotten, and the tenant's bucket is asked.
Admit(c) ==
  LET t       == req[c].tenant
      expired == req[c].expires # None /\ now > req[c].expires
  IN /\ req[c].phase = "known"
     /\ IF req[c].from = None THEN UNCHANGED <<failing, counting>>
        ELSE RecordSuccess(BucketOf[req[c].from])
     /\ IF expired
          THEN Answered(c) /\ UNCHANGED <<tenants, spent>>
          ELSE /\ SpendTenantToken(t)
               /\ IF CheckTenantLimit(t)
                    THEN /\ req' = [req EXCEPT ![c].phase = "handled"]
                         /\ spent' = [spent EXCEPT ![t] = OneMore(@)]
                    ELSE Answered(c) /\ UNCHANGED spent
     /\ UNCHANGED <<now, keyVars, buckets, apiKeys, begun, left, passed>>

\* Every mechanism has failed.  A credential that was presented and rejected counts
\* against its client; none, or a fault of the server's, does not.
Refuse(c) ==
  LET counted == Error(c) = "rejected" /\ req[c].from # None
  IN /\ req[c].phase = "authenticating" /\ req[c].todo = <<>> /\ Mechanisms # <<>>
     /\ IF counted /\ Limiting
          THEN req' = [req EXCEPT ![c].phase = "refused"]
          ELSE Answered(c)
     /\ IF counted THEN TakeEntry(c, BucketOf[req[c].from]) ELSE UNCHANGED <<failing, counting>>
     /\ UNCHANGED <<now, keyVars, buckets, tenants, apiKeys, history>>

CountRefusal(c) ==
  /\ req[c].phase = "refused"
  /\ CountFailure(c, BucketOf[req[c].from])
  /\ Answered(c)
  /\ UNCHANGED <<now, keyVars, buckets, tenants, apiKeys, history>>

Respond(c) ==
  /\ req[c].phase = "handled"
  /\ Answered(c)
  /\ UNCHANGED <<now, keyVars, limitVars, apiKeys, history>>

-----------------------------------------------------------------------------
(* The API key store                                                       *)

KeysOnly == UNCHANGED <<now, keyVars, limitVars, req, begun, passed, spent>>

\* A key is disabled or enabled in place.
SetEnabled(k) ==
  /\ keys[k] # None
  /\ keys' = [keys EXCEPT ![k].enabled = ~@]
  /\ UNCHANGED <<listed, updating, deleting, removed>> /\ KeysOnly

\* An update finds the key there, and then writes it as its caller gave it.
BeginUpdate(k) ==
  /\ keys[k] # None /\ updating = None
  /\ updating' = [key |-> k, record |-> [enabled |-> TRUE, expires |-> MaxTime]]
  /\ UNCHANGED <<keys, listed, deleting, removed>> /\ KeysOnly

EndUpdate ==
  /\ updating # None
  /\ keys' = [keys EXCEPT ![updating.key] = updating.record]
  /\ updating' = None
  /\ UNCHANGED <<listed, deleting, removed>> /\ KeysOnly

\* A key is removed, and then its prefix no longer leads to it.
Delete(k) ==
  /\ keys[k] # None
  /\ keys' = [keys EXCEPT ![k] = None]
  /\ deleting' = deleting \cup {k}
  /\ UNCHANGED <<listed, updating, removed>> /\ KeysOnly

Unlist(k) ==
  /\ k \in deleting /\ deleting' = deleting \ {k}
  /\ listed' = listed \ {k}
  /\ removed' = [removed EXCEPT ![k] = begun]
  /\ UNCHANGED <<keys, updating>> /\ KeysOnly

-----------------------------------------------------------------------------
(* The specification                                                       *)

\* A client goes away while its request waits: for the issuer, or in its handler.
Disconnect(c) ==
  /\ req[c].phase = "handled" \/ verifying[c].phase = "fetching"
  /\ Answered(c)
  /\ verifying' = [verifying EXCEPT ![c] = NoToken]
  /\ UNCHANGED <<now, published, cached, decoding, lastForced, refetches, limitVars,
                 apiKeys, history>>

\* A failure is counted within the tick.
Tick ==
  /\ now < MaxTime /\ \A c \in Client : req[c].phase # "refused"
  /\ now' = now + 1
  /\ UNCHANGED <<keyVars, limitVars, apiKeys, req, history>>

Never == [tick \in 0..MaxTime |-> 0]

Init ==
  /\ KeysInit /\ LimitsInit /\ now = 0
  /\ keys = [k \in ApiKey |-> [enabled |-> TRUE, expires |-> MaxTime - 1]]
  /\ listed = ApiKey /\ updating = None /\ deleting = {}
  /\ req = [c \in Client |-> Idle] /\ begun = 0
  /\ left \in Scenarios
  /\ removed = [k \in ApiKey |-> None]
  /\ passed = [b \in Bucket |-> Never] /\ spent = [t \in Tenant |-> Never]

Authenticate(c) ==
  \/ TryToken(c) \/ TryKey(c) \/ TryNothing(c)
  \/ FindKey(c) /\ UNCHANGED <<limitVars, apiKeys, req, history>>

ChangeKeys ==
  \/ /\ left.edits > 0 /\ left' = [left EXCEPT !.edits = @ - 1]
     /\ \E k \in ApiKey : SetEnabled(k) \/ BeginUpdate(k) \/ Delete(k)
  \/ UNCHANGED left /\ (EndUpdate \/ \E k \in ApiKey : Unlist(k))

RotateKeys ==
  /\ left.rotations > 0 /\ left' = [left EXCEPT !.rotations = @ - 1]
  /\ Publish
  /\ UNCHANGED <<limitVars, apiKeys, req, begun, passed, spent>>

Next ==
  \/ \E c \in Client :
       \/ \E arrival \in left.arrivals : Arrive(c, arrival)
       \/ Authenticate(c) \/ Admit(c) \/ Refuse(c) \/ CountRefusal(c)
       \/ Respond(c) \/ Disconnect(c)
  \/ ChangeKeys
  \/ RotateKeys
  \/ Tick

Spec == Init /\ [][Next]_vars

-----------------------------------------------------------------------------
(* Properties                                                              *)

\* How often from one tick to another, both included.
Within(times, i, j) == times[j] - (IF i = 0 THEN 0 ELSE times[i - 1])

\* However many requests ask at once, and whatever the caches forget, no client and no
\* tenant is let through more often in any stretch of time than its burst and the time
\* passed allow.
AllowanceHolds ==
  Limiting => \A j \in 0..now : \A i \in 0..j :
    /\ \A b \in Bucket : Within(passed[b], i, j) <= Burst + Rate * (j - i)
    /\ \A t \in Tenant : Within(spent[t], i, j) <= TenantBurst + TenantRate * (j - i)

Of(c, b) == req[c].from # None /\ BucketOf[req[c].from] = b

\* A ban stands until it is over, the client's entry of failures idle or not, unless one
\* of the client's requests succeeds, or fails after the window its failures were
\* counted in; and while it stands none of the client's requests is let through.
BansHold ==
  [][\A b \in Bucket : Banned(b) =>
       /\ passed'[b] = passed[b]
       /\ \/ Banned(b)' \/ now' >= failing[b].until
          \/ \E c \in Client : Of(c, b) /\ req[c].phase = "known" /\ req'[c].phase # "known"
          \/ /\ now - failing[b].first > Hour
             /\ \E c \in Client : Of(c, b) /\ req[c].phase = "refused"]_vars

\* A request begun after an API key was deleted is not let in with it, although the
\* store's maps change one after the other and an update may write the key back.  A server
\* without authenticators lets everybody in, and no key does.
DeletedKeysAdmitNobody ==
  [][\A c \in Client : req[c].phase = "authenticating" /\ req'[c].phase = "known" =>
       (req[c].with.kind = "key" /\ Mechanisms # <<>> =>
          LET gone == removed[req[c].with.key] IN gone = None \/ gone >= req[c].number)]_vars

\* Tokens that name unknown keys, however many at once, cause no more fetches of their
\* own than one per interval.
RefetchesAreSpaced == refetches * RefetchInterval <= now + RefetchInterval
=============================================================================
