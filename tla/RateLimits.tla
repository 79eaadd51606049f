----------------------------- MODULE RateLimits -----------------------------
(***************************************************************************)
(* What one client may spend (src/auth/rate_limit.rs): a token bucket per  *)
(* client and per tenant, and a count of rejected credentials per client   *)
(* that ends in a ban.  Time is the clock's; an entry of a cache that was  *)
(* idle too long is not there.  The caches' capacity is not modelled.      *)
(***************************************************************************)
EXTENDS Clock

CONSTANTS
  Limiting,                  \* whether limits are enabled
  Bucket, Tenant,            \* a client is an IPv4 address or an IPv6 prefix
  Burst, Rate,               \* per client: capacity, and tokens per tick
  TenantBurst, TenantRate,
  FailLimit, BanTime,
  Hour,                      \* the window failures are counted in, and their cache's idle time
  IdleTime                   \* the buckets' caches' idle time

TokenBucket == [tokens : Nat, at : Nat]
FailureEntry == [failures : Nat, first : Nat, until : Nat \cup {None}, used : Nat]

\* A ban is over before its entry can have been idle too long, and a bucket is full
\* by then: so the code's comments say, and its configuration does not check.
ASSUME RateLimitsAssumption ==
  /\ Limiting \in BOOLEAN
  /\ {Burst, TenantBurst, Hour, IdleTime} \subseteq Nat \ {0}
  /\ {Rate, TenantRate, FailLimit, BanTime} \subseteq Nat
  /\ BanTime <= Hour /\ None \notin TokenBucket \cup FailureEntry
  /\ Burst <= Rate * IdleTime /\ TenantBurst <= TenantRate * IdleTime

VARIABLES
  buckets,    \* per client None, or the tokens left and when they were counted
  tenants,    \* the same per tenant
  failing,    \* per client None, or its entry: failures, the first one's time, the
              \* end of its ban or None, and its last use
  counting    \* per client: the requests about to count a failure on that entry

limitVars == <<buckets, tenants, failing, counting>>

Smaller(m, n) == IF m < n THEN m ELSE n

-----------------------------------------------------------------------------
(* Token buckets                                                           *)

\* The tokens of a bucket by now; one that is not kept is full.
Tokens(bucket, burst, rate) ==
  IF bucket = None \/ now - bucket.at >= IdleTime THEN burst
  ELSE Smaller(burst, bucket.tokens + rate * (now - bucket.at))

\* Bug: what has been added since is not capped.
SpentUncapped(bucket, burst, rate) ==
  LET tokens == IF bucket = None THEN burst ELSE bucket.tokens + rate * (now - bucket.at)
  IN [tokens |-> IF tokens > 0 THEN tokens - 1 ELSE 0, at |-> now]

\* A bucket after a request asked for a token of it.
Spent(bucket, burst, rate) ==
  LET tokens == Tokens(bucket, burst, rate)
  IN [tokens |-> IF tokens > 0 THEN tokens - 1 ELSE 0, at |-> now]

Affords(bucket, burst, rate) == Tokens(bucket, burst, rate) > 0

-----------------------------------------------------------------------------
(* Failures and bans                                                       *)

NewEntry == [failures |-> 0, first |-> now, until |-> None, used |-> now]

\* The entry kept of a client's failures.
Entry(b) == IF failing[b] # None /\ now - failing[b].used < Hour THEN failing[b] ELSE None

Banned(b) == Entry(b) # None /\ Entry(b).until # None /\ now < Entry(b).until

\* Bug: an entry is dropped with its window, a ban in it or not.
LookedInWindow(b) ==
  IF Entry(b) = None \/ now - failing[b].first > Hour THEN None ELSE [failing[b] EXCEPT !.used = now]

\* Asking whether a client is banned uses its entry.
Looked(b) == IF Entry(b) = None THEN failing[b] ELSE [failing[b] EXCEPT !.used = now]

\* A ban, then the client's bucket.
CheckIpLimit(b) == ~Limiting \/ (~Banned(b) /\ Affords(buckets[b], Burst, Rate))

SpendIpToken(b) ==
  IF ~Limiting THEN UNCHANGED <<buckets, failing>>
  ELSE /\ failing' = [failing EXCEPT ![b] = Looked(b)]
       /\ buckets' = IF Banned(b) THEN buckets
                     ELSE [buckets EXCEPT ![b] = Spent(@, Burst, Rate)]

CheckTenantLimit(t) == ~Limiting \/ Affords(tenants[t], TenantBurst, TenantRate)

SpendTenantToken(t) ==
  tenants' = IF Limiting THEN [tenants EXCEPT ![t] = Spent(@, TenantBurst, TenantRate)] ELSE tenants

\* A failure is counted in two steps: the client's entry is taken from the cache, made
\* if it is not there, and then counted on.
TakeEntry(c, b) ==
  IF Limiting
    THEN /\ failing' = [failing EXCEPT ![b] = IF Entry(b) = None THEN NewEntry
                                              ELSE [failing[b] EXCEPT !.used = now]]
         /\ counting' = [counting EXCEPT ![b] = (IF Entry(b) = None THEN {} ELSE @) \cup {c}]
    ELSE UNCHANGED <<failing, counting>>

\* A failure more; the window over, it is the first of the next.
Count(entry) ==
  LET current  == IF now - entry.first > Hour THEN [NewEntry EXCEPT !.used = entry.used] ELSE entry
      failures == current.failures + 1
  IN [current EXCEPT !.failures = failures,
                     !.until = IF failures >= FailLimit THEN now + BanTime ELSE @]

\* On an entry a success has removed since, the failure is counted in vain.
CountFailure(c, b) ==
  /\ failing' = IF c \in counting[b] THEN [failing EXCEPT ![b] = Count(@)] ELSE failing
  /\ counting' = [counting EXCEPT ![b] = @ \ {c}]

\* A success forgets the client's failures, and its ban.
RecordSuccess(b) ==
  IF Limiting
    THEN failing' = [failing EXCEPT ![b] = None] /\ counting' = [counting EXCEPT ![b] = {}]
    ELSE UNCHANGED <<failing, counting>>

LimitsInit ==
  /\ buckets = [b \in Bucket |-> None] /\ tenants = [t \in Tenant |-> None]
  /\ failing = [b \in Bucket |-> None] /\ counting = [b \in Bucket |-> {}]
=============================================================================
