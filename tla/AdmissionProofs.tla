-------------------------- MODULE AdmissionProofs --------------------------
(***************************************************************************)
(* What holds of admission for any number of clients, addresses, tenants   *)
(* and keys, any limits and any clock: allowances, bans, deleted API keys  *)
(* and fetches of the issuer's keys.                                       *)
(***************************************************************************)
EXTENDS Admission, SequenceTheorems, WellFoundedInduction, TLAPS

-----------------------------------------------------------------------------
(* A bucket and what was let past it                                       *)

\* What a bucket holds and what it has let past are within the allowance, over every
\* stretch that ends when its tokens were last counted; nothing was let past since.
\* A bucket that is not kept has let nothing past.
Ledger(bucket, times, burst, rate, n) ==
  /\ times \in [0..MaxTime -> Nat]
  /\ bucket \in TokenBucket \cup {None}
  /\ bucket = None => \A t \in 0..MaxTime : times[t] = 0
  /\ bucket # None =>
       /\ bucket.at <= n /\ bucket.tokens <= burst
       /\ \A t \in bucket.at..MaxTime : times[t] = times[bucket.at]
       /\ \A i \in 0..bucket.at :
            Within(times, i, bucket.at) + bucket.tokens <= burst + rate * (bucket.at - i)
  /\ \A j \in 0..n : \A i \in 0..j : Within(times, i, j) <= burst + rate * (j - i)

\* What has accrued over a stretch.
LEMMA Accrued ==
  ASSUME NEW burst \in Nat, NEW rate \in Nat, NEW j \in Nat, NEW i \in 0..j
  PROVE  /\ rate * (j - i) \in Nat /\ burst + rate * (j - i) \in Nat
         /\ rate * (j + 1 - i) = rate * (j - i) + rate
<1>1. j - i \in Nat /\ j + 1 - i = (j - i) + 1
  OBVIOUS
<1>2. rate * (j - i) \in Nat
  BY <1>1
<1>3. rate * ((j - i) + 1) = rate * (j - i) + rate
  BY <1>1
<1> QED BY <1>1, <1>2, <1>3

LEMMA WithinType ==
  ASSUME NEW times \in [0..MaxTime -> Nat], NEW j \in 0..MaxTime, NEW i \in 0..j
  PROVE  /\ Within(times, i, j) \in Int
         /\ i = 0 => Within(times, i, j) = times[j]
         /\ i # 0 => /\ i - 1 \in 0..MaxTime /\ i - 1 < j
                     /\ Within(times, i, j) = times[j] - times[i - 1]
  BY ClockAssumption DEF Within

\* What a bucket may still let past is part of the allowance too, the bucket kept or
\* forgotten: one that is forgotten would be full.
LEMMA TokensLedger ==
  ASSUME now \in 0..MaxTime, NEW bucket, NEW times, NEW burst \in Nat, NEW rate \in Nat,
         burst <= rate * IdleTime, IdleTime \in Nat,
         Ledger(bucket, times, burst, rate, now)
  PROVE  /\ Tokens(bucket, burst, rate) \in 0..burst
         /\ \A i \in 0..now :
              Within(times, i, now) + Tokens(bucket, burst, rate) <= burst + rate * (now - i)
<1> DEFINE T == Tokens(bucket, burst, rate)
<1>0. /\ times \in [0..MaxTime -> Nat] /\ now \in Nat /\ 0..now \subseteq 0..MaxTime
      /\ MaxTime \in Nat
  BY ClockAssumption DEF Ledger
<1>1. CASE bucket = None
  <2>1. T = burst
    BY <1>1 DEF Tokens
  <2>2. ASSUME NEW i \in 0..now PROVE Within(times, i, now) = 0 /\ rate * (now - i) \in Nat
    <3>1. \A t \in 0..MaxTime : times[t] = 0
      BY <1>1 DEF Ledger
    <3>2. now - i \in Nat /\ now \in 0..MaxTime /\ (i # 0 => i - 1 \in 0..MaxTime)
      BY <1>0
    <3>3. Within(times, i, now) = 0
      BY <3>1, <3>2 DEF Within
    <3>4. rate * (now - i) \in Nat
      BY <3>2
    <3> QED BY <3>3, <3>4
  <2> QED BY <2>1, <2>2
<1>2. CASE bucket # None
  <2> DEFINE at == bucket.at
             tokens == bucket.tokens
  <2>1. /\ at \in 0..now /\ tokens \in 0..burst
        /\ \A t \in at..MaxTime : times[t] = times[at]
        /\ \A i \in 0..at : Within(times, i, at) + tokens <= burst + rate * (at - i)
    BY <1>0, <1>2 DEF Ledger, TokenBucket
  <2> HIDE DEF at, tokens
  <2>2. T = IF now - at >= IdleTime THEN burst ELSE Smaller(burst, tokens + rate * (now - at))
    BY <1>2 DEF Tokens, at, tokens
  <2>3. rate * (now - at) \in Nat /\ now - at \in Nat
    BY <1>0, <2>1
  <2>4. /\ T \in 0..burst
        /\ now - at < IdleTime => T <= tokens + rate * (now - at)
    <3> DEFINE grown == rate * (now - at)
    <3>1. /\ grown \in Nat /\ tokens \in Nat
          /\ T = IF now - at >= IdleTime THEN burst
                 ELSE IF burst < tokens + grown THEN burst ELSE tokens + grown
      BY <2>1, <2>2, <2>3 DEF Smaller
    <3> HIDE DEF grown, T
    <3>2. T \in 0..burst /\ (now - at < IdleTime => T <= tokens + grown)
      BY <2>3, <3>1
    <3> QED BY <3>2 DEF grown
  <2>5. now - at >= IdleTime => burst <= rate * (now - at)
    <3>1. SUFFICES ASSUME now - at >= IdleTime PROVE rate * IdleTime <= rate * (now - at)
      BY <2>3
    <3> QED BY <2>3, <3>1
  <2>6. ASSUME NEW i \in 0..now PROVE Within(times, i, now) + T <= burst + rate * (now - i)
    <3>1. CASE i <= at
      <4>1. times[now] = times[at] /\ i \in 0..at /\ at \in 0..MaxTime
        BY <1>0, <2>1, <3>1
      <4>2. Within(times, i, now) = Within(times, i, at) /\ Within(times, i, at) \in Int
        BY <1>0, <4>1, WithinType DEF Within
      <4>3. Within(times, i, at) + tokens <= burst + rate * (at - i)
        BY <2>1, <4>1
      <4>4. /\ rate * (now - i) = rate * (now - at) + rate * (at - i)
            /\ rate * (at - i) \in Nat
        BY <1>0, <2>1, <4>1
      <4> QED
        BY <1>0, <2>1, <2>3, <2>4, <2>5, <4>2, <4>3, <4>4
    <3>2. CASE at < i
      <4>1. i - 1 \in at..MaxTime /\ now \in at..MaxTime /\ i # 0
        BY <1>0, <2>1, <3>2
      <4>2. times[i - 1] = times[at] /\ times[now] = times[at] /\ times[at] \in Nat
        BY <1>0, <2>1, <4>1
      <4>3. Within(times, i, now) = 0
        BY <4>1, <4>2 DEF Within
      <4>4. rate * (now - i) \in Nat
        BY <1>0
      <4> QED BY <2>4, <4>3, <4>4
    <3> QED BY <1>0, <2>1, <3>1, <3>2
  <2> QED BY <2>4, <2>6
<1> QED BY <1>1, <1>2

\* Asking for a token keeps the ledger, one more let past where there was one.
LEMMA SpendLedger ==
  ASSUME now \in 0..MaxTime, NEW bucket, NEW times, NEW burst \in Nat, NEW rate \in Nat,
         burst <= rate * IdleTime, IdleTime \in Nat,
         Ledger(bucket, times, burst, rate, now)
  PROVE  Ledger(Spent(bucket, burst, rate),
                IF Affords(bucket, burst, rate) THEN OneMore(times) ELSE times,
                burst, rate, now)
<1> DEFINE T == Tokens(bucket, burst, rate)
           next == Spent(bucket, burst, rate)
           more == IF T > 0 THEN OneMore(times) ELSE times
<1>1. /\ T \in 0..burst
      /\ \A i \in 0..now : Within(times, i, now) + T <= burst + rate * (now - i)
  BY TokensLedger
<1>2. next = [tokens |-> IF T > 0 THEN T - 1 ELSE 0, at |-> now]
  BY DEF Spent
<1>3. more = IF Affords(bucket, burst, rate) THEN OneMore(times) ELSE times
  BY DEF Affords
<1> HIDE DEF T, next
<1>4. /\ now \in Nat /\ MaxTime \in Nat /\ 0..now \subseteq 0..MaxTime
      /\ times \in [0..MaxTime -> Nat]
      /\ \A j \in 0..now : \A i \in 0..j : Within(times, i, j) <= burst + rate * (j - i)
      /\ \A t \in now..MaxTime : times[t] = times[now]
  <2>1. CASE bucket = None
    <3>1. \A t \in now..MaxTime : t \in 0..MaxTime
      BY ClockAssumption
    <3> QED BY <2>1, <3>1, ClockAssumption DEF Ledger
  <2>2. CASE bucket # None
    <3>1. bucket.at \in 0..now /\ \A t \in bucket.at..MaxTime : times[t] = times[bucket.at]
      BY <2>2 DEF Ledger, TokenBucket
    <3>2. \A t \in now..MaxTime : t \in bucket.at..MaxTime /\ now \in bucket.at..MaxTime
      BY <3>1, ClockAssumption
    <3>3. \A t \in now..MaxTime : times[t] = times[now]
      BY <3>1, <3>2
    <3> QED BY <3>3, ClockAssumption DEF Ledger
  <2> QED BY <2>1, <2>2
<1>5. /\ next \in TokenBucket /\ next # None /\ next.at = now
      /\ next.tokens = (IF T > 0 THEN T - 1 ELSE 0) /\ next.tokens <= burst
  <2>1. (IF T > 0 THEN T - 1 ELSE 0) \in 0..burst
    BY <1>1
  <2>2. next \in TokenBucket
    BY <1>2, <1>4, <2>1 DEF TokenBucket
  <2> QED BY <1>2, <2>1, <2>2, RateLimitsAssumption
<1>6. /\ more \in [0..MaxTime -> Nat]
      /\ \A t \in 0..MaxTime : t < now => more[t] = times[t]
      /\ \A t \in now..MaxTime : more[t] = times[now] + (IF T > 0 THEN 1 ELSE 0)
  BY <1>1, <1>4 DEF OneMore
<1> HIDE DEF more
<1>7. \A i \in 0..now : Within(more, i, now) = Within(times, i, now) + (IF T > 0 THEN 1 ELSE 0)
  <2> SUFFICES ASSUME NEW i \in 0..now
               PROVE  Within(more, i, now) = Within(times, i, now) + (IF T > 0 THEN 1 ELSE 0)
    OBVIOUS
  <2>1. more[now] = times[now] + (IF T > 0 THEN 1 ELSE 0) /\ times[now] \in Nat
    BY <1>4, <1>6
  <2>2. i # 0 => more[i - 1] = times[i - 1] /\ times[i - 1] \in Nat
    BY <1>4, <1>6
  <2> QED BY <2>1, <2>2 DEF Within
<1>8. \A i \in 0..now : Within(more, i, now) + next.tokens <= burst + rate * (now - i)
  <2> SUFFICES ASSUME NEW i \in 0..now
               PROVE  Within(more, i, now) + next.tokens <= burst + rate * (now - i)
    OBVIOUS
  <2> DEFINE may == burst + rate * (now - i)
  <2>1. Within(times, i, now) + T <= may /\ may \in Nat
    <3>1. may \in Nat
      BY <1>4, Accrued
    <3> QED BY <1>1, <3>1
  <2>2. Within(times, i, now) \in Int
    BY <1>4, WithinType
  <2> HIDE DEF may
  <2>3. Within(more, i, now) + next.tokens <= may
    BY <1>1, <1>5, <1>7, <2>1, <2>2
  <2> QED BY <2>3 DEF may
<1>9. \A j \in 0..now : \A i \in 0..j : Within(more, i, j) <= burst + rate * (j - i)
  <2> SUFFICES ASSUME NEW j \in 0..now, NEW i \in 0..j
               PROVE  Within(more, i, j) <= burst + rate * (j - i)
    OBVIOUS
  <2> DEFINE may == burst + rate * (j - i)
  <2>0. may \in Nat
    <3>1. j \in Nat
      BY <1>4
    <3> QED BY <3>1, Accrued
  <2>1. CASE j = now
    <3>1. Within(more, i, now) + next.tokens <= may
      BY <1>8, <2>1
    <3>2. Within(more, i, now) \in Int /\ next.tokens \in Nat
      BY <1>4, <1>5, <1>6, <2>1, WithinType DEF TokenBucket
    <3> HIDE DEF may
    <3>3. Within(more, i, j) <= may
      BY <2>0, <2>1, <3>1, <3>2
    <3> QED BY <3>3 DEF may
  <2>2. CASE j < now
    <3>1. more[j] = times[j] /\ (i # 0 => more[i - 1] = times[i - 1])
      BY <1>4, <1>6, <2>2
    <3>2. Within(more, i, j) = Within(times, i, j)
      BY <3>1 DEF Within
    <3> QED BY <1>4, <3>2
  <2> QED BY <1>4, <2>1, <2>2
<1>10. \A t \in next.at..MaxTime : more[t] = more[next.at]
  BY <1>4, <1>5, <1>6
<1>11. Ledger(next, more, burst, rate, now)
  BY <1>4, <1>5, <1>6, <1>8, <1>9, <1>10 DEF Ledger
<1> QED
  BY <1>3, <1>11 DEF next

\* A tick keeps the ledger: over it nothing was let past.
LEMMA TickLedger ==
  ASSUME now \in 0..MaxTime, now < MaxTime,
         NEW bucket, NEW times, NEW burst \in Nat, NEW rate \in Nat,
         Ledger(bucket, times, burst, rate, now)
  PROVE  Ledger(bucket, times, burst, rate, now + 1)
<1>1. /\ now \in Nat /\ MaxTime \in Nat /\ now + 1 \in 0..MaxTime
      /\ times \in [0..MaxTime -> Nat]
  BY ClockAssumption DEF Ledger
<1>2. times[now + 1] = times[now]
  <2>1. CASE bucket = None
    BY <1>1, <2>1 DEF Ledger
  <2>2. CASE bucket # None
    <3>1. bucket.at \in 0..now /\ \A t \in bucket.at..MaxTime : times[t] = times[bucket.at]
      BY <2>2 DEF Ledger, TokenBucket
    <3>2. now \in bucket.at..MaxTime /\ now + 1 \in bucket.at..MaxTime
      BY <1>1, <3>1
    <3> QED BY <3>1, <3>2
  <2> QED BY <2>1, <2>2
<1>3. ASSUME NEW i \in 0..(now + 1)
      PROVE  Within(times, i, now + 1) <= burst + rate * (now + 1 - i)
  <2>1. CASE i = now + 1
    <3>1. Within(times, i, now + 1) = 0
      <4>1. i # 0 /\ i - 1 = now /\ times[now] \in Nat
        BY <1>1, <2>1
      <4> QED BY <1>2, <4>1 DEF Within
    <3>2. rate * (now + 1 - i) = 0
      BY <1>1, <2>1
    <3> QED BY <3>1, <3>2
  <2>2. CASE i \in 0..now
    <3>1. Within(times, i, now + 1) = Within(times, i, now) /\ Within(times, i, now) \in Int
      BY <1>1, <1>2, <2>2, WithinType DEF Within
    <3>2. Within(times, i, now) <= burst + rate * (now - i)
      BY <1>1, <2>2 DEF Ledger
    <3> DEFINE accrued == rate * (now - i)
    <3>3. rate * (now + 1 - i) = accrued + rate /\ accrued \in Nat
      BY <1>1, <2>2, Accrued
    <3> HIDE DEF accrued
    <3>4. Within(times, i, now) <= burst + accrued
      BY <3>2 DEF accrued
    <3>5. Within(times, i, now) <= burst + (accrued + rate)
      BY <3>1, <3>3, <3>4
    <3> QED BY <3>1, <3>3, <3>5
  <2> QED BY <1>1, <2>1, <2>2
<1>4. \A j \in 0..(now + 1) : \A i \in 0..j : Within(times, i, j) <= burst + rate * (j - i)
  <2> SUFFICES ASSUME NEW j \in 0..(now + 1), NEW i \in 0..j
               PROVE  Within(times, i, j) <= burst + rate * (j - i)
    OBVIOUS
  <2>1. CASE j = now + 1
    BY <1>3, <2>1
  <2>2. CASE j # now + 1
    <3>1. j \in 0..now
      BY <1>1, <2>2
    <3> QED BY <3>1 DEF Ledger
  <2> QED BY <2>1, <2>2
<1>5. bucket # None => bucket.at <= now + 1
  BY <1>1 DEF Ledger, TokenBucket
<1> QED
  BY <1>4, <1>5 DEF Ledger

-----------------------------------------------------------------------------
(* The inductive invariant                                                 *)

Phase == {"idle", "authenticating", "known", "refused", "handled"}

Request ==
  [phase : Phase, with : Credential \cup {None}, from : Address \cup {None},
   arrived : Arrival \cup {None}, number : Nat, todo : Seq({"jwt", "key"}),
   errors : Seq({"rejected", "fault"}), tenant : Tenant \cup {None}, expires : Nat \cup {None}]

TokenPhase == {"none", "looking", "fetching", "fetched", "found", "unknown", "verified", "fault"}

TokenState ==
  [phase : TokenPhase, kid : Kid \cup {None}, forced : BOOLEAN, set : SUBSET Kid]

KeyRecord == [enabled : BOOLEAN, expires : Nat]

Scenario == [mechanisms : {<<>>, <<"jwt">>, <<"key">>, <<"jwt", "key">>},
             arrivals : SUBSET Arrival, requests : Nat, rotations : Nat, edits : Nat]

IssuerType ==
  /\ published \subseteq Kid /\ lastForced \in Nat \cup {None} /\ refetches \in Nat
  /\ verifying \in [Client -> TokenState]

LimitsType ==
  /\ failing \in [Bucket -> FailureEntry \cup {None}] /\ counting \in [Bucket -> SUBSET Client]
  /\ buckets \in [Bucket -> TokenBucket \cup {None}]
  /\ tenants \in [Tenant -> TokenBucket \cup {None}]
  /\ passed \in [Bucket -> [0..MaxTime -> Nat]] /\ spent \in [Tenant -> [0..MaxTime -> Nat]]

StoreType ==
  /\ keys \in [ApiKey -> KeyRecord \cup {None}] /\ listed \subseteq ApiKey
  /\ updating \in [key : ApiKey, record : KeyRecord] \cup {None}
  /\ removed \in [ApiKey -> Nat \cup {None}]

RequestType == req \in [Client -> Request] /\ begun \in Nat /\ left \in Scenario

TypeOK == now \in 0..MaxTime /\ IssuerType /\ LimitsType /\ StoreType /\ RequestType

\* Each fetch for an unknown key took its turn, and the last one's is kept.
Spaced ==
  IF lastForced = None THEN refetches = 0
  ELSE lastForced <= now /\ refetches * RefetchInterval <= lastForced + RefetchInterval

\* A key is looked for only for a token whose mechanism is being tried.
Looking(c) ==
  /\ req[c].phase = "authenticating" => req[c].with \in Credential
  /\ Mechanisms = <<>> => req[c].todo = <<>>
  /\ verifying[c].phase # "none" => Trying(c, "jwt") /\ req[c].with.kind = "token"

\* A key that is gone is found by no prefix any more.
Gone(k) == removed[k] # None => k \notin listed

\* A client's failures: an entry whose ban ends in time, and the requests about to count
\* on it, within the tick in which they took it.
Failures(b) ==
  /\ ~Limiting => failing[b] = None
  /\ failing[b] # None => failing[b].used <= now
  /\ failing[b] # None /\ failing[b].until # None =>
       failing[b].until <= failing[b].used + BanTime
  /\ \A c \in counting[b] :
       /\ req[c].phase = "refused" /\ Of(c, b)
       /\ failing[b] # None /\ failing[b].used = now

Ledgers ==
  Limiting => /\ \A b \in Bucket : Ledger(buckets[b], passed[b], Burst, Rate, now)
              /\ \A t \in Tenant : Ledger(tenants[t], spent[t], TenantBurst, TenantRate, now)

AdmissionInv ==
  /\ TypeOK /\ Spaced /\ Ledgers
  /\ \A c \in Client : Looking(c)
  /\ \A k \in ApiKey : Gone(k)
  /\ \A b \in Bucket : Failures(b)

-----------------------------------------------------------------------------
(* What a request becomes                                                  *)

LEMMA IdleType ==
  /\ Idle \in Request /\ Idle.phase = "idle" /\ Idle.todo = <<>> /\ Idle.with = None
<1>1. <<>> \in Seq({"jwt", "key"}) /\ <<>> \in Seq({"rejected", "fault"})
  OBVIOUS
<1> QED BY <1>1 DEF Idle, Request, Phase

LEMMA MechanismsType ==
  ASSUME left \in Scenario
  PROVE  Mechanisms \in Seq({"jwt", "key"})
<1>1. /\ <<>> \in Seq({"jwt", "key"}) /\ <<"jwt">> \in Seq({"jwt", "key"})
      /\ <<"key">> \in Seq({"jwt", "key"}) /\ <<"jwt", "key">> \in Seq({"jwt", "key"})
  OBVIOUS
<1> QED BY <1>1 DEF Scenario, Mechanisms

LEMMA CredentialKinds ==
  ASSUME NEW with \in Credential
  PROVE  /\ with.kind = "token" => with.kid \in Kid
         /\ with.kind = "key" => with.key \in ApiKey
  BY DEF Credential

LEMMA AnsweredFacts ==
  ASSUME RequestType, NEW c \in Client, Answered(c)
  PROVE  /\ req' \in [Client -> Request]
         /\ req'[c].phase = "idle" /\ req'[c].todo = <<>>
         /\ \A d \in Client \ {c} : req'[d] = req[d]
<1>1. req \in [Client -> Request] /\ req' = [req EXCEPT ![c] = Idle]
  BY DEF RequestType, Answered
<1> HIDE DEF Request
<1>2. req'[c] = Idle /\ req' \in [Client -> Request] /\ \A d \in Client \ {c} : req'[d] = req[d]
  BY <1>1, IdleType
<1> QED BY <1>2, IdleType

LEMMA FailsFacts ==
  ASSUME RequestType, NEW c \in Client, NEW error \in {"absent", "rejected", "fault"},
         req[c].todo # <<>>, Fails(c, error)
  PROVE  /\ req' \in [Client -> Request]
         /\ req'[c].phase = req[c].phase /\ req'[c].with = req[c].with
         /\ \A d \in Client \ {c} : req'[d] = req[d]
<1> DEFINE r == req[c]
           errors == IF error = "absent" THEN r.errors ELSE Append(r.errors, error)
           next == [r EXCEPT !.todo = Tail(r.todo), !.errors = errors]
<1>1. r \in Request /\ req \in [Client -> Request]
  BY DEF RequestType
<1>2. Tail(r.todo) \in Seq({"jwt", "key"}) /\ errors \in Seq({"rejected", "fault"})
  BY <1>1 DEF Request
<1>3. /\ next \in Request /\ next.phase = r.phase /\ next.with = r.with
  BY <1>1, <1>2 DEF Request
<1>4. req' = [req EXCEPT ![c] = next]
  BY <1>1 DEF Fails, Request
<1> HIDE DEF next, r, Request
<1>5. req'[c] = next /\ req' \in [Client -> Request] /\ \A d \in Client \ {c} : req'[d] = req[d]
  BY <1>1, <1>3, <1>4
<1> QED BY <1>3, <1>5 DEF r

LEMMA SucceedsFacts ==
  ASSUME RequestType, NEW c \in Client, NEW tenant \in Tenant, NEW expires \in Nat \cup {None},
         Succeeds(c, tenant, expires)
  PROVE  /\ req' \in [Client -> Request]
         /\ req'[c].phase = "known" /\ req'[c].todo = req[c].todo
         /\ \A d \in Client \ {c} : req'[d] = req[d]
<1> DEFINE r == req[c]
           next == [r EXCEPT !.phase = "known", !.tenant = tenant, !.expires = expires]
<1>1. r \in Request /\ req \in [Client -> Request]
  BY DEF RequestType
<1>2. next \in Request /\ next.phase = "known" /\ next.todo = r.todo
  BY <1>1 DEF Request, Phase
<1>3. req' = [req EXCEPT ![c] = next]
  BY <1>1 DEF Succeeds, Request
<1> HIDE DEF next, r, Request
<1>4. req'[c] = next /\ req' \in [Client -> Request] /\ \A d \in Client \ {c} : req'[d] = req[d]
  BY <1>1, <1>2, <1>3
<1> QED BY <1>2, <1>4 DEF r

LEMMA PhaseFacts ==
  ASSUME RequestType, NEW c \in Client, NEW phase \in Phase,
         req' = [req EXCEPT ![c].phase = phase]
  PROVE  /\ req' \in [Client -> Request]
         /\ req'[c].phase = phase /\ req'[c].todo = req[c].todo
         /\ req'[c].from = req[c].from /\ req'[c].with = req[c].with
         /\ \A d \in Client \ {c} : req'[d] = req[d]
<1> DEFINE r == req[c]
           next == [r EXCEPT !.phase = phase]
<1>1. r \in Request /\ req \in [Client -> Request]
  BY DEF RequestType
<1>2. /\ next \in Request /\ next.phase = phase /\ next.todo = r.todo
      /\ next.from = r.from /\ next.with = r.with
  BY <1>1 DEF Request
<1>3. req' = [req EXCEPT ![c] = next]
  BY <1>1 DEF Request
<1> HIDE DEF next, r, Request
<1>4. req'[c] = next /\ req' \in [Client -> Request] /\ \A d \in Client \ {c} : req'[d] = req[d]
  BY <1>1, <1>2, <1>3
<1> QED BY <1>2, <1>4 DEF r

LEMMA TokenFacts ==
  ASSUME IssuerType, NEW c \in Client, NEW v \in TokenState,
         verifying' = [verifying EXCEPT ![c] = v]
  PROVE  /\ verifying' \in [Client -> TokenState] /\ verifying'[c] = v
         /\ \A d \in Client \ {c} : verifying'[d] = verifying[d]
<1> HIDE DEF TokenState
<1> QED BY DEF IssuerType

Below == {p \in Nat \X Nat : p[1] < p[2]}

\* A set of positions has a greatest: the least number that none of them exceeds.
LEMMA Greatest ==
  ASSUME NEW n \in Nat, NEW Q \in SUBSET (1..n), Q # {}
  PROVE  \E i \in Q : \A j \in Q : j <= i
<1> DEFINE T == {m \in Nat : \A q \in Q : q <= m}
<1>1. IsWellFoundedOn(Below, Nat)
  BY NatLessThanWellFounded DEF OpToRel, Below
<1>2. n \in T /\ T \subseteq Nat
  OBVIOUS
<1>3. PICK m \in T : \A k \in T : <<k, m>> \notin Below
  <2> HIDE DEF T
  <2> QED BY <1>1, <1>2, WFMin
<1>4. m \in Nat /\ \A q \in Q : q <= m
  OBVIOUS
<1>5. CASE m \in Q
  BY <1>4, <1>5
<1>6. CASE m \notin Q
  <2>1. \A q \in Q : q \in Nat /\ q >= 1 /\ q # m
    BY <1>6
  <2>2. m - 1 \in Nat /\ \A q \in Q : q <= m - 1
    <3>0. PICK p \in Q : TRUE
      OBVIOUS
    <3>1. m >= 1
      BY <1>4, <2>1, <3>0
    <3>2. ASSUME NEW q \in Q PROVE q <= m - 1
      BY <1>4, <2>1
    <3> HIDE DEF T
    <3> QED BY <1>4, <3>1, <3>2
  <2>3. m - 1 \in T /\ <<m - 1, m>> \in Below
    BY <1>4, <2>2 DEF Below
  <2> QED BY <1>3, <2>3
<1> QED BY <1>5, <1>6

LEMMA ClientAddressType ==
  ASSUME NEW arrival \in Arrival
  PROVE  ClientAddress(arrival) \in Address \cup {None}
<1> DEFINE chain   == Append(arrival.forwarded, arrival.peer)
           outside == {i \in DOMAIN chain : chain[i] \notin Proxy}
           hop     == IF outside = {} THEN 1 ELSE CHOOSE i \in outside : \A j \in outside : j <= i
<1>1. /\ arrival.peer \in Address /\ arrival.forwarded \in Seq(Address \cup {Unreadable})
      /\ arrival.real \in Address \cup {None, Unreadable}
  BY DEF Arrival
<1>2. /\ chain \in Seq(Address \cup {Unreadable}) /\ Len(chain) \in Nat /\ Len(chain) >= 1
      /\ DOMAIN chain = 1..Len(chain)
  BY <1>1
<1>3. ClientAddress(arrival) =
        IF Proxy = {} THEN arrival.peer
        ELSE IF /\ arrival.forwarded = <<>> /\ arrival.peer \in Proxy
                /\ arrival.real \notin {None, Unreadable}
          THEN arrival.real
        ELSE IF chain[hop] = Unreadable THEN None ELSE chain[hop]
  BY DEF ClientAddress
<1> HIDE DEF chain
<1>5. hop \in DOMAIN chain
  <2>1. CASE outside = {}
    BY <1>2, <2>1
  <2>2. CASE outside # {}
    <3>1. outside \in SUBSET (1..Len(chain))
      BY <1>2
    <3> HIDE DEF outside
    <3>2. \E i \in outside : \A j \in outside : j <= i
      BY <1>2, <2>2, <3>1, Greatest
    <3>3. hop \in outside
      BY <2>2, <3>2
    <3> QED BY <1>2, <3>1, <3>3
  <2> QED BY <2>1, <2>2
<1> HIDE DEF hop
<1>6. chain[hop] \in Address \cup {Unreadable}
  BY <1>2, <1>5
<1> QED BY <1>1, <1>3, <1>6

-----------------------------------------------------------------------------
(* The issuer's keys                                                       *)

LEMMA TokenPhaseFacts ==
  ASSUME IssuerType, NEW c \in Client, NEW phase \in TokenPhase,
         \/ verifying' = [verifying EXCEPT ![c].phase = phase]
         \/ verifying' = [verifying EXCEPT ![c].phase = phase, ![c].forced = TRUE]
         \/ verifying' = [verifying EXCEPT ![c].phase = phase, ![c].set = published]
  PROVE  /\ verifying' \in [Client -> TokenState] /\ verifying'[c].phase = phase
         /\ \A d \in Client \ {c} : verifying'[d] = verifying[d]
<1> DEFINE v == verifying[c]
           v1 == [v EXCEPT !.phase = phase]
           v2 == [v EXCEPT !.phase = phase, !.forced = TRUE]
           v3 == [v EXCEPT !.phase = phase, !.set = published]
<1>1. v \in TokenState /\ published \in SUBSET Kid
  BY DEF IssuerType
<1>2. v1 \in TokenState /\ v2 \in TokenState /\ v3 \in TokenState
  BY <1>1 DEF TokenState
<1>3. v1.phase = phase /\ v2.phase = phase /\ v3.phase = phase
  BY <1>1 DEF TokenState
<1>4. \E w \in {v1, v2, v3} : verifying' = [verifying EXCEPT ![c] = w]
  BY <1>1 DEF IssuerType, TokenState
<1> HIDE DEF v, v1, v2, v3
<1>5. PICK w \in {v1, v2, v3} : verifying' = [verifying EXCEPT ![c] = w]
  BY <1>4
<1> QED BY <1>2, <1>3, <1>5, TokenFacts

\* Looking for a key: what it leaves of the token, and the fetches it lets through.
IssuerStep(c) ==
  /\ IssuerType' /\ Spaced'
  /\ \A d \in Client \ {c} : verifying'[d] = verifying[d]

LEMMA ConsiderStep ==
  ASSUME IssuerType, Spaced, now \in 0..MaxTime, NEW c \in Client, NEW set,
         Consider(c, set), UNCHANGED <<now, published>>
  PROVE  IssuerStep(c)
<1>1. /\ verifying' \in [Client -> TokenState]
      /\ \A d \in Client \ {c} : verifying'[d] = verifying[d]
  <2>1. "found" \in TokenPhase /\ "fetching" \in TokenPhase /\ "unknown" \in TokenPhase
    BY DEF TokenPhase
  <2> QED BY <2>1, TokenPhaseFacts DEF Consider
<1>2. lastForced' \in Nat \cup {None} /\ refetches' \in Nat /\ Spaced'
  <2>1. CASE UNCHANGED <<lastForced, refetches>>
    BY <2>1 DEF IssuerType, Spaced
  <2>2. CASE MayRefetch /\ lastForced' = now /\ refetches' = refetches + 1
    <3>1. /\ now \in Nat /\ refetches \in Nat /\ RefetchInterval \in Nat /\ None \notin Nat
          /\ lastForced \in Nat \cup {None}
      BY ClockAssumption, KeySetsAssumption DEF IssuerType
    <3>2. refetches' * RefetchInterval = refetches * RefetchInterval + RefetchInterval
      BY <2>2, <3>1
    <3>3. refetches * RefetchInterval <= now
      <4>1. CASE lastForced = None
        BY <3>1, <4>1 DEF Spaced
      <4>2. CASE lastForced # None
        <5> DEFINE product == refetches * RefetchInterval
        <5>1. product <= lastForced + RefetchInterval /\ now - lastForced >= RefetchInterval
          BY <2>2, <4>2 DEF Spaced, MayRefetch
        <5>2. product \in Nat
          BY <3>1
        <5> HIDE DEF product
        <5>3. product <= now
          BY <3>1, <4>2, <5>1, <5>2
        <5> QED BY <5>3 DEF product
      <4> QED BY <4>1, <4>2
    <3>4. refetches * RefetchInterval \in Nat
      BY <3>1
    <3> QED BY <2>2, <3>1, <3>2, <3>3, <3>4 DEF Spaced
  <2> QED BY <2>1, <2>2 DEF Consider
<1> QED BY <1>1, <1>2 DEF IssuerStep, IssuerType

LEMMA FindKeyStep ==
  ASSUME IssuerType, Spaced, now \in 0..MaxTime, NEW c \in Client, FindKey(c)
  PROVE  IssuerStep(c) /\ verifying[c].phase # "none" /\ now' = now
<1>0. TokenPhase = {"none", "looking", "fetching", "fetched", "found", "unknown", "verified", "fault"}
  BY DEF TokenPhase
<1>1. CASE LookForKey(c)
  <2>1. CASE Consider(c, cached.keys)
    BY <1>1, <2>1, ConsiderStep DEF LookForKey
  <2>2. CASE /\ UNCHANGED <<lastForced, refetches>>
             /\ \E phase \in {"verified", "fetching"} :
                  verifying' = [verifying EXCEPT ![c].phase = phase]
    <3>1. /\ verifying' \in [Client -> TokenState]
          /\ \A d \in Client \ {c} : verifying'[d] = verifying[d]
      BY <1>0, <2>2, TokenPhaseFacts
    <3>2. UNCHANGED <<now, published>>
      BY <1>1 DEF LookForKey
    <3>3. IssuerType' /\ Spaced'
      BY <2>2, <3>1, <3>2 DEF IssuerType, Spaced
    <3> QED BY <1>1, <3>1, <3>2, <3>3 DEF IssuerStep, LookForKey
  <2> QED BY <1>1, <2>1, <2>2 DEF LookForKey
<1>2. CASE IssuerAnswers(c)
  <2>1. /\ verifying' \in [Client -> TokenState]
        /\ \A d \in Client \ {c} : verifying'[d] = verifying[d]
    BY <1>0, <1>2, TokenPhaseFacts DEF IssuerAnswers
  <2>2. UNCHANGED <<now, published, lastForced, refetches>> /\ verifying[c].phase # "none"
    BY <1>2 DEF IssuerAnswers
  <2>3. IssuerType' /\ Spaced'
    BY <2>1, <2>2 DEF IssuerType, Spaced
  <2> QED BY <2>1, <2>2, <2>3 DEF IssuerStep
<1>3. CASE StoreKeySet(c)
  <2>1. UNCHANGED <<now, published>> /\ verifying[c].phase # "none"
    BY <1>3 DEF StoreKeySet
  <2>2. CASE Consider(c, verifying[c].set)
    BY <2>1, <2>2, ConsiderStep
  <2>3. CASE /\ UNCHANGED <<lastForced, refetches>>
             /\ \E phase \in {"found", "unknown"} :
                  verifying' = [verifying EXCEPT ![c].phase = phase]
    <3>1. /\ verifying' \in [Client -> TokenState]
          /\ \A d \in Client \ {c} : verifying'[d] = verifying[d]
      BY <1>0, <2>3, TokenPhaseFacts
    <3>2. IssuerType' /\ Spaced'
      BY <2>1, <2>3, <3>1 DEF IssuerType, Spaced
    <3> QED BY <2>1, <3>1, <3>2 DEF IssuerStep
  <2> QED BY <1>3, <2>2, <2>3 DEF StoreKeySet
<1>4. CASE KeepDecodingKey(c)
  <2>1. UNCHANGED <<now, published, lastForced, refetches>> /\ verifying[c].phase # "none"
    BY <1>4 DEF KeepDecodingKey
  <2>2. /\ verifying' \in [Client -> TokenState]
        /\ \A d \in Client \ {c} : verifying'[d] = verifying[d]
    BY <1>0, <1>4, TokenPhaseFacts DEF KeepDecodingKey
  <2>3. IssuerType' /\ Spaced'
    BY <2>1, <2>2 DEF IssuerType, Spaced
  <2> QED BY <2>1, <2>2, <2>3 DEF IssuerStep
<1> QED BY <1>1, <1>2, <1>3, <1>4 DEF FindKey

LEMMA TickSpaced ==
  ASSUME IssuerType, Spaced, now \in Nat, now' = now + 1, UNCHANGED <<lastForced, refetches>>
  PROVE  Spaced'
<1>1. CASE lastForced = None
  BY <1>1 DEF Spaced
<1>2. CASE lastForced # None
  <2>1. lastForced <= now /\ lastForced \in Nat
    BY <1>2 DEF Spaced, IssuerType
  <2>2. lastForced <= now + 1
    BY <2>1
  <2> QED BY <1>2, <2>2 DEF Spaced
<1> QED BY <1>1, <1>2

-----------------------------------------------------------------------------
(* Allowances                                                              *)

LEMMA ArriveLedgers ==
  ASSUME Ledgers, LimitsType, now \in 0..MaxTime, NEW b \in Bucket,
         UNCHANGED <<now, tenants, spent>>,
         \/ UNCHANGED <<buckets, passed>>
         \/ /\ SpendIpToken(b)
            /\ passed' = IF CheckIpLimit(b) THEN [passed EXCEPT ![b] = OneMore(@)] ELSE passed
  PROVE  Ledgers'
<1> SUFFICES ASSUME Limiting
             PROVE  /\ \A d \in Bucket : Ledger(buckets'[d], passed'[d], Burst, Rate, now)
                    /\ \A t \in Tenant : Ledger(tenants[t], spent[t], TenantBurst, TenantRate, now)
  BY DEF Ledgers
<1>1. /\ \A d \in Bucket : Ledger(buckets[d], passed[d], Burst, Rate, now)
      /\ \A t \in Tenant : Ledger(tenants[t], spent[t], TenantBurst, TenantRate, now)
  BY DEF Ledgers
<1>2. CASE UNCHANGED <<buckets, passed>>
  BY <1>1, <1>2
<1>3. CASE /\ SpendIpToken(b)
           /\ passed' = IF CheckIpLimit(b) THEN [passed EXCEPT ![b] = OneMore(@)] ELSE passed
  <2>1. CASE Banned(b)
    <3>1. UNCHANGED <<buckets, passed>>
      BY <1>3, <2>1 DEF SpendIpToken, CheckIpLimit
    <3> QED BY <1>1, <3>1
  <2>2. CASE ~Banned(b)
    <3>1. /\ buckets' = [buckets EXCEPT ![b] = Spent(@, Burst, Rate)]
          /\ passed' = IF Affords(buckets[b], Burst, Rate)
                         THEN [passed EXCEPT ![b] = OneMore(@)] ELSE passed
      BY <1>3, <2>2 DEF SpendIpToken, CheckIpLimit
    <3>2. /\ buckets'[b] = Spent(buckets[b], Burst, Rate)
          /\ passed'[b] = IF Affords(buckets[b], Burst, Rate) THEN OneMore(passed[b]) ELSE passed[b]
          /\ \A d \in Bucket \ {b} : buckets'[d] = buckets[d] /\ passed'[d] = passed[d]
      BY <3>1 DEF LimitsType
    <3>3. Burst \in Nat /\ Rate \in Nat /\ IdleTime \in Nat /\ Burst <= Rate * IdleTime
      BY RateLimitsAssumption
    <3>4. Ledger(buckets'[b], passed'[b], Burst, Rate, now)
      BY <1>1, <3>2, <3>3, SpendLedger
    <3> QED BY <1>1, <3>2, <3>4
  <2> QED BY <2>1, <2>2
<1> QED BY <1>2, <1>3

LEMMA AdmitLedgers ==
  ASSUME Ledgers, LimitsType, now \in 0..MaxTime, NEW t \in Tenant,
         UNCHANGED <<now, buckets, passed>>,
         \/ UNCHANGED <<tenants, spent>>
         \/ /\ SpendTenantToken(t)
            /\ spent' = IF CheckTenantLimit(t) THEN [spent EXCEPT ![t] = OneMore(@)] ELSE spent
  PROVE  Ledgers'
<1> SUFFICES ASSUME Limiting
             PROVE  /\ \A b \in Bucket : Ledger(buckets[b], passed[b], Burst, Rate, now)
                    /\ \A u \in Tenant : Ledger(tenants'[u], spent'[u], TenantBurst, TenantRate, now)
  BY DEF Ledgers
<1>1. /\ \A b \in Bucket : Ledger(buckets[b], passed[b], Burst, Rate, now)
      /\ \A u \in Tenant : Ledger(tenants[u], spent[u], TenantBurst, TenantRate, now)
  BY DEF Ledgers
<1>2. CASE UNCHANGED <<tenants, spent>>
  BY <1>1, <1>2
<1>3. CASE /\ SpendTenantToken(t)
           /\ spent' = IF CheckTenantLimit(t) THEN [spent EXCEPT ![t] = OneMore(@)] ELSE spent
  <2>1. /\ tenants' = [tenants EXCEPT ![t] = Spent(@, TenantBurst, TenantRate)]
        /\ spent' = IF Affords(tenants[t], TenantBurst, TenantRate)
                      THEN [spent EXCEPT ![t] = OneMore(@)] ELSE spent
    BY <1>3 DEF SpendTenantToken, CheckTenantLimit
  <2>2. /\ tenants'[t] = Spent(tenants[t], TenantBurst, TenantRate)
        /\ spent'[t] = IF Affords(tenants[t], TenantBurst, TenantRate)
                         THEN OneMore(spent[t]) ELSE spent[t]
        /\ \A u \in Tenant \ {t} : tenants'[u] = tenants[u] /\ spent'[u] = spent[u]
    BY <2>1 DEF LimitsType
  <2>3. /\ TenantBurst \in Nat /\ TenantRate \in Nat /\ IdleTime \in Nat
        /\ TenantBurst <= TenantRate * IdleTime
    BY RateLimitsAssumption
  <2>4. Ledger(tenants'[t], spent'[t], TenantBurst, TenantRate, now)
    BY <1>1, <2>2, <2>3, SpendLedger
  <2> QED BY <1>1, <2>2, <2>4
<1> QED BY <1>2, <1>3

LEMMA TickLedgers ==
  ASSUME Ledgers, now \in 0..MaxTime, now < MaxTime, now' = now + 1,
         UNCHANGED <<buckets, passed, tenants, spent>>
  PROVE  Ledgers'
<1> SUFFICES ASSUME Limiting
             PROVE  /\ \A b \in Bucket : Ledger(buckets[b], passed[b], Burst, Rate, now + 1)
                    /\ \A t \in Tenant : Ledger(tenants[t], spent[t], TenantBurst, TenantRate, now + 1)
  BY DEF Ledgers
<1>1. Burst \in Nat /\ Rate \in Nat /\ TenantBurst \in Nat /\ TenantRate \in Nat
  BY RateLimitsAssumption
<1> QED
  BY <1>1, TickLedger DEF Ledgers

LEMMA SpentType ==
  ASSUME now \in 0..MaxTime, NEW bucket \in TokenBucket \cup {None},
         NEW burst \in Nat, NEW rate \in Nat
  PROVE  Spent(bucket, burst, rate) \in TokenBucket
<1>1. Tokens(bucket, burst, rate) \in Int
  <2>1. CASE bucket = None \/ now - bucket.at >= IdleTime
    BY <2>1 DEF Tokens
  <2>2. CASE ~(bucket = None \/ now - bucket.at >= IdleTime)
    <3>1. bucket.tokens \in Nat /\ now - bucket.at \in Int
      BY <2>2 DEF TokenBucket
    <3>2. bucket.tokens + rate * (now - bucket.at) \in Int
      BY <3>1
    <3> QED BY <2>2, <3>2 DEF Tokens, Smaller
  <2> QED BY <2>1, <2>2
<1>2. (IF Tokens(bucket, burst, rate) > 0 THEN Tokens(bucket, burst, rate) - 1 ELSE 0) \in Nat
  <2> HIDE DEF Tokens
  <2> QED BY <1>1
<1> QED BY <1>2 DEF Spent, TokenBucket

-----------------------------------------------------------------------------
(* Failures and bans                                                       *)

\* Whoever is not about to count a failure may go on.
LEMMA FailuresOn ==
  ASSUME NEW b \in Bucket, Failures(b),
         UNCHANGED <<now, failing, counting>>,
         \A c \in counting[b] : req[c].phase = "refused" => req'[c] = req[c]
  PROVE  Failures(b)'
<1>1. ASSUME NEW c \in counting[b]
      PROVE  req'[c].phase = "refused" /\ Of(c, b)'
  BY <1>1 DEF Failures, Of
<1> QED BY <1>1 DEF Failures

LEMMA TickFailures ==
  ASSUME LimitsType, now \in Nat, NEW b \in Bucket, Failures(b), now' = now + 1,
         UNCHANGED <<failing, counting, req>>, \A c \in Client : req[c].phase # "refused"
  PROVE  Failures(b)'
<1>1. counting[b] = {}
  BY DEF Failures, LimitsType
<1>2. failing[b] # None => failing[b].used <= now + 1
  BY DEF Failures, LimitsType, FailureEntry
<1> QED BY <1>1, <1>2 DEF Failures

\* A failure entry that is used now keeps its ban within bounds.
LEMMA UsedNow ==
  ASSUME LimitsType, now \in Nat, NEW b \in Bucket, Failures(b), failing[b] # None
  PROVE  LET e == [failing[b] EXCEPT !.used = now] IN
           /\ e \in FailureEntry /\ e.used = now /\ e # None
           /\ e.until = failing[b].until /\ e.first = failing[b].first
           /\ e.until # None => e.until <= now + BanTime
<1> DEFINE f == failing[b]
           e == [f EXCEPT !.used = now]
<1>1. f \in FailureEntry /\ f.used <= now /\ (f.until # None => f.until <= f.used + BanTime)
  BY DEF LimitsType, Failures
<1>2. e \in FailureEntry /\ e.used = now /\ e.until = f.until /\ e.first = f.first
  BY <1>1 DEF FailureEntry
<1>3. f.used \in Nat /\ f.until \in Nat \cup {None} /\ BanTime \in Nat /\ e # None
  BY <1>1, <1>2, RateLimitsAssumption DEF FailureEntry
<1>4. f.until # None => f.until <= now + BanTime
  BY <1>1, <1>3
<1> QED BY <1>2, <1>3, <1>4

LEMMA NewEntryFacts ==
  ASSUME now \in Nat
  PROVE  /\ NewEntry \in FailureEntry /\ NewEntry # None
         /\ NewEntry.used = now /\ NewEntry.until = None
<1>1. NewEntry \in FailureEntry
  BY DEF NewEntry, FailureEntry
<1> QED BY <1>1, RateLimitsAssumption DEF NewEntry

LEMMA NowIn == now \in 0..MaxTime => now \in Nat
  OBVIOUS

\* Asking whether a client is banned.
LEMMA LookedFailures ==
  ASSUME LimitsType, now \in 0..MaxTime, NEW b \in Bucket,
         \A d \in Bucket : Failures(d), Limiting,
         failing' = [failing EXCEPT ![b] = Looked(b)], UNCHANGED <<now, counting>>,
         \A c \in Client : req[c].phase = "refused" => req'[c] = req[c]
  PROVE  failing' \in [Bucket -> FailureEntry \cup {None}] /\ \A d \in Bucket : Failures(d)'
<1>1. failing'[b] = Looked(b) /\ \A d \in Bucket \ {b} : failing'[d] = failing[d]
  BY DEF LimitsType
<1>2. ASSUME NEW d \in Bucket, failing'[d] = failing[d]
      PROVE  Failures(d)'
  <2>1. \A c \in counting[d] : c \in Client
    BY DEF LimitsType
  <2>2. ASSUME NEW c \in counting[d]
        PROVE  req'[c].phase = "refused" /\ Of(c, d)'
    BY <2>1, <2>2 DEF Failures, Of
  <2> QED BY <1>2, <2>2 DEF Failures
<1>3. CASE Entry(b) = None
  BY <1>1, <1>2, <1>3 DEF Looked, LimitsType
<1>4. CASE Entry(b) # None
  <2> DEFINE e == [failing[b] EXCEPT !.used = now]
  <2>1. failing[b] # None /\ failing'[b] = e
    BY <1>1, <1>4 DEF Entry, Looked
  <2>2. /\ e \in FailureEntry /\ e.used = now /\ e # None
        /\ e.until # None => e.until <= now + BanTime
    BY <2>1, UsedNow, NowIn
  <2> HIDE DEF e
  <2>3. ASSUME NEW c \in counting[b]
        PROVE  req'[c].phase = "refused" /\ Of(c, b)'
    <3>1. c \in Client /\ req[c].phase = "refused" /\ Of(c, b)
      BY <2>3 DEF LimitsType, Failures
    <3> QED BY <3>1 DEF Of
  <2>4. Failures(b)'
    BY <2>1, <2>2, <2>3, NowIn DEF Failures
  <2>5. failing' \in [Bucket -> FailureEntry \cup {None}]
    BY <1>1, <2>1, <2>2 DEF LimitsType
  <2> QED BY <1>1, <1>2, <2>4, <2>5
<1> QED BY <1>3, <1>4

LEMMA TakeFailures ==
  ASSUME LimitsType, RequestType, now \in 0..MaxTime, NEW b \in Bucket, NEW c \in Client,
         \A d \in Bucket : Failures(d), Limiting,
         TakeEntry(c, b), now' = now,
         req[c].phase # "refused", req'[c].phase = "refused", Of(c, b)',
         \A d \in Client \ {c} : req'[d] = req[d]
  PROVE  /\ failing' \in [Bucket -> FailureEntry \cup {None}]
         /\ counting' \in [Bucket -> SUBSET Client]
         /\ \A d \in Bucket : Failures(d)'
<1> DEFINE e == IF Entry(b) = None THEN NewEntry ELSE [failing[b] EXCEPT !.used = now]
<1>1. /\ failing' = [failing EXCEPT ![b] = e]
      /\ counting' = [counting EXCEPT ![b] = (IF Entry(b) = None THEN {} ELSE @) \cup {c}]
  BY DEF TakeEntry
<1>2. /\ e \in FailureEntry /\ e.used = now /\ e # None
      /\ e.until # None => e.until <= now + BanTime
  <2>1. CASE Entry(b) = None
    BY <2>1, NewEntryFacts, NowIn
  <2>2. CASE Entry(b) # None
    <3>1. failing[b] # None
      BY <2>2 DEF Entry
    <3> QED BY <2>2, <3>1, UsedNow, NowIn
  <2> QED BY <2>1, <2>2
<1> HIDE DEF e
<1>3. /\ failing'[b] = e /\ counting'[b] \subseteq counting[b] \cup {c}
      /\ \A d \in Bucket \ {b} : failing'[d] = failing[d] /\ counting'[d] = counting[d]
      /\ failing' \in [Bucket -> FailureEntry \cup {None}]
      /\ counting' \in [Bucket -> SUBSET Client]
  BY <1>1, <1>2 DEF LimitsType
<1>4. ASSUME NEW d \in Bucket, NEW p \in counting[d]
      PROVE  p \in Client /\ p # c /\ req'[p] = req[p] /\ req'[p].phase = "refused" /\ Of(p, d)'
  <2>1. p \in Client /\ req[p].phase = "refused" /\ Of(p, d)
    BY <1>4 DEF LimitsType, Failures
  <2> QED BY <2>1 DEF Of
<1>5. Failures(b)'
  <2>1. ASSUME NEW p \in counting'[b]
        PROVE  req'[p].phase = "refused" /\ Of(p, b)'
    BY <1>3, <1>4, <2>1
  <2> QED BY <1>2, <1>3, <2>1, NowIn DEF Failures
<1>6. ASSUME NEW d \in Bucket \ {b} PROVE Failures(d)'
  BY <1>3, <1>4, <1>6 DEF Failures
<1> QED BY <1>3, <1>5, <1>6

LEMMA CountFacts ==
  ASSUME now \in Nat, NEW entry \in FailureEntry, entry.used = now,
         entry.until # None => entry.until <= now + BanTime
  PROVE  LET e == Count(entry) IN
           /\ e \in FailureEntry /\ e # None /\ e.used = now
           /\ e.until # None => e.until <= now + BanTime
           /\ now - entry.first <= Hour => e.until \in {entry.until, now + BanTime}
<1> DEFINE current  == IF now - entry.first > Hour THEN [NewEntry EXCEPT !.used = entry.used] ELSE entry
           failures == current.failures + 1
           until    == IF failures >= FailLimit THEN now + BanTime ELSE current.until
           e        == [current EXCEPT !.failures = failures, !.until = until]
<1>1. BanTime \in Nat /\ FailLimit \in Nat /\ Hour \in Nat /\ None \notin FailureEntry
  BY RateLimitsAssumption
<1>2. /\ current \in FailureEntry /\ current.used = now
      /\ current.until # None => current.until <= now + BanTime
      /\ now - entry.first <= Hour => current.until = entry.until
  <2>1. CASE now - entry.first > Hour
    <3>1. current = [NewEntry EXCEPT !.used = entry.used]
      BY <2>1
    <3>2. /\ current \in FailureEntry /\ current.used = now /\ current.until = None
      BY <3>1, NewEntryFacts DEF FailureEntry
    <3> HIDE DEF current
    <3>3. ~(now - entry.first <= Hour)
      BY <1>1, <2>1 DEF FailureEntry
    <3> QED BY <3>2, <3>3
  <2>2. CASE ~(now - entry.first > Hour)
    BY <2>2
  <2> QED BY <2>1, <2>2
<1> HIDE DEF current
<1>3. current.failures \in Nat /\ failures \in Nat /\ current.until \in Nat \cup {None}
  BY <1>2 DEF FailureEntry
<1>4. /\ until \in Nat \cup {None} /\ (until # None => until <= now + BanTime)
      /\ until \in {current.until, now + BanTime}
  BY <1>1, <1>2, <1>3
<1> HIDE DEF failures, until
<1>5. e \in FailureEntry /\ e.used = now /\ e.until = until
  BY <1>2, <1>3, <1>4 DEF FailureEntry
<1>6. Count(entry) = e
  <2>1. current.until \in Nat \cup {None} /\ current \in [failures : Nat, first : Nat, until : Nat \cup {None}, used : Nat]
    BY <1>2, <1>3 DEF FailureEntry
  <2> QED BY <2>1 DEF Count, current, failures, until
<1> HIDE DEF e
<1> QED BY <1>1, <1>2, <1>4, <1>5, <1>6

LEMMA CountFailures ==
  ASSUME LimitsType, now \in 0..MaxTime, NEW b \in Bucket, NEW c \in Client,
         \A d \in Bucket : Failures(d),
         CountFailure(c, b), now' = now, Of(c, b), req'[c].phase = "idle",
         \A d \in Client \ {c} : req'[d] = req[d]
  PROVE  /\ failing' \in [Bucket -> FailureEntry \cup {None}]
         /\ counting' \in [Bucket -> SUBSET Client]
         /\ \A d \in Bucket : Failures(d)'
<1>1. /\ counting' = [counting EXCEPT ![b] = @ \ {c}]
      /\ counting' \in [Bucket -> SUBSET Client] /\ counting'[b] = counting[b] \ {c}
      /\ \A d \in Bucket \ {b} : counting'[d] = counting[d]
  BY DEF CountFailure, LimitsType
<1>2. ASSUME NEW d \in Bucket, NEW p \in counting'[d]
      PROVE  /\ p \in counting[d] /\ req'[p].phase = "refused" /\ Of(p, d)'
  <2>1. p \in counting[d] /\ p \in Client
    BY <1>1, <1>2 DEF LimitsType
  <2>2. req[p].phase = "refused" /\ Of(p, d)
    BY <2>1 DEF Failures
  <2>3. p # c
    BY <1>1, <1>2, <2>2 DEF Of
  <2>4. req'[p] = req[p]
    BY <2>1, <2>3
  <2> QED BY <2>1, <2>2, <2>4 DEF Of
<1>3. CASE c \in counting[b]
  <2>1. /\ failing[b] # None /\ failing[b].used = now /\ failing[b] \in FailureEntry /\ Limiting
        /\ failing[b].until # None => failing[b].until <= now + BanTime
    BY <1>3 DEF Failures, LimitsType
  <2> DEFINE e == Count(failing[b])
  <2>2. /\ e \in FailureEntry /\ e # None /\ e.used = now
        /\ e.until # None => e.until <= now + BanTime
    BY <2>1, CountFacts, NowIn
  <2> HIDE DEF e
  <2>3. failing' = [failing EXCEPT ![b] = e]
    BY <1>3 DEF CountFailure, e
  <2>4. /\ failing' \in [Bucket -> FailureEntry \cup {None}] /\ failing'[b] = e
        /\ \A d \in Bucket \ {b} : failing'[d] = failing[d]
    BY <2>2, <2>3 DEF LimitsType
  <2>5. Failures(b)'
    BY <1>2, <2>1, <2>2, <2>4, NowIn DEF Failures
  <2>6. ASSUME NEW d \in Bucket \ {b} PROVE Failures(d)'
    BY <1>1, <1>2, <2>4, <2>6 DEF Failures
  <2> QED BY <1>1, <2>4, <2>5, <2>6
<1>4. CASE c \notin counting[b]
  <2>1. failing' = failing
    BY <1>4 DEF CountFailure
  <2>2. ASSUME NEW d \in Bucket PROVE Failures(d)'
    BY <1>2, <2>1, <2>2 DEF Failures
  <2> QED BY <1>1, <2>1, <2>2 DEF LimitsType
<1> QED BY <1>3, <1>4

LEMMA ForgottenFailures ==
  ASSUME LimitsType, now \in 0..MaxTime, NEW b \in Bucket,
         \A d \in Bucket : Failures(d),
         RecordSuccess(b), now' = now,
         \A c \in Client : req[c].phase = "refused" => req'[c] = req[c]
  PROVE  /\ failing' \in [Bucket -> FailureEntry \cup {None}]
         /\ counting' \in [Bucket -> SUBSET Client]
         /\ \A d \in Bucket : Failures(d)'
<1>1. ASSUME NEW d \in Bucket, UNCHANGED <<failing[d], counting[d]>> PROVE Failures(d)'
  <2>1. ASSUME NEW p \in counting[d]
        PROVE  req'[p].phase = "refused" /\ Of(p, d)'
    <3>1. p \in Client /\ req[p].phase = "refused" /\ Of(p, d)
      BY <2>1 DEF LimitsType, Failures
    <3> QED BY <3>1 DEF Of
  <2> QED BY <1>1, <2>1 DEF Failures
<1>2. CASE Limiting
  <2>1. /\ failing' = [failing EXCEPT ![b] = None] /\ counting' = [counting EXCEPT ![b] = {}]
    BY <1>2 DEF RecordSuccess
  <2>2. /\ failing' \in [Bucket -> FailureEntry \cup {None}]
        /\ counting' \in [Bucket -> SUBSET Client]
        /\ failing'[b] = None /\ counting'[b] = {}
        /\ \A d \in Bucket \ {b} : failing'[d] = failing[d] /\ counting'[d] = counting[d]
    BY <2>1 DEF LimitsType
  <2>3. Failures(b)'
    BY <2>2 DEF Failures
  <2> QED BY <1>1, <2>2, <2>3
<1>3. CASE ~Limiting
  BY <1>1, <1>3 DEF RecordSuccess, LimitsType
<1> QED BY <1>2, <1>3

-----------------------------------------------------------------------------
(* Every step keeps the invariant                                          *)

LEMMA LookingOn ==
  ASSUME NEW c \in Client, Looking(c), req'[c] = req[c], verifying'[c] = verifying[c],
         Mechanisms' = Mechanisms
  PROVE  Looking(c)'
  BY DEF Looking, Trying

\* A request that is not being authenticated looks for no key.
LEMMA LookingDone ==
  ASSUME NEW c \in Client, Looking(c), verifying'[c] = verifying[c],
         verifying[c].phase = "none", req'[c].phase # "authenticating",
         Mechanisms = <<>> => req'[c].todo = <<>>, Mechanisms' = Mechanisms
  PROVE  Looking(c)'
  BY DEF Looking

LEMMA NotLooking ==
  ASSUME NEW c \in Client, Looking(c), req[c].phase # "authenticating" \/ req[c].todo = <<>>
  PROVE  verifying[c].phase = "none"
  BY DEF Looking, Trying

LEMMA StoreOn ==
  ASSUME StoreType, \A k \in ApiKey : Gone(k), UNCHANGED apiKeys
  PROVE  StoreType' /\ \A k \in ApiKey : Gone(k)'
  BY DEF StoreType, Gone, apiKeys

LEMMA IssuerOn ==
  ASSUME IssuerType, Spaced, UNCHANGED <<now, published, lastForced, refetches>>,
         verifying' \in [Client -> TokenState]
  PROVE  IssuerType' /\ Spaced'
  BY DEF IssuerType, Spaced

LEMMA OneMoreType ==
  ASSUME NEW times \in [0..MaxTime -> Nat]
  PROVE  OneMore(times) \in [0..MaxTime -> Nat]
  BY DEF OneMore

LEMMA ScenarioStep ==
  ASSUME left \in Scenario, NEW left2,
         \/ left.requests > 0 /\ left2 = [left EXCEPT !.requests = @ - 1]
         \/ left.edits > 0 /\ left2 = [left EXCEPT !.edits = @ - 1]
         \/ left.rotations > 0 /\ left2 = [left EXCEPT !.rotations = @ - 1]
  PROVE  left2 \in Scenario /\ left2.mechanisms = left.mechanisms
<1> DEFINE kinds == {<<>>, <<"jwt">>, <<"key">>, <<"jwt", "key">>}
<1>1. left \in [mechanisms : kinds, arrivals : SUBSET Arrival,
                requests : Nat, rotations : Nat, edits : Nat]
  BY DEF Scenario
<1>2. Scenario = [mechanisms : kinds, arrivals : SUBSET Arrival,
                  requests : Nat, rotations : Nat, edits : Nat]
  BY DEF Scenario
<1> HIDE DEF kinds
<1> QED BY <1>1, <1>2

LEMMA ArriveInv ==
  ASSUME AdmissionInv, NEW c \in Client, NEW arrival \in left.arrivals, Arrive(c, arrival)
  PROVE  AdmissionInv'
<1> DEFINE from == ClientAddress(arrival)
           b    == BucketOf[from]
           r    == IF from = None \/ CheckIpLimit(b)
                     THEN [Idle EXCEPT
                       !.phase = "authenticating", !.with = arrival.with, !.from = from,
                       !.arrived = arrival, !.number = begun + 1, !.todo = Mechanisms]
                     ELSE Idle
<1>1. /\ req[c].phase = "idle" /\ left.requests > 0
      /\ begun' = begun + 1 /\ left' = [left EXCEPT !.requests = @ - 1]
      /\ req' = [req EXCEPT ![c] = r]
      /\ IF from = None
           THEN UNCHANGED <<buckets, failing, passed>>
           ELSE /\ SpendIpToken(b)
                /\ passed' = IF CheckIpLimit(b) THEN [passed EXCEPT ![b] = OneMore(@)] ELSE passed
      /\ UNCHANGED <<now, keyVars, tenants, counting, apiKeys, spent>>
  BY DEF Arrive, Answered
<1>2. arrival \in Arrival /\ arrival.with \in Credential /\ left \in Scenario /\ begun \in Nat
  BY DEF AdmissionInv, TypeOK, RequestType, Scenario, Arrival
<1>3. from \in Address \cup {None} /\ (from # None => b \in Bucket)
  <2>1. from \in Address \cup {None}
    BY <1>2, ClientAddressType
  <2> HIDE DEF from
  <2> QED BY <2>1, AdmissionAssumption
<1>4. left' \in Scenario /\ Mechanisms' = Mechanisms /\ begun' \in Nat
  BY <1>1, <1>2, ScenarioStep DEF Mechanisms
<1>5. /\ r \in Request /\ r.phase \in {"authenticating", "idle"} /\ r.todo \in {Mechanisms, <<>>}
      /\ r.phase = "authenticating" => r.with \in Credential
  <2> HIDE DEF from
  <2>1. CASE from = None \/ CheckIpLimit(b)
    <3> DEFINE r1 == [Idle EXCEPT
                       !.phase = "authenticating", !.with = arrival.with, !.from = from,
                       !.arrived = arrival, !.number = begun + 1, !.todo = Mechanisms]
    <3>1. Mechanisms \in Seq({"jwt", "key"}) /\ begun + 1 \in Nat
      BY <1>2, MechanismsType
    <3> HIDE DEF Mechanisms
    <3>2. r1.phase = "authenticating" /\ r1.todo = Mechanisms /\ r1.with = arrival.with
      BY DEF Idle
    <3>3. r1 \in Request
      BY <1>2, <1>3, <3>1, IdleType DEF Request, Phase
    <3> HIDE DEF r1
    <3>4. r = r1
      BY <2>1 DEF r1
    <3> HIDE DEF r
    <3> QED BY <1>2, <3>2, <3>3, <3>4
  <2>2. CASE ~(from = None \/ CheckIpLimit(b))
    BY <2>2, IdleType
  <2> QED BY <2>1, <2>2
<1> HIDE DEF r, from
<1>6. /\ req' \in [Client -> Request] /\ req'[c] = r
      /\ \A d \in Client \ {c} : req'[d] = req[d]
  <2>1. req \in [Client -> Request]
    BY DEF AdmissionInv, TypeOK, RequestType
  <2> HIDE DEF Request
  <2> QED BY <1>1, <1>5, <2>1
<1>7. IssuerType' /\ Spaced' /\ StoreType' /\ \A k \in ApiKey : Gone(k)'
  <2>1. IssuerType' /\ Spaced'
    BY <1>1, IssuerOn DEF AdmissionInv, TypeOK, keyVars, IssuerType
  <2> QED BY <1>1, <2>1, StoreOn DEF AdmissionInv, TypeOK
<1>8. \A d \in Client : Looking(d)'
  <2>1. UNCHANGED verifying /\ Looking(c) /\ verifying[c].phase = "none"
    BY <1>1, NotLooking DEF keyVars, AdmissionInv
  <2>2. Looking(c)'
    BY <1>4, <1>5, <1>6, <2>1 DEF Looking
  <2>3. ASSUME NEW d \in Client \ {c} PROVE Looking(d)'
    BY <1>4, <1>6, <2>1, LookingOn DEF AdmissionInv
  <2> QED BY <2>2, <2>3
<1>9. /\ buckets' \in [Bucket -> TokenBucket \cup {None}]
      /\ passed' \in [Bucket -> [0..MaxTime -> Nat]] /\ Ledgers'
  <2>0. LimitsType /\ now \in 0..MaxTime /\ Ledgers /\ Burst \in Nat /\ Rate \in Nat
    BY RateLimitsAssumption DEF AdmissionInv, TypeOK
  <2>1. CASE from = None
    BY <1>1, <2>0, <2>1 DEF LimitsType, Ledgers
  <2>2. CASE from # None
    <3>1. Ledgers'
      BY <1>1, <1>3, <2>0, <2>2, ArriveLedgers
    <3>2. /\ buckets' = buckets \/ buckets' = [buckets EXCEPT ![b] = Spent(buckets[b], Burst, Rate)]
          /\ passed' = passed \/ passed' = [passed EXCEPT ![b] = OneMore(passed[b])]
      BY <1>1, <2>2 DEF SpendIpToken
    <3>3. b \in Bucket /\ Spent(buckets[b], Burst, Rate) \in TokenBucket
      BY <1>3, <2>0, <2>2, SpentType DEF LimitsType
    <3>4. OneMore(passed[b]) \in [0..MaxTime -> Nat]
      BY <2>0, <3>3, OneMoreType DEF LimitsType
    <3> HIDE DEF b
    <3> QED BY <2>0, <3>1, <3>2, <3>3, <3>4 DEF LimitsType
  <2> QED BY <2>1, <2>2
<1>10. failing' \in [Bucket -> FailureEntry \cup {None}] /\ \A d \in Bucket : Failures(d)'
  <2>0. LimitsType /\ now \in 0..MaxTime /\ \A d \in Bucket : Failures(d)
    BY DEF AdmissionInv, TypeOK
  <2>1. \A d \in Client : req[d].phase = "refused" => req'[d] = req[d]
    BY <1>1, <1>6
  <2>2. CASE UNCHANGED failing
    <3>1. ASSUME NEW d \in Bucket PROVE Failures(d)'
      <4>1. \A p \in counting[d] : p \in Client
        BY <2>0 DEF LimitsType
      <4> QED BY <1>1, <2>0, <2>1, <2>2, <4>1, FailuresOn
    <3> QED BY <2>0, <2>2, <3>1 DEF LimitsType
  <2>3. CASE from # None /\ Limiting
    <3>1. failing' = [failing EXCEPT ![b] = Looked(b)]
      BY <1>1, <2>3 DEF SpendIpToken
    <3> QED BY <1>1, <1>3, <2>0, <2>1, <2>3, <3>1, LookedFailures
  <2> QED BY <1>1, <2>2, <2>3 DEF SpendIpToken
<1>11. TypeOK'
  <2>1. now' = now /\ counting' = counting /\ tenants' = tenants /\ spent' = spent
    BY <1>1
  <2>2. LimitsType'
    BY <1>9, <1>10, <2>1 DEF LimitsType, AdmissionInv, TypeOK
  <2>3. RequestType'
    BY <1>4, <1>6 DEF RequestType
  <2> QED BY <1>7, <2>1, <2>2, <2>3 DEF TypeOK, AdmissionInv
<1> QED BY <1>7, <1>8, <1>9, <1>10, <1>11 DEF AdmissionInv

\* A step of one request that leaves the limits and the API keys alone.
LEMMA RequestInv ==
  ASSUME AdmissionInv, NEW c \in Client, UNCHANGED <<now, limitVars, apiKeys, history>>,
         req' \in [Client -> Request], \A d \in Client \ {c} : req'[d] = req[d],
         req[c].phase # "refused",
         IssuerType', Spaced', \A d \in Client \ {c} : verifying'[d] = verifying[d],
         Looking(c)'
  PROVE  AdmissionInv'
<1>0. /\ now' = now /\ UNCHANGED <<buckets, tenants, failing, counting, begun, left, passed, spent>>
      /\ Mechanisms' = Mechanisms
  BY DEF limitVars, history, Mechanisms
<1>1. StoreType' /\ \A k \in ApiKey : Gone(k)'
  BY StoreOn DEF AdmissionInv, TypeOK
<1>2. ASSUME NEW d \in Client \ {c} PROVE Looking(d)'
  BY <1>0, LookingOn DEF AdmissionInv
<1>3. ASSUME NEW b \in Bucket PROVE Failures(b)'
  <2>1. \A d \in counting[b] : d \in Client
    BY DEF AdmissionInv, TypeOK, LimitsType
  <2> QED BY <1>0, <2>1, FailuresOn DEF AdmissionInv
<1>4. Ledgers'
  BY <1>0 DEF AdmissionInv, Ledgers
<1>5. TypeOK'
  BY <1>0, <1>1 DEF AdmissionInv, TypeOK, LimitsType, RequestType
<1> QED BY <1>1, <1>2, <1>3, <1>4, <1>5 DEF AdmissionInv

LEMMA VerifyFacts ==
  ASSUME IssuerType, NEW c \in Client, NEW kid \in Kid, Verify(c, kid)
  PROVE  /\ verifying' \in [Client -> TokenState]
         /\ \A d \in Client \ {c} : verifying'[d] = verifying[d]
<1>1. [NoToken EXCEPT !.phase = "looking", !.kid = kid] \in TokenState
  BY DEF NoToken, TokenState, TokenPhase
<1> QED BY <1>1, TokenFacts DEF Verify

LEMMA NoTokenFacts ==
  ASSUME IssuerType, NEW c \in Client, verifying' = [verifying EXCEPT ![c] = NoToken]
  PROVE  /\ verifying' \in [Client -> TokenState] /\ verifying'[c].phase = "none"
         /\ \A d \in Client \ {c} : verifying'[d] = verifying[d]
<1>1. NoToken \in TokenState /\ NoToken.phase = "none"
  BY DEF NoToken, TokenState, TokenPhase
<1> QED BY <1>1, TokenFacts

\* Once a mechanism is given up, the next is tried with no key being looked for.
LEMMA LookingNext ==
  ASSUME NEW c \in Client, Looking(c), Trying(c, "jwt") \/ Trying(c, "key"),
         verifying'[c].phase = "none", Mechanisms' = Mechanisms,
         req'[c].phase \in {req[c].phase, "known"}, req'[c].with = req[c].with
  PROVE  Looking(c)'
<1>1. Mechanisms # <<>>
  BY DEF Looking, Trying
<1> QED BY <1>1 DEF Looking, Trying

LEMMA TenantOfType ==
  ASSUME NEW k \in ApiKey \cup Kid PROVE TenantOf[k] \in Tenant
  BY AdmissionAssumption

LEMMA TryTokenInv ==
  ASSUME AdmissionInv, NEW c \in Client, TryToken(c)
  PROVE  AdmissionInv'
<1>1. /\ Trying(c, "jwt") /\ req[c].phase = "authenticating" /\ req[c].todo # <<>>
      /\ req[c].with \in Credential /\ req[c].phase # "refused"
      /\ UNCHANGED <<now, published, cached, decoding, lastForced, refetches, limitVars,
                     apiKeys, history>>
  BY DEF TryToken, Trying, AdmissionInv, Looking
<1>2. IssuerType /\ Spaced /\ RequestType /\ Looking(c) /\ Mechanisms' = Mechanisms
      /\ req \in [Client -> Request]
  BY <1>1 DEF AdmissionInv, TypeOK, RequestType, history, Mechanisms
<1>3. CASE /\ req[c].with.kind = "token" /\ Verify(c, req[c].with.kid) /\ UNCHANGED req
  <2>1. /\ verifying' \in [Client -> TokenState]
        /\ \A d \in Client \ {c} : verifying'[d] = verifying[d]
    BY <1>1, <1>2, <1>3, VerifyFacts, CredentialKinds
  <2>2. Looking(c)'
    BY <1>1, <1>2, <1>3 DEF Looking, Trying
  <2> QED BY <1>1, <1>2, <1>3, <2>1, <2>2, IssuerOn, RequestInv
<1>4. CASE /\ verifying[c].phase = "none" /\ UNCHANGED verifying
           /\ \E error \in {"absent", "rejected"} : Fails(c, error)
  <2>1. /\ req' \in [Client -> Request]
        /\ req'[c].phase = req[c].phase /\ req'[c].with = req[c].with
        /\ \A d \in Client \ {c} : req'[d] = req[d]
    BY <1>1, <1>2, <1>4, FailsFacts
  <2>2. Looking(c)'
    BY <1>1, <1>2, <1>4, <2>1, LookingNext
  <2>3. IssuerType' /\ Spaced'
    BY <1>1, <1>2, <1>4, IssuerOn DEF IssuerType
  <2> QED BY <1>1, <1>4, <2>1, <2>2, <2>3, RequestInv
<1>5. CASE /\ verifying[c].phase \in {"verified", "unknown", "fault"}
           /\ \/ Succeeds(c, TenantOf[req[c].with.kid], None)
              \/ \E error \in {"fault", "rejected"} : Fails(c, error)
           /\ verifying' = [verifying EXCEPT ![c] = NoToken]
  <2>1. /\ verifying' \in [Client -> TokenState] /\ verifying'[c].phase = "none"
        /\ \A d \in Client \ {c} : verifying'[d] = verifying[d]
    BY <1>2, <1>5, NoTokenFacts
  <2>2. IssuerType' /\ Spaced'
    BY <1>1, <1>2, <2>1, IssuerOn
  <2>3. CASE Succeeds(c, TenantOf[req[c].with.kid], None)
    <3>1. req[c].with.kid \in Kid
      BY <1>1, <1>2, <1>5, CredentialKinds DEF Looking
    <3>2. /\ req' \in [Client -> Request]
          /\ req'[c].phase = "known" /\ req'[c].todo = req[c].todo
          /\ \A d \in Client \ {c} : req'[d] = req[d]
      BY <1>2, <2>3, <3>1, TenantOfType, SucceedsFacts
    <3>3. Looking(c)'
      BY <1>2, <2>1, <3>2 DEF Looking
    <3> QED BY <1>1, <2>1, <2>2, <3>2, <3>3, RequestInv
  <2>4. CASE \E error \in {"fault", "rejected"} : Fails(c, error)
    <3>1. /\ req' \in [Client -> Request]
          /\ req'[c].phase = req[c].phase /\ req'[c].with = req[c].with
          /\ \A d \in Client \ {c} : req'[d] = req[d]
      BY <1>1, <1>2, <2>4, FailsFacts
    <3>2. Looking(c)'
      BY <1>1, <1>2, <2>1, <3>1, LookingNext
    <3> QED BY <1>1, <2>1, <2>2, <3>1, <3>2, RequestInv
  <2> QED BY <1>5, <2>3, <2>4
<1>6. \/ /\ req[c].with.kind = "token" /\ Verify(c, req[c].with.kid) /\ UNCHANGED req
      \/ /\ verifying[c].phase = "none" /\ UNCHANGED verifying
         /\ \E error \in {"absent", "rejected"} : Fails(c, error)
      \/ /\ verifying[c].phase \in {"verified", "unknown", "fault"}
         /\ \/ Succeeds(c, TenantOf[req[c].with.kid], None)
            \/ \E error \in {"fault", "rejected"} : Fails(c, error)
         /\ verifying' = [verifying EXCEPT ![c] = NoToken]
  <2> HIDE DEF Fails
  <2> QED BY DEF TryToken
<1> QED BY <1>3, <1>4, <1>5, <1>6

LEMMA TryKeyInv ==
  ASSUME AdmissionInv, NEW c \in Client, TryKey(c)
  PROVE  AdmissionInv'
<1>1. /\ Trying(c, "key") /\ req[c].phase = "authenticating" /\ req[c].todo # <<>>
      /\ req[c].with \in Credential /\ req[c].phase # "refused"
      /\ UNCHANGED <<now, keyVars, limitVars, apiKeys, history>>
  BY DEF TryKey, Trying, AdmissionInv, Looking
<1>2. IssuerType /\ Spaced /\ RequestType /\ Looking(c) /\ Mechanisms' = Mechanisms
      /\ StoreType
  BY <1>1 DEF AdmissionInv, TypeOK, history, Mechanisms
<1>3. UNCHANGED verifying /\ IssuerType' /\ Spaced' /\ verifying[c].phase = "none"
  <2>1. verifying[c].phase = "none"
    BY <1>1, <1>2 DEF Looking, Trying
  <2> QED BY <1>1, <1>2, <2>1, IssuerOn DEF keyVars, IssuerType
<1>4. CASE \E error \in {"absent", "rejected"} : Fails(c, error)
  <2>1. /\ req' \in [Client -> Request]
        /\ req'[c].phase = req[c].phase /\ req'[c].with = req[c].with
        /\ \A d \in Client \ {c} : req'[d] = req[d]
    BY <1>1, <1>2, <1>4, FailsFacts
  <2>2. Looking(c)'
    BY <1>1, <1>2, <1>3, <2>1, LookingNext
  <2> QED BY <1>1, <1>3, <2>1, <2>2, RequestInv
<1>5. CASE /\ req[c].with.kind = "key" /\ keys[req[c].with.key] # None
           /\ Succeeds(c, TenantOf[req[c].with.key], keys[req[c].with.key].expires)
  <2>1. req[c].with.key \in ApiKey
    BY <1>1, <1>5, CredentialKinds
  <2>2. keys[req[c].with.key].expires \in Nat \cup {None}
    BY <1>2, <1>5, <2>1 DEF StoreType, KeyRecord
  <2>3. /\ req' \in [Client -> Request]
        /\ req'[c].phase = "known" /\ req'[c].todo = req[c].todo
        /\ \A d \in Client \ {c} : req'[d] = req[d]
    BY <1>2, <1>5, <2>1, <2>2, TenantOfType, SucceedsFacts
  <2>4. Looking(c)'
    BY <1>2, <1>3, <2>3 DEF Looking
  <2> QED BY <1>1, <1>3, <2>3, <2>4, RequestInv
<1> QED BY <1>4, <1>5 DEF TryKey, Found

LEMMA TryNothingInv ==
  ASSUME AdmissionInv, NEW c \in Client, TryNothing(c)
  PROVE  AdmissionInv'
<1>1. /\ req[c].phase = "authenticating" /\ Mechanisms = <<>>
      /\ UNCHANGED <<now, keyVars, limitVars, apiKeys, history>>
  BY DEF TryNothing
<1>2. PICK t \in Tenant : Succeeds(c, t, None)
  BY DEF TryNothing
<1>3. IssuerType /\ Spaced /\ RequestType /\ Looking(c) /\ Mechanisms' = Mechanisms
  BY <1>1 DEF AdmissionInv, TypeOK, history, Mechanisms
<1>4. /\ req' \in [Client -> Request]
      /\ req'[c].phase = "known" /\ req'[c].todo = req[c].todo
      /\ \A d \in Client \ {c} : req'[d] = req[d]
  BY <1>2, <1>3, SucceedsFacts
<1>5. UNCHANGED verifying /\ IssuerType' /\ Spaced' /\ verifying[c].phase = "none"
  <2>1. verifying[c].phase = "none"
    BY <1>1, <1>3 DEF Looking, Trying
  <2> QED BY <1>1, <1>3, <2>1, IssuerOn DEF keyVars, IssuerType
<1>6. Looking(c)'
  BY <1>3, <1>4, <1>5 DEF Looking
<1> QED BY <1>1, <1>4, <1>5, <1>6, RequestInv

LEMMA FindKeyInv ==
  ASSUME AdmissionInv, NEW c \in Client, FindKey(c), UNCHANGED <<limitVars, apiKeys, req, history>>
  PROVE  AdmissionInv'
<1>1. IssuerType /\ Spaced /\ now \in 0..MaxTime /\ req \in [Client -> Request] /\ Looking(c)
      /\ Mechanisms' = Mechanisms
  BY DEF AdmissionInv, TypeOK, RequestType, history, Mechanisms
<1>2. IssuerStep(c) /\ verifying[c].phase # "none" /\ now' = now
  BY <1>1, FindKeyStep
<1>3. Looking(c)' /\ req[c].phase # "refused"
  BY <1>1, <1>2 DEF Looking, Trying
<1> QED BY <1>1, <1>2, <1>3, RequestInv DEF IssuerStep

LEMMA RespondInv ==
  ASSUME AdmissionInv, NEW c \in Client, Respond(c)
  PROVE  AdmissionInv'
<1>1. /\ req[c].phase = "handled" /\ Answered(c)
      /\ UNCHANGED <<now, keyVars, limitVars, apiKeys, history>>
  BY DEF Respond
<1>2. IssuerType /\ Spaced /\ RequestType /\ Looking(c) /\ Mechanisms' = Mechanisms
  BY <1>1 DEF AdmissionInv, TypeOK, history, Mechanisms
<1>3. /\ req' \in [Client -> Request]
      /\ req'[c].phase = "idle" /\ req'[c].todo = <<>>
      /\ \A d \in Client \ {c} : req'[d] = req[d]
  BY <1>1, <1>2, AnsweredFacts
<1>4. UNCHANGED verifying /\ IssuerType' /\ Spaced' /\ verifying[c].phase = "none"
  BY <1>1, <1>2, NotLooking, IssuerOn DEF keyVars, IssuerType
<1>5. Looking(c)'
  BY <1>2, <1>3, <1>4, LookingDone
<1> QED BY <1>1, <1>3, <1>4, <1>5, RequestInv

LEMMA DisconnectInv ==
  ASSUME AdmissionInv, NEW c \in Client, Disconnect(c)
  PROVE  AdmissionInv'
<1>1. /\ req[c].phase = "handled" \/ verifying[c].phase = "fetching"
      /\ verifying' = [verifying EXCEPT ![c] = NoToken] /\ Answered(c)
      /\ UNCHANGED <<now, published, cached, decoding, lastForced, refetches, limitVars,
                     apiKeys, history>>
  BY DEF Disconnect
<1>2. IssuerType /\ Spaced /\ RequestType /\ Looking(c) /\ Mechanisms' = Mechanisms
  BY <1>1 DEF AdmissionInv, TypeOK, history, Mechanisms
<1>3. req[c].phase # "refused"
  BY <1>1, <1>2 DEF Looking, Trying
<1>4. /\ req' \in [Client -> Request]
      /\ req'[c].phase = "idle" /\ req'[c].todo = <<>>
      /\ \A d \in Client \ {c} : req'[d] = req[d]
  BY <1>1, <1>2, AnsweredFacts
<1>5. /\ verifying' \in [Client -> TokenState] /\ verifying'[c].phase = "none"
      /\ \A d \in Client \ {c} : verifying'[d] = verifying[d]
  BY <1>1, <1>2, NoTokenFacts
<1>6. IssuerType' /\ Spaced'
  BY <1>1, <1>2, <1>5, IssuerOn
<1>7. Looking(c)'
  BY <1>4, <1>5 DEF Looking
<1> QED BY <1>1, <1>3, <1>4, <1>5, <1>6, <1>7, RequestInv

\* A step of one request that may change the limits.
LEMMA LimitedInv ==
  ASSUME AdmissionInv, NEW c \in Client, UNCHANGED <<now, keyVars, apiKeys, begun, left>>,
         req' \in [Client -> Request], \A d \in Client \ {c} : req'[d] = req[d],
         verifying[c].phase = "none",
         req'[c].phase # "authenticating", Mechanisms = <<>> => req'[c].todo = <<>>,
         LimitsType', Ledgers', \A b \in Bucket : Failures(b)'
  PROVE  AdmissionInv'
<1>1. UNCHANGED <<now, begun, left, verifying, Mechanisms>>
  BY DEF keyVars, Mechanisms
<1>2. IssuerType' /\ Spaced' /\ StoreType' /\ \A k \in ApiKey : Gone(k)'
  <2>1. IssuerType' /\ Spaced'
    BY IssuerOn DEF AdmissionInv, TypeOK, keyVars, IssuerType
  <2> QED BY <2>1, StoreOn DEF AdmissionInv, TypeOK
<1>3. Looking(c)'
  BY <1>1, LookingDone DEF AdmissionInv
<1>4. ASSUME NEW d \in Client \ {c} PROVE Looking(d)'
  BY <1>1, LookingOn DEF AdmissionInv
<1>5. RequestType'
  BY <1>1 DEF AdmissionInv, TypeOK, RequestType
<1> QED BY <1>1, <1>2, <1>3, <1>4, <1>5 DEF AdmissionInv, TypeOK

LEMMA AdmitInv ==
  ASSUME AdmissionInv, NEW c \in Client, Admit(c)
  PROVE  AdmissionInv'
<1> DEFINE t == req[c].tenant
           b == BucketOf[req[c].from]
<1>1. /\ req[c].phase = "known" /\ UNCHANGED <<now, keyVars, buckets, apiKeys, begun, left, passed>>
      /\ IF req[c].from = None THEN UNCHANGED <<failing, counting>> ELSE RecordSuccess(b)
      /\ \/ Answered(c) \/ req' = [req EXCEPT ![c].phase = "handled"]
      /\ \/ UNCHANGED <<tenants, spent>>
         \/ /\ SpendTenantToken(t)
            /\ spent' = IF CheckTenantLimit(t) THEN [spent EXCEPT ![t] = OneMore(@)] ELSE spent
  BY DEF Admit
<1>2. LimitsType /\ now \in 0..MaxTime /\ RequestType /\ Looking(c) /\ Ledgers
      /\ \A d \in Bucket : Failures(d)
  BY DEF AdmissionInv, TypeOK
<1>3. /\ req' \in [Client -> Request] /\ \A d \in Client \ {c} : req'[d] = req[d]
      /\ req'[c].phase \in {"idle", "handled"} /\ req'[c].todo \in {<<>>, req[c].todo}
  <2>1. CASE Answered(c)
    BY <1>2, <2>1, AnsweredFacts
  <2>2. CASE req' = [req EXCEPT ![c].phase = "handled"]
    BY <1>2, <2>2, PhaseFacts DEF Phase
  <2> QED BY <1>1, <2>1, <2>2
<1>4. /\ failing' \in [Bucket -> FailureEntry \cup {None}]
      /\ counting' \in [Bucket -> SUBSET Client] /\ \A d \in Bucket : Failures(d)'
  <2>1. \A d \in Client : req[d].phase = "refused" => req'[d] = req[d]
    BY <1>1, <1>3
  <2>2. CASE UNCHANGED <<failing, counting>>
    <3>1. ASSUME NEW d \in Bucket PROVE Failures(d)'
      <4>1. \A p \in counting[d] : p \in Client
        BY <1>2 DEF LimitsType
      <4> QED BY <1>1, <1>2, <2>1, <2>2, <4>1, FailuresOn
    <3> QED BY <1>2, <2>2, <3>1 DEF LimitsType
  <2>3. CASE req[c].from # None /\ RecordSuccess(b)
    <3>1. b \in Bucket
      BY <1>2, <2>3, AdmissionAssumption DEF RequestType, Request
    <3> QED BY <1>1, <1>2, <2>1, <2>3, <3>1, ForgottenFailures
  <2> QED BY <1>1, <2>2, <2>3
<1>5. /\ tenants' \in [Tenant -> TokenBucket \cup {None}]
      /\ spent' \in [Tenant -> [0..MaxTime -> Nat]] /\ Ledgers'
  <2>1. CASE UNCHANGED <<tenants, spent>>
    BY <1>1, <1>2, <2>1 DEF LimitsType, Ledgers
  <2>2. CASE t \notin Tenant /\ ~UNCHANGED <<tenants, spent>>
    <3> HIDE DEF t
    <3>1. tenants' = tenants /\ spent' = spent
      BY <1>1, <1>2, <2>2 DEF SpendTenantToken, LimitsType
    <3> QED BY <2>2, <3>1
  <2>3. CASE /\ t \in Tenant /\ SpendTenantToken(t)
             /\ spent' = IF CheckTenantLimit(t) THEN [spent EXCEPT ![t] = OneMore(@)] ELSE spent
    <3>1. Ledgers'
      BY <1>1, <1>2, <2>3, AdmitLedgers
    <3>2. /\ \/ tenants' = tenants
             \/ tenants' = [tenants EXCEPT ![t] = Spent(tenants[t], TenantBurst, TenantRate)]
          /\ spent' = spent \/ spent' = [spent EXCEPT ![t] = OneMore(spent[t])]
      BY <2>3 DEF SpendTenantToken
    <3>3. Spent(tenants[t], TenantBurst, TenantRate) \in TokenBucket
      BY <1>2, <2>3, SpentType, RateLimitsAssumption DEF LimitsType
    <3>4. OneMore(spent[t]) \in [0..MaxTime -> Nat]
      BY <1>2, <2>3, OneMoreType DEF LimitsType
    <3> HIDE DEF t
    <3> QED BY <1>2, <2>3, <3>1, <3>2, <3>3, <3>4 DEF LimitsType
  <2> QED BY <1>1, <2>1, <2>2, <2>3
<1>6. verifying[c].phase = "none" /\ LimitsType'
  BY <1>1, <1>2, <1>4, <1>5, NotLooking DEF LimitsType
<1>7. Mechanisms = <<>> => req'[c].todo = <<>>
  BY <1>2, <1>3 DEF Looking
<1> QED BY <1>1, <1>3, <1>4, <1>5, <1>6, <1>7, LimitedInv

LEMMA RefuseInv ==
  ASSUME AdmissionInv, NEW c \in Client, Refuse(c)
  PROVE  AdmissionInv'
<1> DEFINE b == BucketOf[req[c].from]
           counted == Error(c) = "rejected" /\ req[c].from # None
<1>1. /\ req[c].phase = "authenticating" /\ req[c].todo = <<>>
      /\ IF counted /\ Limiting THEN req' = [req EXCEPT ![c].phase = "refused"] ELSE Answered(c)
      /\ IF counted THEN TakeEntry(c, b) ELSE UNCHANGED <<failing, counting>>
      /\ UNCHANGED <<now, keyVars, buckets, tenants, apiKeys, history>>
  BY DEF Refuse
<1>2. LimitsType /\ now \in 0..MaxTime /\ RequestType /\ Looking(c) /\ Ledgers
      /\ \A d \in Bucket : Failures(d)
  BY DEF AdmissionInv, TypeOK
<1>3. UNCHANGED <<begun, left, passed, spent>> /\ verifying[c].phase = "none"
  BY <1>1, <1>2, NotLooking DEF history
<1>4. CASE counted /\ Limiting
  <2>1. /\ req' = [req EXCEPT ![c].phase = "refused"] /\ TakeEntry(c, b)
    BY <1>1, <1>4
  <2>2. /\ req' \in [Client -> Request]
        /\ req'[c].phase = "refused" /\ req'[c].todo = req[c].todo
        /\ req'[c].from = req[c].from /\ \A d \in Client \ {c} : req'[d] = req[d]
    BY <1>2, <2>1, PhaseFacts DEF Phase
  <2>3. b \in Bucket
    BY <1>2, <1>4, AdmissionAssumption DEF RequestType, Request
  <2>4. PICK d \in Bucket : d = b
    BY <2>3
  <2>5. /\ failing' \in [Bucket -> FailureEntry \cup {None}]
        /\ counting' \in [Bucket -> SUBSET Client] /\ \A x \in Bucket : Failures(x)'
    <3>1. now' = now /\ Limiting /\ req[c].phase # "refused" /\ TakeEntry(c, d) /\ Of(c, d)'
      BY <1>1, <1>4, <2>1, <2>2, <2>4 DEF Of
    <3> QED BY <1>2, <2>2, <3>1, TakeFailures
  <2>6. LimitsType' /\ Ledgers'
    BY <1>1, <1>2, <1>3, <2>5 DEF LimitsType, Ledgers
  <2>7. /\ req'[c].phase # "authenticating" /\ (Mechanisms = <<>> => req'[c].todo = <<>>)
    BY <1>2, <2>2 DEF Looking
  <2> QED BY <1>1, <1>3, <2>2, <2>5, <2>6, <2>7, LimitedInv
<1>5. CASE ~(counted /\ Limiting)
  <2>1. Answered(c) /\ UNCHANGED <<failing, counting>>
    BY <1>1, <1>5 DEF TakeEntry
  <2>2. /\ req' \in [Client -> Request]
        /\ req'[c].phase = "idle" /\ req'[c].todo = <<>>
        /\ \A d \in Client \ {c} : req'[d] = req[d]
    BY <1>2, <2>1, AnsweredFacts
  <2>3. ASSUME NEW d \in Bucket PROVE Failures(d)'
    <3>1. \A p \in counting[d] : p \in Client
      BY <1>2 DEF LimitsType
    <3> QED BY <1>1, <1>2, <2>1, <2>2, <3>1, FailuresOn
  <2>4. LimitsType' /\ Ledgers'
    BY <1>1, <1>2, <1>3, <2>1 DEF LimitsType, Ledgers
  <2> QED BY <1>1, <1>3, <2>2, <2>3, <2>4, LimitedInv
<1> QED BY <1>4, <1>5

LEMMA CountRefusalInv ==
  ASSUME AdmissionInv, NEW c \in Client, CountRefusal(c)
  PROVE  AdmissionInv'
<1> DEFINE b == BucketOf[req[c].from]
<1>1. /\ req[c].phase = "refused" /\ CountFailure(c, b) /\ Answered(c)
      /\ UNCHANGED <<now, keyVars, buckets, tenants, apiKeys, history>>
  BY DEF CountRefusal
<1>2. LimitsType /\ now \in 0..MaxTime /\ RequestType /\ Looking(c) /\ Ledgers
      /\ \A d \in Bucket : Failures(d)
  BY DEF AdmissionInv, TypeOK
<1>3. UNCHANGED <<begun, left, passed, spent>> /\ verifying[c].phase = "none"
  BY <1>1, <1>2, NotLooking DEF history
<1>4. /\ req' \in [Client -> Request]
      /\ req'[c].phase = "idle" /\ req'[c].todo = <<>>
      /\ \A d \in Client \ {c} : req'[d] = req[d]
  BY <1>1, <1>2, AnsweredFacts
<1>5. /\ failing' \in [Bucket -> FailureEntry \cup {None}]
      /\ counting' \in [Bucket -> SUBSET Client] /\ \A d \in Bucket : Failures(d)'
  <2>1. CASE req[c].from # None
    <3>1. b \in Bucket /\ Of(c, b)
      BY <1>2, <2>1, AdmissionAssumption DEF RequestType, Request, Of
    <3> HIDE DEF b
    <3> QED BY <1>1, <1>2, <1>4, <3>1, CountFailures
  <2>2. CASE req[c].from = None
    <3>1. ASSUME NEW d \in Bucket PROVE c \notin counting[d]
      BY <1>2, <2>2 DEF Failures, Of
    <3> HIDE DEF b
    <3>2. b \notin Bucket \/ (b \in Bucket /\ c \notin counting[b])
      BY <3>1
    <3>3. /\ counting' = [counting EXCEPT ![b] = @ \ {c}]
          /\ failing' = IF c \in counting[b] THEN [failing EXCEPT ![b] = Count(@)] ELSE failing
      BY <1>1 DEF CountFailure
    <3>4. UNCHANGED <<failing, counting>>
      BY <1>2, <3>2, <3>3 DEF LimitsType
    <3>5. ASSUME NEW d \in Bucket PROVE Failures(d)'
      <4>1. \A p \in counting[d] : p \in Client \ {c}
        BY <1>2, <3>1 DEF LimitsType
      <4> QED BY <1>1, <1>2, <1>4, <3>4, <4>1, FailuresOn
    <3> QED BY <1>2, <3>4, <3>5 DEF LimitsType
  <2> QED BY <2>1, <2>2
<1>6. LimitsType' /\ Ledgers'
  BY <1>1, <1>2, <1>3, <1>5 DEF LimitsType, Ledgers
<1> QED BY <1>1, <1>3, <1>4, <1>5, <1>6, LimitedInv

\* A step that leaves requests and limits alone.
LEMMA HostInv ==
  ASSUME AdmissionInv,
         UNCHANGED <<now, limitVars, req, verifying, lastForced, refetches, begun, passed, spent>>,
         published' \subseteq Kid, left' \in Scenario, left'.mechanisms = left.mechanisms,
         StoreType', \A k \in ApiKey : Gone(k)'
  PROVE  AdmissionInv'
<1>1. UNCHANGED <<buckets, tenants, failing, counting>> /\ Mechanisms' = Mechanisms
  BY DEF limitVars, Mechanisms
<1>2. IssuerType' /\ Spaced'
  BY DEF AdmissionInv, TypeOK, IssuerType, Spaced
<1>3. \A c \in Client : Looking(c)'
  BY <1>1, LookingOn DEF AdmissionInv
<1>4. ASSUME NEW b \in Bucket PROVE Failures(b)'
  BY <1>1, FailuresOn DEF AdmissionInv
<1>5. Ledgers'
  BY <1>1 DEF AdmissionInv, Ledgers
<1>6. LimitsType' /\ RequestType'
  BY <1>1 DEF AdmissionInv, TypeOK, LimitsType, RequestType
<1> QED BY <1>2, <1>3, <1>4, <1>5, <1>6 DEF AdmissionInv, TypeOK

LEMMA ChangeKeysInv ==
  ASSUME AdmissionInv, ChangeKeys
  PROVE  AdmissionInv'
<1>1. StoreType /\ left \in Scenario /\ begun \in Nat /\ published \subseteq Kid
      /\ \A k \in ApiKey : Gone(k)
  BY DEF AdmissionInv, TypeOK, RequestType, IssuerType
<1>2. left' \in Scenario /\ left'.mechanisms = left.mechanisms
  <2>1. CASE UNCHANGED left
    BY <1>1, <2>1
  <2>2. CASE left.edits > 0 /\ left' = [left EXCEPT !.edits = @ - 1]
    BY <1>1, <2>2, ScenarioStep
  <2> QED BY <2>1, <2>2 DEF ChangeKeys
<1>3. KeysOnly /\ StoreType' /\ \A k \in ApiKey : Gone(k)'
  <2>1. CASE \E k \in ApiKey : SetEnabled(k)
    <3>1. PICK k \in ApiKey : SetEnabled(k)
      BY <2>1
    <3>2. keys[k] \in KeyRecord
      BY <1>1, <3>1 DEF SetEnabled, StoreType
    <3>3. [keys[k] EXCEPT !.enabled = ~@] \in KeyRecord
      BY <3>2 DEF KeyRecord
    <3>4. keys' \in [ApiKey -> KeyRecord \cup {None}]
      BY <1>1, <3>1, <3>3 DEF SetEnabled, StoreType
    <3> QED BY <1>1, <3>1, <3>4 DEF SetEnabled, StoreType, Gone
  <2>2. CASE \E k \in ApiKey : BeginUpdate(k)
    <3>1. PICK k \in ApiKey : BeginUpdate(k)
      BY <2>2
    <3>2. updating' \in [key : ApiKey, record : KeyRecord]
      BY <3>1, ClockAssumption DEF BeginUpdate, KeyRecord
    <3> QED BY <1>1, <3>1, <3>2 DEF BeginUpdate, StoreType, Gone
  <2>3. CASE \E k \in ApiKey : Delete(k)
    <3>1. PICK k \in ApiKey : Delete(k)
      BY <2>3
    <3>2. keys' \in [ApiKey -> KeyRecord \cup {None}]
      BY <1>1, <3>1 DEF Delete, StoreType
    <3> QED BY <1>1, <3>1, <3>2 DEF Delete, StoreType, Gone
  <2>4. CASE EndUpdate
    <3>1. updating.key \in ApiKey /\ updating.record \in KeyRecord
      BY <1>1, <2>4 DEF EndUpdate, StoreType
    <3>2. keys' \in [ApiKey -> KeyRecord \cup {None}]
      BY <1>1, <2>4, <3>1 DEF EndUpdate, StoreType
    <3> QED BY <1>1, <2>4, <3>2 DEF EndUpdate, StoreType, Gone
  <2>5. CASE \E k \in ApiKey : Unlist(k)
    <3>1. PICK k \in ApiKey : Unlist(k)
      BY <2>5
    <3>2. /\ UNCHANGED <<keys, updating>> /\ listed' = listed \ {k}
          /\ removed' = [removed EXCEPT ![k] = begun] /\ KeysOnly
      BY <3>1 DEF Unlist
    <3>3. StoreType'
      BY <1>1, <3>2 DEF StoreType
    <3>4. ASSUME NEW d \in ApiKey PROVE Gone(d)'
      BY <1>1, <3>2 DEF StoreType, Gone
    <3> QED BY <3>2, <3>3, <3>4
  <2> QED BY <2>1, <2>2, <2>3, <2>4, <2>5 DEF ChangeKeys
<1> QED BY <1>1, <1>2, <1>3, HostInv DEF KeysOnly, keyVars

LEMMA RotateKeysInv ==
  ASSUME AdmissionInv, RotateKeys
  PROVE  AdmissionInv'
<1>1. /\ published' \subseteq Kid
      /\ UNCHANGED <<now, lastForced, refetches, verifying, limitVars, apiKeys, req, begun, passed, spent>>
      /\ left.rotations > 0 /\ left' = [left EXCEPT !.rotations = @ - 1]
  BY DEF RotateKeys, Publish
<1>2. left' \in Scenario /\ left'.mechanisms = left.mechanisms
  BY <1>1, ScenarioStep DEF AdmissionInv, TypeOK, RequestType
<1>3. StoreType' /\ \A k \in ApiKey : Gone(k)'
  BY <1>1, StoreOn DEF AdmissionInv, TypeOK
<1> QED BY <1>1, <1>2, <1>3, HostInv

LEMMA TickInv ==
  ASSUME AdmissionInv, Tick
  PROVE  AdmissionInv'
<1>1. /\ now < MaxTime /\ \A c \in Client : req[c].phase # "refused"
      /\ now' = now + 1 /\ UNCHANGED <<keyVars, limitVars, apiKeys, req, history>>
  BY DEF Tick
<1>2. /\ now \in 0..MaxTime /\ now \in Nat /\ now' \in 0..MaxTime
      /\ UNCHANGED <<published, lastForced, refetches, verifying, buckets, tenants, failing,
                     counting, begun, left, passed, spent, Mechanisms>>
  BY <1>1, ClockAssumption DEF AdmissionInv, TypeOK, keyVars, limitVars, history, Mechanisms
<1>3. Spaced' /\ Ledgers'
  BY <1>1, <1>2, TickSpaced, TickLedgers DEF AdmissionInv, TypeOK
<1>4. StoreType' /\ \A k \in ApiKey : Gone(k)'
  BY <1>1, StoreOn DEF AdmissionInv, TypeOK
<1>5. \A c \in Client : Looking(c)'
  BY <1>1, <1>2, LookingOn DEF AdmissionInv
<1>6. \A b \in Bucket : Failures(b)'
  BY <1>1, <1>2, TickFailures DEF AdmissionInv, TypeOK
<1>7. TypeOK'
  BY <1>1, <1>2, <1>4 DEF AdmissionInv, TypeOK, IssuerType, LimitsType, RequestType
<1> QED BY <1>3, <1>4, <1>5, <1>6, <1>7 DEF AdmissionInv

LEMMA InitAdmissionInv == Init => AdmissionInv
<1> SUFFICES ASSUME Init PROVE AdmissionInv
  OBVIOUS
<1>1. /\ now = 0 /\ published \subseteq Kid /\ lastForced = None /\ refetches = 0
      /\ verifying = [c \in Client |-> NoToken]
      /\ buckets = [b \in Bucket |-> None] /\ tenants = [t \in Tenant |-> None]
      /\ failing = [b \in Bucket |-> None] /\ counting = [b \in Bucket |-> {}]
      /\ keys = [k \in ApiKey |-> [enabled |-> TRUE, expires |-> MaxTime - 1]]
      /\ listed = ApiKey /\ updating = None
      /\ req = [c \in Client |-> Idle] /\ begun = 0 /\ left \in Scenario
      /\ removed = [k \in ApiKey |-> None]
      /\ passed = [b \in Bucket |-> Never] /\ spent = [t \in Tenant |-> Never]
  BY AdmissionAssumption DEF Init, KeysInit, LimitsInit, Scenario
<1>2. /\ 0 \in 0..MaxTime /\ MaxTime - 1 \in Nat /\ MaxTime \in Nat
  BY ClockAssumption
<1>3. Never \in [0..MaxTime -> Nat] /\ \A t \in 0..MaxTime : Never[t] = 0
  BY DEF Never
<1>4. NoToken \in TokenState /\ NoToken.phase = "none"
  BY DEF NoToken, TokenState, TokenPhase
<1>5. TypeOK
  <2>1. IssuerType
    <3> HIDE DEF TokenState
    <3> QED BY <1>1, <1>4 DEF IssuerType
  <2>2. LimitsType
    BY <1>1, <1>3 DEF LimitsType
  <2>3. StoreType
    BY <1>1, <1>2 DEF StoreType, KeyRecord
  <2>4. RequestType
    <3> HIDE DEF Request, Scenario
    <3> QED BY <1>1, IdleType DEF RequestType
  <2> QED BY <1>1, <1>2, <2>1, <2>2, <2>3, <2>4 DEF TypeOK
<1>6. Ledgers
  <2>1. ASSUME NEW burst \in Nat, NEW rate \in Nat PROVE Ledger(None, Never, burst, rate, 0)
    <3>1. ASSUME NEW j \in 0..0, NEW i \in 0..j
          PROVE  Within(Never, i, j) <= burst + rate * (j - i)
      <4>1. i = 0 /\ j = 0
        OBVIOUS
      <4>2. Within(Never, 0, 0) = 0 /\ rate * (0 - 0) = 0
        BY <1>2, <1>3 DEF Within
      <4> QED BY <4>1, <4>2
    <3> QED BY <1>3, <3>1 DEF Ledger
  <2>2. Burst \in Nat /\ Rate \in Nat /\ TenantBurst \in Nat /\ TenantRate \in Nat
    BY RateLimitsAssumption
  <2> QED BY <1>1, <2>1, <2>2 DEF Ledgers
<1>7. Spaced /\ \A k \in ApiKey : Gone(k)
  BY <1>1 DEF Spaced, Gone
<1>8. \A c \in Client : Looking(c)
  BY <1>1, <1>4, IdleType DEF Looking
<1>9. \A b \in Bucket : Failures(b)
  BY <1>1 DEF Failures
<1> QED BY <1>5, <1>6, <1>7, <1>8, <1>9 DEF AdmissionInv

LEMMA StutterInv ==
  ASSUME AdmissionInv, UNCHANGED vars
  PROVE  AdmissionInv'
<1>1. UNCHANGED <<now, keyVars, limitVars, apiKeys, req, history>>
  BY DEF vars
<1>2. UNCHANGED <<published, verifying, lastForced, refetches, begun, passed, spent, left>>
  BY <1>1 DEF keyVars, history
<1>3. StoreType' /\ \A k \in ApiKey : Gone(k)'
  BY <1>1, StoreOn DEF AdmissionInv, TypeOK
<1> QED BY <1>1, <1>2, <1>3, HostInv DEF AdmissionInv, TypeOK, IssuerType, RequestType

LEMMA NextAdmissionInv == AdmissionInv /\ [Next]_vars => AdmissionInv'
<1> SUFFICES ASSUME AdmissionInv, [Next]_vars PROVE AdmissionInv'
  OBVIOUS
<1>1. ASSUME NEW c \in Client, NEW arrival \in left.arrivals, Arrive(c, arrival)
      PROVE  AdmissionInv'
  BY <1>1, ArriveInv
<1>2. ASSUME NEW c \in Client, Authenticate(c) PROVE AdmissionInv'
  BY <1>2, TryTokenInv, TryKeyInv, TryNothingInv, FindKeyInv DEF Authenticate
<1>3. ASSUME NEW c \in Client,
             Admit(c) \/ Refuse(c) \/ CountRefusal(c) \/ Respond(c) \/ Disconnect(c)
      PROVE  AdmissionInv'
  BY <1>3, AdmitInv, RefuseInv, CountRefusalInv, RespondInv, DisconnectInv
<1>4. CASE ChangeKeys
  BY <1>4, ChangeKeysInv
<1>5. CASE RotateKeys
  BY <1>5, RotateKeysInv
<1>6. CASE Tick
  BY <1>6, TickInv
<1>7. CASE UNCHANGED vars
  BY <1>7, StutterInv
<1> QED BY <1>1, <1>2, <1>3, <1>4, <1>5, <1>6, <1>7 DEF Next

\* Types hold, bans are bounded, nothing is let past a bucket unseen: the invariant the
\* theorems below rest on (the state of src/auth/middleware.rs, rate_limit.rs, store.rs
\* and jwt_authn.rs).
THEOREM AdmissionInvariant == Spec => []AdmissionInv
<1>1. Init => AdmissionInv
  BY InitAdmissionInv
<1>2. AdmissionInv /\ [Next]_vars => AdmissionInv'
  BY NextAdmissionInv
<1> QED BY <1>1, <1>2, PTL DEF Spec

-----------------------------------------------------------------------------
(* The theorems                                                            *)

\* No client and no tenant is let through more often, in any stretch of time, than its
\* burst and the time passed allow, whatever the caches forget and however many ask at
\* once (RateLimiter::check_ip_limit and check_tenant_limit of src/auth/rate_limit.rs).
THEOREM AllowancesHold == Spec => []AllowanceHolds
<1>1. AdmissionInv => AllowanceHolds
  <2> SUFFICES ASSUME AdmissionInv, Limiting, NEW j \in 0..now, NEW i \in 0..j
               PROVE  /\ \A b \in Bucket : Within(passed[b], i, j) <= Burst + Rate * (j - i)
                      /\ \A t \in Tenant :
                           Within(spent[t], i, j) <= TenantBurst + TenantRate * (j - i)
    BY DEF AllowanceHolds
  <2> QED BY DEF AdmissionInv, Ledgers, Ledger
<1> QED BY <1>1, AdmissionInvariant, PTL

\* Tokens that name unknown keys cause no more fetches of the issuer's keys than one per
\* interval (may_refetch_jwks of src/auth/jwt_authn.rs).
THEOREM RefetchesSpaced == Spec => []RefetchesAreSpaced
<1>1. AdmissionInv => RefetchesAreSpaced
  <2> SUFFICES ASSUME AdmissionInv
               PROVE  refetches * RefetchInterval <= now + RefetchInterval
    BY DEF RefetchesAreSpaced
  <2>1. now \in Nat /\ refetches \in Nat /\ RefetchInterval \in Nat
        /\ lastForced \in Nat \cup {None}
    BY KeySetsAssumption DEF AdmissionInv, TypeOK, IssuerType
  <2>2. CASE lastForced = None
    BY <2>1, <2>2 DEF AdmissionInv, Spaced
  <2>3. CASE lastForced # None
    <3> DEFINE product == refetches * RefetchInterval
    <3>1. lastForced <= now /\ product <= lastForced + RefetchInterval /\ product \in Nat
      BY <2>1, <2>3 DEF AdmissionInv, Spaced
    <3> HIDE DEF product
    <3>2. product <= now + RefetchInterval
      BY <2>1, <2>3, <3>1
    <3> QED BY <3>2 DEF product
  <2> QED BY <2>2, <2>3
<1> QED BY <1>1, AdmissionInvariant, PTL

\* A request becomes known only where a mechanism, or their absence, makes it so.
LEMMA BecomesKnown ==
  ASSUME AdmissionInv, [Next]_vars, NEW c \in Client,
         req[c].phase = "authenticating", req'[c].phase = "known"
  PROVE  TryToken(c) \/ TryKey(c) \/ TryNothing(c)
<1>0. req \in [Client -> Request] /\ RequestType
  BY DEF AdmissionInv, TypeOK, RequestType
<1>1. ~UNCHANGED req
  OBVIOUS
<1>2. ASSUME NEW d \in Client, NEW r, req' = [req EXCEPT ![d] = r],
             d # c \/ r.phase # "known"
      PROVE  FALSE
  <2> HIDE DEF Request
  <2>1. req'[c] = req[c] \/ req'[c] = r
    BY <1>0, <1>2
  <2>2. d # c => req'[c] = req[c]
    BY <1>0, <1>2
  <2> QED BY <1>2, <2>1, <2>2
<1>3. ASSUME NEW d \in Client, Answered(d) PROVE FALSE
  BY <1>2, <1>3, IdleType DEF Answered
<1>4. ASSUME NEW d \in Client, NEW arrival \in left.arrivals, Arrive(d, arrival) PROVE FALSE
  <2>1. CASE Answered(d)
    BY <1>3, <2>1
  <2>2. CASE \E from, number : req' = [req EXCEPT ![d] = [Idle EXCEPT
               !.phase = "authenticating", !.with = arrival.with, !.from = from,
               !.arrived = arrival, !.number = number, !.todo = Mechanisms]]
    <3>1. PICK from, number : req' = [req EXCEPT ![d] = [Idle EXCEPT
               !.phase = "authenticating", !.with = arrival.with, !.from = from,
               !.arrived = arrival, !.number = number, !.todo = Mechanisms]]
      BY <2>2
    <3> DEFINE next == [Idle EXCEPT
               !.phase = "authenticating", !.with = arrival.with, !.from = from,
               !.arrived = arrival, !.number = number, !.todo = Mechanisms]
    <3>2. next.phase # "known"
      BY DEF Idle
    <3>3. req' = [req EXCEPT ![d] = next]
      BY <3>1
    <3>4. d # c \/ next.phase # "known"
      BY <3>2
    <3> HIDE DEF next
    <3> QED BY ONLY <1>2, <3>3, <3>4, d \in Client
  <2> HIDE DEF Answered
  <2> QED BY <1>4, <2>1, <2>2 DEF Arrive
<1>5. ASSUME NEW d \in Client, Admit(d) \/ Refuse(d) \/ CountRefusal(d) \/ Respond(d) \/ Disconnect(d)
      PROVE  FALSE
  <2>1. ASSUME NEW phase \in {"handled", "refused"}, req' = [req EXCEPT ![d].phase = phase]
        PROVE  FALSE
    <3>1. req'[d].phase = phase /\ \A e \in Client \ {d} : req'[e] = req[e]
      BY <1>0, <2>1, PhaseFacts DEF Phase
    <3> QED BY <2>1, <3>1
  <2> HIDE DEF Answered
  <2> QED BY <1>3, <1>5, <2>1 DEF Admit, Refuse, CountRefusal, Respond, Disconnect
<1>6. ASSUME NEW d \in Client, Authenticate(d)
      PROVE  d = c /\ (TryToken(c) \/ TryKey(c) \/ TryNothing(c))
  <2>1. ~(FindKey(d) /\ UNCHANGED <<limitVars, apiKeys, req, history>>)
    BY <1>1
  <2>2. TryToken(d) \/ TryKey(d) \/ TryNothing(d)
    BY <1>6, <2>1 DEF Authenticate
  <2>3. ASSUME NEW e \in {"absent", "rejected", "fault"}, Fails(d, e) PROVE d = c
    BY <1>0, <2>3 DEF Fails
  <2>4. ASSUME NEW t, NEW x, Succeeds(d, t, x) PROVE d = c
    BY <1>0, <2>4 DEF Succeeds
  <2> HIDE DEF Fails, Succeeds
  <2>5. d = c
    BY <1>1, <2>2, <2>3, <2>4 DEF TryToken, TryKey, TryNothing
  <2> QED BY <2>2, <2>5
<1>7. ~(ChangeKeys \/ RotateKeys \/ Tick \/ UNCHANGED vars)
  BY <1>1 DEF ChangeKeys, RotateKeys, Tick, vars, KeysOnly, SetEnabled, BeginUpdate, Delete,
    EndUpdate, Unlist
<1> QED BY <1>4, <1>5, <1>6, <1>7 DEF Next

\* A request begun after an API key was deleted is not let in with it: what its prefix
\* leads to went before (ApiKeyStore::delete and get_by_prefix of src/auth/store.rs).
THEOREM DeletedKeysAdmitNobodyHolds == Spec => DeletedKeysAdmitNobody
<1>1. ASSUME AdmissionInv, [Next]_vars, NEW c \in Client,
             req[c].phase = "authenticating", req'[c].phase = "known",
             req[c].with.kind = "key", Mechanisms # <<>>
      PROVE  removed[req[c].with.key] = None
  <2>0. RequestType /\ Looking(c) /\ StoreType
    BY <1>1 DEF AdmissionInv, TypeOK
  <2>1. TryToken(c) \/ TryKey(c)
    BY <1>1, BecomesKnown DEF TryNothing
  <2>2. ASSUME NEW e \in {"absent", "rejected", "fault"}, Fails(c, e) PROVE FALSE
    <3>1. req[c].todo # <<>>
      BY <2>1 DEF TryToken, TryKey, Trying
    <3> QED BY <1>1, <2>0, <2>2, <3>1, FailsFacts
  <2>3. ~TryToken(c)
    <3> SUFFICES ASSUME TryToken(c) PROVE FALSE
      OBVIOUS
    <3>1. verifying[c].phase = "none"
      BY <1>1, <2>0 DEF Looking
    <3> HIDE DEF Fails
    <3> QED BY <1>1, <2>2, <3>1 DEF TryToken
  <2>4. TryKey(c)
    BY <2>1, <2>3
  <2>5. Found(req[c].with.key) /\ req[c].with.key \in ApiKey
    <3>1. req[c].with.key \in ApiKey
      BY <1>1, <2>0, CredentialKinds DEF Looking
    <3> HIDE DEF Fails, Found
    <3> QED BY <1>1, <2>2, <2>4, <3>1 DEF TryKey
  <2> QED BY <1>1, <2>5 DEF Found, AdmissionInv, Gone
<1>2. AdmissionInv /\ [Next]_vars =>
        [\A c \in Client : req[c].phase = "authenticating" /\ req'[c].phase = "known" =>
           (req[c].with.kind = "key" /\ Mechanisms # <<>> =>
              LET gone == removed[req[c].with.key] IN gone = None \/ gone >= req[c].number)]_vars
  BY <1>1
<1> QED BY <1>2, AdmissionInvariant, PTL DEF Spec, DeletedKeysAdmitNobody

LEMMA BanFacts ==
  ASSUME AdmissionInv, NEW b \in Bucket, Banned(b)
  PROVE  /\ Limiting /\ failing[b] # None /\ failing[b] \in FailureEntry
         /\ failing[b].until \in Nat /\ now < failing[b].until
         /\ failing[b].used \in Nat /\ failing[b].used <= now
         /\ failing[b].until <= failing[b].used + BanTime
         /\ now \in Nat /\ BanTime \in Nat /\ Hour \in Nat /\ BanTime <= Hour /\ Hour > 0
<1>1. /\ failing[b] # None /\ now < failing[b].until /\ failing[b].until # None
      /\ now - failing[b].used < Hour
  BY DEF Banned, Entry
<1>2. /\ failing[b] \in FailureEntry /\ Failures(b) /\ now \in Nat
  BY <1>1 DEF AdmissionInv, TypeOK, LimitsType
<1>3. failing[b].until \in Nat /\ failing[b].used \in Nat
  BY <1>1, <1>2 DEF FailureEntry
<1> QED BY <1>1, <1>2, <1>3, RateLimitsAssumption DEF Failures

LEMMA StaysBanned ==
  ASSUME NEW b \in Bucket, failing'[b] # None, failing'[b].until # None,
         now' < failing'[b].until, now' - failing'[b].used < Hour
  PROVE  Banned(b)'
  BY DEF Banned, Entry

\* What a step may do to a ban that stands.
BanKept(b) ==
  /\ passed'[b] = passed[b]
  /\ \/ Banned(b)' \/ now' >= failing[b].until
     \/ \E c \in Client : Of(c, b) /\ req[c].phase = "known" /\ req'[c].phase # "known"
     \/ /\ now - failing[b].first > Hour
        /\ \E c \in Client : Of(c, b) /\ req[c].phase = "refused"

LEMMA BanUnchanged ==
  ASSUME AdmissionInv, NEW b \in Bucket, Banned(b), now' = now,
         passed'[b] = passed[b], failing'[b] = failing[b]
  PROVE  BanKept(b)
  BY DEF BanKept, Banned, Entry

LEMMA BanUsed ==
  ASSUME AdmissionInv, NEW b \in Bucket, Banned(b), now' = now,
         passed'[b] = passed[b], failing'[b] = [failing[b] EXCEPT !.used = now]
  PROVE  BanKept(b)
<1>1. /\ failing[b] # None /\ failing[b] \in FailureEntry /\ failing[b].until \in Nat
      /\ now < failing[b].until /\ now \in Nat /\ Hour \in Nat /\ Hour > 0
  BY BanFacts
<1>2. failing'[b].used = now /\ failing'[b].until = failing[b].until /\ failing'[b] # None
  <2>1. [failing[b] EXCEPT !.used = now] \in FailureEntry
    BY <1>1 DEF FailureEntry
  <2>2. [failing[b] EXCEPT !.used = now].used = now
        /\ [failing[b] EXCEPT !.used = now].until = failing[b].until
    BY <1>1 DEF FailureEntry
  <2> QED BY <2>1, <2>2, RateLimitsAssumption
<1>3. Banned(b)'
  <2>1. failing'[b].until # None /\ now' < failing'[b].until /\ now' - failing'[b].used < Hour
    BY <1>1, <1>2, ClockAssumption
  <2> QED BY <1>2, <2>1, StaysBanned
<1> QED BY <1>3 DEF BanKept

LEMMA ArriveBan ==
  ASSUME AdmissionInv, NEW b \in Bucket, Banned(b),
         NEW c \in Client, NEW arrival \in left.arrivals, Arrive(c, arrival)
  PROVE  BanKept(b)
<1> DEFINE d == BucketOf[ClientAddress(arrival)]
<1>0. LimitsType /\ Limiting
  BY BanFacts DEF AdmissionInv, TypeOK
<1>1. /\ now' = now
      /\ \/ UNCHANGED <<buckets, failing, passed>>
         \/ /\ failing' = [failing EXCEPT ![d] = Looked(d)]
            /\ passed' = IF CheckIpLimit(d) THEN [passed EXCEPT ![d] = OneMore(@)] ELSE passed
  BY <1>0 DEF Arrive, SpendIpToken
<1>2. CASE UNCHANGED <<buckets, failing, passed>>
  BY <1>1, <1>2, BanUnchanged
<1>3. CASE /\ failing' = [failing EXCEPT ![d] = Looked(d)]
           /\ passed' = IF CheckIpLimit(d) THEN [passed EXCEPT ![d] = OneMore(@)] ELSE passed
  <2> HIDE DEF d
  <2>1. CASE d = b
    <3>1. passed' = passed
      BY <1>0, <1>3, <2>1 DEF CheckIpLimit
    <3>2. failing'[b] = [failing[b] EXCEPT !.used = now]
      BY <1>0, <1>3, <2>1 DEF LimitsType, Looked, Banned
    <3> QED BY <1>1, <3>1, <3>2, BanUsed
  <2>2. CASE d # b
    <3>1. passed'[b] = passed[b] /\ failing'[b] = failing[b]
      BY <1>0, <1>3, <2>2 DEF LimitsType
    <3> QED BY <1>1, <3>1, BanUnchanged
  <2> QED BY <2>1, <2>2
<1> QED BY <1>1, <1>2, <1>3

LEMMA AdmitBan ==
  ASSUME AdmissionInv, NEW b \in Bucket, Banned(b), NEW c \in Client, Admit(c)
  PROVE  BanKept(b)
<1> DEFINE d == BucketOf[req[c].from]
<1>0. LimitsType /\ Limiting /\ RequestType
  BY BanFacts DEF AdmissionInv, TypeOK
<1>1. /\ now' = now /\ passed' = passed /\ req[c].phase = "known"
      /\ \/ UNCHANGED failing
         \/ req[c].from # None /\ failing' = [failing EXCEPT ![d] = None]
      /\ Answered(c) \/ req' = [req EXCEPT ![c].phase = "handled"]
  BY <1>0 DEF Admit, RecordSuccess
<1>2. CASE UNCHANGED failing
  BY <1>1, <1>2, BanUnchanged
<1>3. CASE req[c].from # None /\ failing' = [failing EXCEPT ![d] = None]
  <2>1. CASE d = b
    <3>1. req'[c].phase # "known"
      <4>1. CASE Answered(c)
        BY <1>0, <4>1, AnsweredFacts
      <4>2. CASE req' = [req EXCEPT ![c].phase = "handled"]
        BY <1>0, <4>2, PhaseFacts DEF Phase
      <4> QED BY <1>1, <4>1, <4>2
    <3> QED BY <1>1, <1>3, <2>1, <3>1 DEF BanKept, Of
  <2>2. CASE d # b
    <3> HIDE DEF d
    <3>1. failing'[b] = failing[b]
      BY <1>0, <1>3, <2>2 DEF LimitsType
    <3> QED BY <1>1, <3>1, BanUnchanged
  <2> QED BY <2>1, <2>2
<1> QED BY <1>1, <1>2, <1>3

LEMMA RefuseBan ==
  ASSUME AdmissionInv, NEW b \in Bucket, Banned(b), NEW c \in Client, Refuse(c)
  PROVE  BanKept(b)
<1> DEFINE d == BucketOf[req[c].from]
<1>0. LimitsType /\ Limiting
  BY BanFacts DEF AdmissionInv, TypeOK
<1>1. /\ now' = now /\ passed' = passed
      /\ \/ UNCHANGED failing
         \/ failing' = [failing EXCEPT ![d] = IF Entry(d) = None THEN NewEntry
                                              ELSE [failing[d] EXCEPT !.used = now]]
  BY <1>0 DEF Refuse, TakeEntry, history
<1>2. CASE UNCHANGED failing
  BY <1>1, <1>2, BanUnchanged
<1>3. CASE failing' = [failing EXCEPT ![d] = IF Entry(d) = None THEN NewEntry
                                             ELSE [failing[d] EXCEPT !.used = now]]
  <2> HIDE DEF d
  <2>1. CASE d = b
    <3>1. failing'[b] = [failing[b] EXCEPT !.used = now]
      BY <1>0, <1>3, <2>1 DEF LimitsType, Banned
    <3> QED BY <1>1, <3>1, BanUsed
  <2>2. CASE d # b
    <3>1. failing'[b] = failing[b]
      BY <1>0, <1>3, <2>2 DEF LimitsType
    <3> QED BY <1>1, <3>1, BanUnchanged
  <2> QED BY <2>1, <2>2
<1> QED BY <1>1, <1>2, <1>3

LEMMA CountRefusalBan ==
  ASSUME AdmissionInv, NEW b \in Bucket, Banned(b), NEW c \in Client, CountRefusal(c)
  PROVE  BanKept(b)
<1> DEFINE d == BucketOf[req[c].from]
<1>0. LimitsType /\ Failures(b)
  BY DEF AdmissionInv, TypeOK
<1>1. /\ now' = now /\ passed' = passed /\ req[c].phase = "refused"
      /\ failing' = IF c \in counting[d] THEN [failing EXCEPT ![d] = Count(@)] ELSE failing
  BY DEF CountRefusal, CountFailure, history
<1> HIDE DEF d
<1>2. CASE ~(d = b /\ c \in counting[b])
  <2>1. failing'[b] = failing[b]
    BY <1>0, <1>1, <1>2 DEF LimitsType
  <2> QED BY <1>1, <2>1, BanUnchanged
<1>3. CASE d = b /\ c \in counting[b]
  <2> DEFINE f == failing[b]
             e == Count(f)
  <2>1. /\ f # None /\ f \in FailureEntry /\ f.until \in Nat /\ now < f.until /\ f.used = now
        /\ f.until <= now + BanTime /\ f.first \in Nat
        /\ now \in Nat /\ BanTime \in Nat /\ Hour \in Nat /\ Hour > 0
    BY <1>0, <1>3, BanFacts DEF Failures, FailureEntry
  <2>2. /\ e \in FailureEntry /\ e # None /\ e.used = now
        /\ now - f.first <= Hour => e.until \in {f.until, now + BanTime}
    BY <2>1, CountFacts
  <2>3. failing'[b] = e
    BY <1>0, <1>1, <1>3 DEF LimitsType
  <2>4. CASE now - f.first > Hour
    BY <1>0, <1>1, <1>3, <2>4 DEF BanKept, Failures, LimitsType
  <2>5. CASE ~(now - f.first > Hour)
    <3>1. now - f.first <= Hour
      BY <2>1, <2>5
    <3> HIDE DEF e
    <3>2. /\ failing'[b].until \in {f.until, now + BanTime} /\ failing'[b].used = now
          /\ failing'[b] # None
      BY <2>2, <2>3, <3>1
    <3> HIDE DEF f
    <3>3. /\ failing'[b].until # None /\ now' < failing'[b].until
          /\ now' - failing'[b].used < Hour
      BY <1>1, <2>1, <3>2, ClockAssumption
    <3>4. Banned(b)'
      BY <3>2, <3>3, StaysBanned
    <3> QED BY <1>1, <3>4 DEF BanKept
  <2> QED BY <2>4, <2>5
<1> QED BY <1>2, <1>3

LEMMA TickBan ==
  ASSUME AdmissionInv, NEW b \in Bucket, Banned(b), Tick
  PROVE  BanKept(b)
<1>1. now' = now + 1 /\ passed' = passed /\ failing' = failing
  BY DEF Tick, limitVars, history
<1>2. CASE now' >= failing[b].until
  BY <1>1, <1>2 DEF BanKept
<1>3. CASE ~(now' >= failing[b].until)
  <2>1. /\ failing'[b] # None /\ failing'[b].until # None
        /\ now' < failing'[b].until /\ now' - failing'[b].used < Hour
    BY <1>1, <1>3, BanFacts, ClockAssumption
  <2> QED BY <1>1, <2>1, StaysBanned DEF BanKept
<1> QED BY <1>2, <1>3

\* A ban stands until it is over, unless one of the client's requests succeeds, or fails
\* after the window its failures were counted in; and while it stands none of the
\* client's requests is let through (record_auth_failure, record_auth_success and
\* is_ip_banned of src/auth/rate_limit.rs).
THEOREM BansStand == Spec => BansHold
<1>1. ASSUME AdmissionInv, [Next]_vars, NEW b \in Bucket, Banned(b)
      PROVE  BanKept(b)
  <2>1. ASSUME UNCHANGED <<now, failing, passed>> PROVE BanKept(b)
    BY <1>1, <2>1, BanUnchanged
  <2>2. ASSUME NEW c \in Client, NEW arrival \in left.arrivals, Arrive(c, arrival)
        PROVE  BanKept(b)
    BY <1>1, <2>2, ArriveBan
  <2>3. ASSUME NEW c \in Client, Authenticate(c) PROVE UNCHANGED <<now, failing, passed>>
    <3> HIDE DEF Fails, Succeeds, Verify
    <3>1. CASE FindKey(c) /\ UNCHANGED <<limitVars, apiKeys, req, history>>
      BY <3>1 DEF FindKey, LookForKey, IssuerAnswers, StoreKeySet, KeepDecodingKey,
        limitVars, history
    <3>2. CASE TryToken(c) \/ TryKey(c) \/ TryNothing(c)
      BY <3>2 DEF TryToken, TryKey, TryNothing, limitVars, history
    <3> QED BY <2>3, <3>1, <3>2 DEF Authenticate
  <2>4. ASSUME NEW c \in Client, Admit(c) \/ Refuse(c) \/ CountRefusal(c) PROVE BanKept(b)
    BY <1>1, <2>4, AdmitBan, RefuseBan, CountRefusalBan
  <2>5. ASSUME NEW c \in Client, Respond(c) \/ Disconnect(c)
        PROVE  UNCHANGED <<now, failing, passed>>
    BY <2>5 DEF Respond, Disconnect, limitVars, history
  <2>6. ChangeKeys \/ RotateKeys \/ UNCHANGED vars => UNCHANGED <<now, failing, passed>>
    BY DEF ChangeKeys, RotateKeys, Publish, vars, limitVars, history, KeysOnly, SetEnabled,
      BeginUpdate, Delete, EndUpdate, Unlist
  <2>7. CASE Tick
    BY <1>1, <2>7, TickBan
  <2> QED BY <1>1, <2>1, <2>2, <2>3, <2>4, <2>5, <2>6, <2>7 DEF Next
<1>2. AdmissionInv /\ [Next]_vars => [\A b \in Bucket : Banned(b) => BanKept(b)]_vars
  BY <1>1
<1>3. Spec => [][\A b \in Bucket : Banned(b) => BanKept(b)]_vars
  BY <1>2, AdmissionInvariant, PTL DEF Spec
<1> QED BY <1>3 DEF BansHold, BanKept
=============================================================================
