---------------------------- MODULE DelegationKeys ----------------------------
(***************************************************************************)
(* The user delegation key that Azure signs with (src/credentials/azure.rs):*)
(* one is kept until it is close to its end, several requests may fetch    *)
(* one at once, and a signature is good for a time of its own.             *)
(***************************************************************************)
EXTENDS Naturals

CONSTANTS
  Client,
  MaxTime,                         \* bound: ticks of the clock
  KeyLifetime, KeyRefreshMargin,   \* in ticks, as KEY_LIFETIME_HOURS and KEY_REFRESH_MARGIN
  Duration,                        \* what a signature is good for, as configured
  ExchangeTime                     \* how long an exchange may take before it is given up

ASSUME DelegationKeysAssumption ==
  /\ {MaxTime, KeyLifetime, KeyRefreshMargin, Duration, ExchangeTime} \subseteq Nat
  /\ KeyLifetime >= Duration + ExchangeTime

VARIABLES
  now,         \* ticks since the start
  keyEnd,      \* when the key that is kept ends; 0 where there is none
  fetches,     \* keys being fetched: for whom, and since when
  sas          \* history, per client: when its last signature ends, and when its key does

keyVars == <<now, keyEnd, fetches, sas>>

KeysInit ==
  /\ now = 0 /\ keyEnd = 0 /\ fetches = {}
  /\ sas = [c \in Client |-> [end |-> 0, keyEnd |-> 0]]

\* Bug: a key is good to its last moment.
GoodTillItEnds == keyEnd > now

HasGoodKey == keyEnd > now + KeyRefreshMargin

SignWith(c, end) == sas' = [sas EXCEPT ![c] = [end |-> now + Duration, keyEnd |-> end]]

SignWithKept(c) ==
  /\ HasGoodKey
  /\ SignWith(c, keyEnd)
  /\ UNCHANGED <<now, keyEnd, fetches>>

StartFetch(c) ==
  /\ ~HasGoodKey
  /\ fetches' = fetches \cup {[by |-> c, since |-> now]}
  /\ UNCHANGED <<now, keyEnd, sas>>

\* The key fetched is kept, though another that was asked for later may be there.
FinishFetch(c) ==
  \E f \in fetches :
    /\ f.by = c
    /\ keyEnd' = f.since + KeyLifetime
    /\ SignWith(c, f.since + KeyLifetime)
    /\ fetches' = fetches \ {f}
    /\ UNCHANGED now

FailFetch(c) ==
  /\ \E f \in fetches : f.by = c /\ fetches' = fetches \ {f}
  /\ UNCHANGED <<now, keyEnd, sas>>

\* No exchange is waited for any longer.
Tick ==
  /\ now < MaxTime
  /\ \A f \in fetches : now < f.since + ExchangeTime
  /\ now' = now + 1
  /\ UNCHANGED <<keyEnd, fetches, sas>>
=============================================================================
