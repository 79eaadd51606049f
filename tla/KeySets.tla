------------------------------ MODULE KeySets -------------------------------
(***************************************************************************)
(* Which of the issuer's keys verify a token (src/auth/jwt_authn.rs).  A   *)
(* request that finds no decoding key looks at the cached key set, fetches *)
(* the set where that has lapsed or does not name the key, and keeps the   *)
(* decoding key it arrives at.  Fetches are not shared: requests fetch at  *)
(* the same time, and store what the issuer answered in any order.         *)
(***************************************************************************)
EXTENDS Clock

CONSTANTS
  Kid,
  Signing,           \* the keys published for signatures, and well formed
  CacheTtl, RefetchInterval

ASSUME KeySetsAssumption ==
  /\ Signing \subseteq Kid /\ None \notin Kid
  /\ CacheTtl \in Nat /\ RefetchInterval \in Nat \ {0}

VARIABLES
  published,    \* the keys in the set the issuer publishes
  cached,       \* the key set kept and when it lapses, or None
  decoding,     \* the decoding keys kept
  lastForced,   \* when a fetch for an unknown key was last let through, or None
  refetches,    \* history: the fetches let through so
  verifying     \* per client the token whose key it is looking for

keyVars == <<published, cached, decoding, lastForced, refetches, verifying>>

NoToken == [phase |-> "none", kid |-> None, forced |-> FALSE, set |-> {}]

\* Looks for the key of a token that names it.
Verify(c, kid) == verifying' = [verifying EXCEPT ![c] = [NoToken EXCEPT !.phase = "looking", !.kid = kid]]

\* Whether a fetch for an unknown key may be made, which takes the interval's turn.
MayRefetch == lastForced = None \/ now - lastForced >= RefetchInterval

\* Bug: every unknown key is worth a fetch.
RefetchAlways(c, set) ==
  LET kid == verifying[c].kid
  IN IF kid \in set
       THEN verifying' = [verifying EXCEPT ![c].phase = "found"] /\ UNCHANGED <<lastForced, refetches>>
       ELSE /\ verifying' = [verifying EXCEPT ![c].phase = "fetching", ![c].forced = TRUE]
            /\ lastForced' = now /\ refetches' = refetches + 1

\* A key the set does not name is fetched for, at most once per interval.
Consider(c, set) ==
  LET kid == verifying[c].kid
  IN IF kid \in set
       THEN verifying' = [verifying EXCEPT ![c].phase = "found"] /\ UNCHANGED <<lastForced, refetches>>
     ELSE IF MayRefetch
       THEN /\ verifying' = [verifying EXCEPT ![c].phase = "fetching", ![c].forced = TRUE]
            /\ lastForced' = now /\ refetches' = refetches + 1
     ELSE verifying' = [verifying EXCEPT ![c].phase = "unknown"] /\ UNCHANGED <<lastForced, refetches>>

\* A decoding key that is kept is used, whatever has become of the key set.
LookForKey(c) ==
  /\ verifying[c].phase = "looking"
  /\ IF verifying[c].kid \in decoding
       THEN verifying' = [verifying EXCEPT ![c].phase = "verified"] /\ UNCHANGED <<lastForced, refetches>>
     ELSE IF cached # None /\ now < cached.until
       THEN Consider(c, cached.keys)
     ELSE verifying' = [verifying EXCEPT ![c].phase = "fetching"] /\ UNCHANGED <<lastForced, refetches>>
  /\ UNCHANGED <<now, published, cached, decoding>>

\* The issuer answers, with what it publishes by then, or it does not answer well:
\* the discovery document, the key set's size and its form count as well.
IssuerAnswers(c) ==
  /\ verifying[c].phase = "fetching"
  /\ verifying' \in {[verifying EXCEPT ![c].phase = "fetched", ![c].set = published],
                     [verifying EXCEPT ![c].phase = "fault"]}
  /\ UNCHANGED <<now, published, cached, decoding, lastForced, refetches>>

\* The set fetched replaces the one kept, and the decoding keys kept are dropped.
StoreKeySet(c) ==
  LET v == verifying[c]
  IN /\ v.phase = "fetched"
     /\ decoding' = {}
     /\ cached' = [keys |-> v.set, until |-> now + CacheTtl]
     /\ IF v.forced
          THEN /\ verifying' = [verifying EXCEPT
                    ![c].phase = IF v.kid \in v.set THEN "found" ELSE "unknown"]
               /\ UNCHANGED <<lastForced, refetches>>
          ELSE Consider(c, v.set)
     /\ UNCHANGED <<now, published>>

\* A key for something else than signatures, or that cannot be read, is refused.
KeepDecodingKey(c) ==
  LET kid == verifying[c].kid
  IN /\ verifying[c].phase = "found"
     /\ IF kid \in Signing
          THEN /\ decoding' = decoding \cup {kid}
               /\ verifying' = [verifying EXCEPT ![c].phase = "verified"]
          ELSE verifying' = [verifying EXCEPT ![c].phase = "unknown"] /\ UNCHANGED decoding
     /\ UNCHANGED <<now, published, cached, lastForced, refetches>>

\* The issuer publishes another set.
Publish ==
  /\ published' \in SUBSET Kid \ {published}
  /\ UNCHANGED <<now, cached, decoding, lastForced, refetches, verifying>>

FindKey(c) == LookForKey(c) \/ IssuerAnswers(c) \/ StoreKeySet(c) \/ KeepDecodingKey(c)

KeysInit ==
  /\ published \in SUBSET Kid
  /\ cached = None /\ decoding = {} /\ lastForced = None /\ refetches = 0
  /\ verifying = [c \in Client |-> NoToken]
=============================================================================
