---------------------------- MODULE MCAdmission -----------------------------
(* A small instance of Admission for TLC: a proxy before two hosts of one   *)
(* IPv6 prefix and a third, two signing keys, one of them published for     *)
(* something else, and one API key.                                         *)
EXTENDS Admission, TLC

CONSTANTS proxy, x, y, bx, acme, good, other, ak

Buckets == x :> bx @@ y :> bx @@ proxy :> proxy
TenantsOf == good :> acme @@ other :> acme @@ ak :> acme
Chain == <<"jwt", "key">>

From(peer, forwarded, with) == [peer |-> peer, forwarded |-> forwarded, real |-> None, with |-> with]
Token(kid, genuine) == [kind |-> "token", kid |-> kid, genuine |-> genuine]
Key(bearer) == [kind |-> "key", key |-> ak, bearer |-> bearer]
Nothing == [kind |-> "none"]

Malformed == [kind |-> "malformed"]

\* Nobody's address, which is not limited: the issuer's keys and the API keys change.
Rotations == [mechanisms |-> Chain, requests |-> 2, rotations |-> 1, edits |-> 0,
  arrivals |-> {From(proxy, <<Unreadable>>, Token(kid, TRUE)) : kid \in {good, other}}]
ApiKeys == [mechanisms |-> Chain, requests |-> 3, rotations |-> 0, edits |-> 3,
  arrivals |-> {From(proxy, <<Unreadable>>, Key(bearer)) : bearer \in BOOLEAN}]

\* Clients before and behind the proxy, and what they may spend.
Failures == [mechanisms |-> Chain, requests |-> 5, rotations |-> 0, edits |-> 0,
  arrivals |-> {From(proxy, <<y>>, Key(FALSE)), From(x, <<y>>, Malformed)}]
Addresses == [mechanisms |-> Chain, requests |-> 2, rotations |-> 0, edits |-> 0,
  arrivals |-> {From(x, <<y>>, Nothing), From(proxy, <<y, x>>, Key(TRUE)), From(proxy, <<y, Unreadable>>, Nothing),
    From(proxy, <<proxy>>, Nothing), [From(proxy, <<>>, Nothing) EXCEPT !.real = y],
    From(x, <<>>, Token(good, FALSE))}]

\* A server that asks nobody who they are.
Open == [mechanisms |-> <<>>, requests |-> 2, rotations |-> 0, edits |-> 0,
  arrivals |-> {From(x, <<y>>, Nothing)}]

MCScenarios == {Open, Rotations, ApiKeys, Failures, Addresses}

Symmetry == Permutations(Client)
=============================================================================
