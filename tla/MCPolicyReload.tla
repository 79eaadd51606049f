---------------------------- MODULE MCPolicyReload ----------------------------
(* Small instances of PolicyReload for TLC, with four texts.  open lets both  *)
(* authors manage policy, narrow only one; late is like open but uses what an *)
(* older build's schema does not know; blank has no rule.                     *)
EXTENDS PolicyReload, TLC

CONSTANTS r1, r2, x, y, open, narrow, late, blank

OldBuild == [r \in Replica |-> IF r = r1 THEN Policy ELSE Policy \ {late}]
Grants == [p \in Policy |-> CASE p = narrow -> {x} [] p = blank -> {} [] OTHER -> {x, y}]
Seeds == (r1 :> narrow) @@ (r2 :> open)
=============================================================================
