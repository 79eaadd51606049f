---------------------------- MODULE MCLifecycle ----------------------------
(* A small instance of Lifecycle for TLC: every configuration with at most  *)
(* one mistake in it, and two connections, one of them a prober's.          *)
EXTENDS Lifecycle, TLC

CONSTANTS c1, c2

MCSends == c1 :> {"work", "probe", "stalled"} @@ c2 :> {"probe"}

Sound == [dev |-> FALSE, noAuth |-> FALSE, insecureHttp |-> FALSE, anyOrigin |-> FALSE,
          catalog |-> "persistent", certAndKey |-> "both", apiKeys |-> "usable",
          apiKeyEnabled |-> TRUE,
          jwtEnabled |-> FALSE, jwt |-> None, policies |-> None, mistake |-> None, delay |-> 1]

\* The modes and the ways in, in every combination.
Combined ==
  {[Sound EXCEPT !.dev = d, !.noAuth = n, !.catalog = g, !.apiKeys = a, !.jwtEnabled = e, !.jwt = j,
                 !.delay = 0] :
     d \in BOOLEAN, n \in BOOLEAN, g \in {"persistent", "memory", None}, a \in {"usable", None},
     e \in BOOLEAN, j \in {"usable", None}}

\* A server of each kind, changed in one other respect.
Changed(k) ==
  {[k EXCEPT !.insecureHttp = TRUE, !.certAndKey = "neither"], [k EXCEPT !.certAndKey = "neither"],
   [k EXCEPT !.certAndKey = "one"], [k EXCEPT !.anyOrigin = TRUE],
   [k EXCEPT !.apiKeys = "unusable"], [k EXCEPT !.apiKeyEnabled = FALSE],
   [k EXCEPT !.jwtEnabled = TRUE, !.jwt = "unusable"]}
  \cup {[k EXCEPT !.policies = p] : p \in {"file", "no rule", "invalid", "unreadable"}}
  \cup {[k EXCEPT !.policies = "file", !.mistake = m] :
          m \in {"in the file", "in a mount", "in a store", "past the policies"}}

MCConfigs ==
  {Sound} \cup Combined
  \cup UNION {Changed([Sound EXCEPT !.dev = d, !.delay = 0]) : d \in BOOLEAN}
  \cup Changed([Sound EXCEPT !.dev = TRUE, !.noAuth = TRUE, !.delay = 0])

\* One server is used at length; the others start, are signalled and stop.
OneIsUsed ==
  \/ server = None
  \/ server = Server(Sound) /\ log = "defaults"
  \/ (\A c \in Client : req[c] = Idle) /\ (\A k \in Component : up[k])
=============================================================================
