------------------------------ MODULE Startup ------------------------------
(***************************************************************************)
(* How a server comes up: main (src/main.rs) reads its configuration,      *)
(* refuses what is unsafe in production, chooses transport and credentials *)
(* and has the application assembled (AppBuilder of src/app.rs), which     *)
(* opens the stores, reads or seeds the policy log and builds what decides *)
(* who may come in.  A configuration is a record of what main and the      *)
(* builder tell apart.  Nothing of a start is seen by anyone before the    *)
(* server listens, so a start is one step; what a refused start leaves     *)
(* behind is the policy log it may have seeded.                            *)
(***************************************************************************)
EXTENDS Naturals, FiniteSets

CONSTANTS Configs,  \* the configurations the server is started with
          None

Configuration ==
  [dev : BOOLEAN, noAuth : BOOLEAN, insecureHttp : BOOLEAN, anyOrigin : BOOLEAN,
   catalog  : {"persistent", "memory", None},
   certAndKey : {"both", "one", "neither"},
   apiKeys  : {"usable", "unusable", None}, apiKeyEnabled : BOOLEAN,
   jwtEnabled : BOOLEAN, jwt : {"usable", "unusable", None},
   policies : {"file", "no rule", "invalid", "unreadable", None},
   mistake  : {"in the file", "in a mount", "in a store", "past the policies", None},
   delay    : Nat]

ASSUME StartupAssumption ==
  /\ Configs \subseteq Configuration
  /\ None \notin {"everybody", "ready", "work", "probe"}

VARIABLES
  phase,   \* "down", "serving", "delaying" or "draining"
  server,  \* what the running server was assembled to be, or None
  log      \* the policy set the catalog's store holds, or None

-----------------------------------------------------------------------------
(* Refusals                                                                *)

\* What only development mode allows.
Unsafe(k) == ~k.dev /\ (k.anyOrigin \/ k.noAuth \/ k.catalog = None)

\* A file that cannot be read, or whose entries contradict each other.
FileRefused(k) == k.mistake = "in the file"

MountRefused(k) == k.mistake = "in a mount"

\* A key without a secret, or one that no principal could have.
KeysRefused(k) == ~k.noAuth /\ k.apiKeys = "unusable"

\* The section counts only together with the switch.
Oidc(k) == ~k.noAuth /\ k.jwtEnabled /\ k.jwt # None

TokensRefused(k) == Oidc(k) /\ k.jwt = "unusable"

\* A catalog that cannot be opened, or holds namespaces a mount would hide.
StoresRefused(k) == k.mistake = "in a store"

\* All that is found before the policies are looked at.
Refused(k) ==
  \/ FileRefused(k) \/ Unsafe(k) \/ k.certAndKey = "one" \/ MountRefused(k)
  \/ (~k.noAuth /\ k.policies = "unreadable") \/ KeysRefused(k)
  \/ StoresRefused(k) \/ TokensRefused(k)

\* Proxies, providers of credentials and signers come last.
RefusedLast(k) == k.mistake = "past the policies"

-----------------------------------------------------------------------------
(* Assembly                                                                *)

\* Bug: the switch alone counts as a way in.
SwitchedOn(k) == k.apiKeys = None /\ ~k.jwtEnabled

\* Without configured keys and without OIDC main mints an administrator's key.
Bootstraps(k) == k.apiKeys = None /\ ~Oidc(k)

\* Whether keys were enabled is not asked.
Credentials(k) ==
  IF k.noAuth THEN {}
  ELSE (IF Oidc(k) THEN {"token"} ELSE {})
       \cup (IF k.apiKeys # None THEN {"configured key"} ELSE {})
       \cup (IF Bootstraps(k) THEN {"bootstrap key"} ELSE {})

Transport(k) ==
  CASE k.certAndKey = "both" -> "certificate"
    [] k.insecureHttp        -> "plain"
    [] OTHER                 -> "self-signed"

\* The policies of an empty store are those of the file, or the built-in ones; a file
\* that does not validate is not stored.
Seed(k) ==
  CASE k.policies = None      -> "defaults"
    [] k.policies = "invalid" -> None
    [] OTHER                  -> k.policies

\* The revision a server that asks for credentials finds or seeds; the store of a
\* catalog that does not last is empty.
Revision(k) == IF k.catalog = "persistent" /\ log # None THEN log ELSE Seed(k)

\* A set without a rule is stored before it is refused.
Usable(revision) == revision \notin {None, "no rule"}

Server(k) ==
  [dev |-> k.dev, transport |-> Transport(k), delay |-> k.delay,
   lasting |-> k.catalog = "persistent", keysEnabled |-> k.apiKeyEnabled, credentials |-> Credentials(k),
   authorizer |-> IF k.noAuth THEN "everybody" ELSE Revision(k)]

\* A start that is refused before the stores are open changes nothing; what is wrong
\* past the policies is found after they were seeded.
Start(k) ==
  /\ phase = "down" /\ ~Refused(k)
  /\ log' = IF k.noAuth \/ k.catalog # "persistent" THEN log ELSE Revision(k)
  /\ IF (~k.noAuth /\ ~Usable(Revision(k))) \/ RefusedLast(k)
       THEN UNCHANGED <<phase, server>>
       ELSE phase' = "serving" /\ server' = Server(k)
=============================================================================
