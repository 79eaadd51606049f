----------------------------- MODULE Lifecycle -----------------------------
(***************************************************************************)
(* A server from its start to its end (src/server/start.rs): it serves     *)
(* until it is signalled, keeps serving for the shutdown delay when the    *)
(* signal was SIGTERM, then takes no more connections and drains those it  *)
(* has, closing what is left when the drain's time is up.  While it is up  *)
(* it answers readiness probes (src/observability/health.rs) out of a      *)
(* cached check, made anew by whoever finds the cache stale, who holds the *)
(* cache's lock meanwhile.  Clients go away whenever they like.            *)
(*                                                                         *)
(* Time passes in ticks, and never past a deadline that is not yet kept.   *)
(***************************************************************************)
EXTENDS Startup, Sequences

CONSTANTS
  Client,          \* connections, one request each
  Sends,           \* [Client -> the kinds of request it makes]
  RequestTimeout,  \* how long a handler may run (app.rs)
  DrainTimeout,    \* DRAIN_TIMEOUT
  ProbeTimeout,    \* PROBE_TIMEOUT, of each of the two checks
  ProbeTTL         \* PROBE_TTL

ASSUME LifecycleAssumption ==
  /\ {RequestTimeout, DrainTimeout, ProbeTimeout, ProbeTTL} \subseteq Nat \ {0}
  /\ RequestTimeout <= DrainTimeout
  /\ 2 * ProbeTimeout < RequestTimeout
  /\ Sends \in [Client -> SUBSET {"work", "probe", "stalled"}]

Component == {"catalog", "storage"}

VARIABLES
  since,    \* time since the phase began
  req,      \* per client what it is about, or None, and its age
  queue,    \* the probes that wait for the cache's lock, in order
  probe,    \* the check in progress, or None: who makes it and where it is
  cache,    \* the last check's result and its age, or None
  up,       \* whether each component works
  ago,      \* history: time since each component was last up
  said      \* what readiness answered since the last tick, or None

process == <<phase, server, log, since>>
readiness == <<queue, probe, cache, said>>
world == <<up, ago>>
vars == <<process, req, readiness, world>>

-----------------------------------------------------------------------------
(* Requests                                                                *)

Idle == [kind |-> None, age |-> 0]

\* A handler's time is limited; a client that never finishes sending or reading is not.
Limited == {"work", "probe"}

\* Both while it serves and while it waits to be taken out of rotation.
Accepting == phase \in {"serving", "delaying"}

Ends(c) == req' = [req EXCEPT ![c] = Idle]

Connect(c, kind) ==
  /\ Accepting /\ req[c] = Idle
  /\ req' = [req EXCEPT ![c] = [kind |-> kind, age |-> 0]]
  /\ queue' = IF kind = "probe" THEN Append(queue, c) ELSE queue
  /\ UNCHANGED <<process, probe, cache, said, world>>

Finish(c) ==
  /\ req[c].kind = "work" /\ Ends(c)
  /\ UNCHANGED <<process, readiness, world>>

\* A future that is dropped leaves the queue, or lets go of the lock; its check is lost.
Dropped(c) ==
  /\ queue' = SelectSeq(queue, LAMBDA d : d # c)
  /\ probe' = IF probe # None /\ probe.by = c THEN None ELSE probe

\* The client goes away.
Leave(c) ==
  /\ req[c] # Idle /\ Ends(c) /\ Dropped(c)
  /\ UNCHANGED <<process, cache, said, world>>

\* The request's own time limit.
TimeOut(c) ==
  /\ req[c].kind \in Limited /\ req[c].age = RequestTimeout
  /\ Ends(c) /\ Dropped(c)
  /\ UNCHANGED <<process, cache, said, world>>

-----------------------------------------------------------------------------
(* Readiness                                                               *)

Say(ready) == said' = IF ready THEN "ready" ELSE "not ready"

\* Bug: a result is good for as long as it is asked for.
FreshWhileAsked == cache # None

Fresh == cache # None /\ cache.age < ProbeTTL

\* The first in the queue takes the lock: it is answered with a fresh result, or checks.
Locked(c) == probe = None /\ queue # <<>> /\ Head(queue) = c

AnswerCached(c) ==
  /\ Locked(c) /\ Fresh
  /\ Ends(c) /\ Say(cache.ready)
  /\ queue' = Tail(queue)
  /\ UNCHANGED <<process, probe, cache, world>>

BeginProbe(c) ==
  /\ Locked(c) /\ ~Fresh
  /\ queue' = Tail(queue)
  /\ probe' = [by |-> c, of |-> "catalog", took |-> 0, ready |-> TRUE]
  /\ UNCHANGED <<process, req, cache, said, world>>

\* What a check may find: a component that does not work fails it at once or hangs, and
\* one that works may be slow, until the check's time is up.
Findings(k) ==
  (IF up[k] THEN {TRUE} ELSE {FALSE}) \cup (IF probe.took = ProbeTimeout THEN {FALSE} ELSE {})

CatalogChecked ==
  /\ probe # None /\ probe.of = "catalog"
  /\ \E ready \in Findings("catalog") :
       probe' = [probe EXCEPT !.of = "storage", !.took = 0, !.ready = ready]
  /\ UNCHANGED <<process, req, queue, cache, said, world>>

\* The result is kept with the time at which it was complete.
StorageChecked ==
  /\ probe # None /\ probe.of = "storage"
  /\ \E ready \in Findings("storage") :
       LET all == probe.ready /\ ready
       IN cache' = [ready |-> all, age |-> 0] /\ Say(all)
  /\ Ends(probe.by) /\ probe' = None
  /\ UNCHANGED <<process, queue, world>>

-----------------------------------------------------------------------------
(* The end                                                                 *)

Down == phase' = "down" /\ server' = None

Enter(p) == phase' = p /\ since' = 0 /\ UNCHANGED <<server, log>>

\* SIGTERM takes a server out of rotation first, Ctrl+C stops it; later signals do nothing.
Signal(s) ==
  /\ phase = "serving"
  /\ Enter(IF s = "terminate" /\ server.delay > 0 THEN "delaying" ELSE "draining")
  /\ UNCHANGED <<req, readiness, world>>

Drain ==
  /\ phase = "delaying" /\ since = server.delay
  /\ Enter("draining")
  /\ UNCHANGED <<req, readiness, world>>

Open == {c \in Client : req[c] # Idle}

Exit ==
  /\ Down /\ since' = 0
  /\ req' = [c \in Client |-> Idle] /\ queue' = <<>> /\ probe' = None /\ cache' = None
  /\ said' = None
  /\ UNCHANGED <<log, world>>

Drained == phase = "draining" /\ Open = {} /\ Exit

\* Bug: the drain ends with the last request.
NeverCut == FALSE /\ Exit

\* Bug: the time of the drain runs from the signal.
CutTooEarly == phase = "draining" /\ since + server.delay >= DrainTimeout /\ Open # {} /\ Exit

Cut == phase = "draining" /\ since = DrainTimeout /\ Open # {} /\ Exit

-----------------------------------------------------------------------------
(* The world and the specification                                         *)

\* A component breaks down, or works again.
Turn(k) ==
  /\ phase # "down"
  /\ up' = [up EXCEPT ![k] = ~@]
  /\ ago' = [ago EXCEPT ![k] = 0]
  /\ UNCHANGED <<process, req, readiness>>

\* Something that must happen before any more time passes.
Due ==
  \/ phase = "delaying" /\ since = server.delay
  \/ phase = "draining" /\ since = DrainTimeout
  \/ \E c \in Client : req[c].kind \in Limited /\ req[c].age = RequestTimeout
  \/ probe # None /\ probe.took = ProbeTimeout

Longest == ProbeTimeout + ProbeTTL

Capped(n, most) == IF n < most THEN n + 1 ELSE most

Tick ==
  /\ phase # "down" /\ ~Due
  /\ since' = IF phase = "serving" THEN 0 ELSE since + 1
  /\ req' = [c \in Client |-> IF req[c].kind \in Limited THEN [req[c] EXCEPT !.age = @ + 1] ELSE req[c]]
  /\ probe' = IF probe = None THEN None ELSE [probe EXCEPT !.took = @ + 1]
  /\ cache' = IF cache = None THEN None ELSE [cache EXCEPT !.age = Capped(@, ProbeTTL)]
  /\ ago' = [k \in Component |-> IF up[k] THEN 0 ELSE Capped(ago[k], Longest)]
  /\ said' = None
  /\ UNCHANGED <<phase, server, log, queue, up>>

Init ==
  /\ phase = "down" /\ server = None /\ log = None /\ since = 0
  /\ req = [c \in Client |-> Idle] /\ queue = <<>> /\ probe = None /\ cache = None
  /\ up = [k \in Component |-> TRUE] /\ ago = [k \in Component |-> 0] /\ said = None

StartUp(k) == Start(k) /\ UNCHANGED <<since, req, readiness, world>>

TakeLock == \E c \in Client : AnswerCached(c) \/ BeginProbe(c)

Checked == CatalogChecked \/ StorageChecked

\* The timer of a check.
CheckOver == probe # None /\ probe.took = ProbeTimeout /\ Checked

Stop == Drain \/ Drained \/ Cut

Next ==
  \/ \E k \in Configs : StartUp(k)
  \/ \E c \in Client : \/ \E kind \in Sends[c] : Connect(c, kind)
                       \/ Finish(c) \/ Leave(c) \/ TimeOut(c)
  \/ TakeLock \/ Checked
  \/ \E s \in {"terminate", "interrupt"} : Signal(s)
  \/ Stop
  \/ \E k \in Component : Turn(k)
  \/ Tick

\* Time passes, timers fire, and a lock that is free is given to the first who waits;
\* no component has to answer and no client to finish.
Spec ==
  /\ Init /\ [][Next]_vars
  /\ WF_vars(Tick) /\ WF_vars(Stop) /\ WF_vars(TakeLock) /\ WF_vars(CheckOver)
  /\ \A c \in Client : WF_vars(TimeOut(c))

-----------------------------------------------------------------------------
(* Properties                                                              *)

\* However it was configured and whatever earlier starts have left in its store, a
\* server that lets everybody in was put in development mode and has no credentials
\* to ask for, and any other has somebody who can come in and decides by the policies
\* in its store (main.rs, app.rs: assemble).
EntryIsGuarded ==
  phase # "down" =>
    IF server.authorizer = "everybody" THEN server.dev /\ server.credentials = {}
    ELSE /\ server.credentials # {} /\ Usable(server.authorizer)
         /\ server.lasting => server.authorizer = log

\* server_config.rs: "Enable API key authentication (default: true)".
KeysCanBeTurnedOff ==
  phase # "down" /\ ~server.keysEnabled => "configured key" \notin server.credentials

\* Nobody is told "ready" of a component that was last up longer ago than a check and
\* the life of its result may take, whoever made the check, waited for it or left in
\* the middle (health.rs: cached).
ReadyIsRecent ==
  said = "ready" => /\ ago["catalog"] < ProbeTimeout + ProbeTTL
                    /\ ago["storage"] < ProbeTTL

\* The end of a drain cuts off no request that has not had its whole time, whichever
\* signal began it and however long the delay before it was (start.rs: DRAIN_TIMEOUT).
RequestsGetTheirTime ==
  [][phase = "draining" /\ phase' = "down" =>
       \A c \in Client : req[c].kind \in Limited => req[c].age >= RequestTimeout]_vars

\* A server that is told to stop stops, whatever its clients do, and a request or probe
\* is over in the end, whatever hangs and whoever held the lock.
EverythingEnds ==
  /\ (phase \in {"delaying", "draining"}) ~> (phase = "down")
  /\ \A c \in Client : (req[c].kind \in Limited) ~> (req[c].kind \notin Limited)
=============================================================================
