--------------------------- MODULE LifecycleProofs ---------------------------
(***************************************************************************)
(* Of the server's life, for any configurations, clients and time limits:  *)
(* who comes in is somebody the configuration lets in, "ready" is said of  *)
(* components that worked lately, and a drain cuts off no request that has *)
(* not had its time.                                                       *)
(***************************************************************************)
EXTENDS Lifecycle, Integers, TLAPS

-----------------------------------------------------------------------------
(* Who may come in                                                          *)

Guarded ==
  /\ log # "everybody"
  /\ phase # "down" =>
       IF server.authorizer = "everybody" THEN server.dev /\ server.credentials = {}
       ELSE /\ server.credentials # {} /\ Usable(server.authorizer)
            /\ server.lasting => server.authorizer = log

LEMMA RevisionIsNoWay ==
  ASSUME log # "everybody", NEW k \in Configs
  PROVE  Revision(k) # "everybody"
<1>1. k.policies \in {"file", "no rule", "invalid", "unreadable", None}
  BY StartupAssumption DEF Configuration
<1> QED
  BY <1>1, StartupAssumption DEF Revision, Seed

LEMMA StartGuarded ==
  ASSUME Guarded, NEW k \in Configs, Start(k)
  PROVE  Guarded'
<1>1. Revision(k) # "everybody"
  BY RevisionIsNoWay DEF Guarded
<1>2. log' # "everybody"
  BY <1>1 DEF Start, Guarded
<1>3. CASE UNCHANGED <<phase, server>>
  BY <1>2, <1>3 DEF Start, Guarded
<1>4. CASE phase' = "serving" /\ server' = Server(k) /\ ~(~k.noAuth /\ ~Usable(Revision(k)))
  <2>1. /\ server'.dev = k.dev /\ server'.credentials = Credentials(k)
        /\ server'.lasting = (k.catalog = "persistent")
        /\ server'.authorizer = IF k.noAuth THEN "everybody" ELSE Revision(k)
    BY <1>4 DEF Server
  <2>2. CASE k.noAuth
    <3>1. k.dev
      BY <2>2 DEF Start, Refused, Unsafe
    <3> QED
      BY <1>2, <2>1, <2>2, <3>1 DEF Guarded, Credentials
  <2>3. CASE ~k.noAuth
    <3>1. Credentials(k) # {}
      BY <2>3 DEF Credentials, Bootstraps
    <3>2. k.catalog = "persistent" => log' = Revision(k)
      BY <2>3 DEF Start
    <3> QED
      BY <1>1, <1>2, <1>4, <2>1, <2>3, <3>1, <3>2 DEF Guarded
  <2> QED
    BY <2>2, <2>3
<1> QED
  BY <1>3, <1>4 DEF Start

\* The steps that leave the server and its phase as they were.
Inside ==
  \/ \E c \in Client : \/ \E kind \in Sends[c] : Connect(c, kind)
                       \/ Finish(c) \/ Leave(c) \/ TimeOut(c)
  \/ TakeLock \/ Checked
  \/ \E k \in Component : Turn(k)
  \/ UNCHANGED vars

LEMMA InsideStays ==
  ASSUME Inside
  PROVE  UNCHANGED process
  BY DEF Inside, Connect, Finish, Leave, TimeOut, TakeLock, AnswerCached, BeginProbe, Checked,
         CatalogChecked, StorageChecked, Turn, vars

LEMMA Steps ==
  ASSUME [Next]_vars
  PROVE  \/ \E k \in Configs : StartUp(k)
         \/ Inside \/ Tick
         \/ \E s \in {"terminate", "interrupt"} : Signal(s)
         \/ Drain \/ Drained \/ Cut
  BY DEF Next, Inside, Stop

LEMMA GuardedStep ==
  ASSUME Guarded, [Next]_vars
  PROVE  Guarded'
<1>1. ASSUME NEW k \in Configs, StartUp(k) PROVE Guarded'
  BY <1>1, StartGuarded DEF StartUp
<1>2. CASE Inside
  BY <1>2, InsideStays DEF Guarded, process
<1>3. CASE Tick
  BY <1>3 DEF Tick, Guarded
<1>4. ASSUME NEW s \in {"terminate", "interrupt"}, Signal(s) PROVE Guarded'
  BY <1>4 DEF Signal, Enter, Guarded
<1>5. CASE Drain
  BY <1>5 DEF Drain, Enter, Guarded
<1>6. CASE Drained \/ Cut
  BY <1>6 DEF Drained, Cut, Exit, Down, Guarded
<1> QED
  BY <1>1, <1>2, <1>3, <1>4, <1>5, <1>6, Steps

-----------------------------------------------------------------------------
(* What a drain has waited for                                              *)

IsReq(r) == r = [kind |-> r.kind, age |-> r.age] /\ r.age \in Nat

\* Whoever is still served when connections are no longer taken has been there at least as long.
Waited ==
  /\ since \in Nat
  /\ DOMAIN req = Client
  /\ \A c \in Client : IsReq(req[c])
  /\ phase = "draining" => \A c \in Client : req[c].kind \in Limited => req[c].age >= since

\* Requests end, and the rest stay.
Fewer == DOMAIN req' = Client /\ \A c \in Client : req'[c] \in {req[c], Idle}

LEMMA IdleIsNothing == IsReq(Idle) /\ Idle.kind \notin Limited
  BY StartupAssumption DEF Idle, IsReq, Limited

LEMMA FewerWait ==
  ASSUME Waited, Fewer, UNCHANGED process
  PROVE  Waited'
  BY IdleIsNothing DEF Waited, Fewer, process

LEMMA InsideWaited ==
  ASSUME Waited, Inside
  PROVE  Waited'
<1>0. UNCHANGED process
  BY InsideStays
<1>1. ASSUME NEW c \in Client, NEW kind, Connect(c, kind) PROVE Waited'
  <2> DEFINE r == [kind |-> kind, age |-> 0]
  <2>1. IsReq(r)
    BY DEF IsReq
  <2>2. req' = [req EXCEPT ![c] = r] /\ phase' # "draining"
    BY <1>0, <1>1 DEF Connect, Accepting, process
  <2> HIDE DEF r
  <2> QED
    BY <1>0, <2>1, <2>2 DEF Waited, process
<1>2. ASSUME NEW c, Ends(c) PROVE Fewer
  BY <1>2 DEF Ends, Fewer, Waited
<1>3. UNCHANGED req => Fewer
  BY DEF Fewer, Waited
<1>4. \/ \E c \in Client, kind \in UNION {Sends[d] : d \in Client} : Connect(c, kind)
      \/ \E c \in Client : Ends(c)
      \/ probe # None /\ Ends(probe.by)
      \/ UNCHANGED req
  BY DEF Inside, Finish, Leave, TimeOut, TakeLock, AnswerCached, BeginProbe, Checked,
         CatalogChecked, StorageChecked, Turn, vars
<1> QED
  BY <1>0, <1>1, <1>2, <1>3, <1>4, FewerWait

\* One more tick.
Older(r) == IF r.kind \in Limited THEN [r EXCEPT !.age = @ + 1] ELSE r

LEMMA OlderIs ==
  ASSUME NEW r, IsReq(r)
  PROVE  /\ IsReq(Older(r)) /\ Older(r).kind = r.kind
         /\ r.kind \in Limited => Older(r).age = r.age + 1
<1>1. CASE r.kind \in Limited
  <2> DEFINE x == [kind |-> r.kind, age |-> r.age + 1]
  <2>1. Older(r) = x
    <3>1. DOMAIN r = {"kind", "age"}
      BY DEF IsReq
    <3>2. Older(r) = [n \in {"kind", "age"} |-> IF n = "age" THEN r.age + 1 ELSE r[n]]
      BY <1>1, <3>1 DEF Older
    <3> QED
      BY <3>2
  <2>2. x.kind = r.kind /\ x.age = r.age + 1 /\ x = [kind |-> x.kind, age |-> x.age]
    OBVIOUS
  <2> HIDE DEF x
  <2> QED
    BY <2>1, <2>2 DEF IsReq
<1>2. CASE r.kind \notin Limited
  BY <1>2 DEF Older
<1> QED
  BY <1>1, <1>2

LEMMA WaitedStep ==
  ASSUME Waited, [Next]_vars
  PROVE  Waited'
<1>1. ASSUME NEW k \in Configs, StartUp(k) PROVE Waited'
  BY <1>1 DEF StartUp, Start, Waited
<1>2. CASE Tick
  <2>1. \A c \in Client : req'[c] = Older(req[c])
    BY <1>2 DEF Tick, Older
  <2>2. \A c \in Client : /\ IsReq(req'[c]) /\ req'[c].kind = req[c].kind
                          /\ req[c].kind \in Limited => req'[c].age = req[c].age + 1
    BY <2>1, OlderIs DEF Waited
  <2>3. /\ since' \in Nat /\ phase' = phase /\ DOMAIN req' = Client
        /\ phase = "draining" => since' = since + 1
    BY <1>2 DEF Tick, Waited
  <2>4. \A c \in Client : req[c].age \in Nat
    BY DEF Waited, IsReq
  <2>5. ASSUME phase = "draining", NEW c \in Client, req[c].kind \in Limited
        PROVE  req'[c].age >= since'
    <3>1. req[c].age \in Nat /\ since \in Nat /\ req[c].age >= since
      BY <2>4, <2>5 DEF Waited
    <3>2. req'[c].age = req[c].age + 1 /\ since' = since + 1
      BY <2>2, <2>3, <2>5
    <3> QED
      BY <3>1, <3>2
  <2>6. /\ \A c \in Client : IsReq(req'[c])
        /\ \A c \in Client : req'[c].kind \in Limited => req[c].kind \in Limited
    BY <2>2
  <2> QED
    BY <2>3, <2>5, <2>6 DEF Waited, IsReq
<1>3. ASSUME NEW p, Enter(p), req' = req PROVE Waited'
  BY <1>3 DEF Enter, Waited, IsReq
<1>4. ASSUME NEW s \in {"terminate", "interrupt"}, Signal(s) PROVE Waited'
  BY <1>3, <1>4 DEF Signal, readiness
<1>5. CASE Drain
  BY <1>3, <1>5 DEF Drain
<1>6. CASE Drained \/ Cut
  BY <1>6, IdleIsNothing DEF Drained, Cut, Exit, Down, Waited
<1> QED
  BY <1>1, <1>2, <1>4, <1>5, <1>6, InsideWaited, Steps

LEMMA EndsInTime ==
  ASSUME Waited, [Next]_vars, phase = "draining", phase' = "down", NEW c \in Client,
         req[c].kind \in Limited
  PROVE  req[c].age >= RequestTimeout
<1>1. Drained \/ Cut
  BY InsideStays, Steps DEF StartUp, Start, process, Tick, Signal, Enter, Drain
<1>2. CASE Drained
  BY <1>2, IdleIsNothing DEF Drained, Open
<1>3. CASE Cut
  BY <1>3, LifecycleAssumption DEF Cut, Waited, IsReq
<1> QED
  BY <1>1, <1>2, <1>3

-----------------------------------------------------------------------------
(* What readiness is said of                                                *)

IsProbe(p) ==
  /\ p = [by |-> p.by, of |-> p.of, took |-> p.took, ready |-> p.ready]
  /\ p.took \in 0..ProbeTimeout /\ p.ready \in BOOLEAN

IsCache(r) ==
  r = [ready |-> r.ready, age |-> r.age] /\ r.ready \in BOOLEAN /\ r.age \in Nat

\* How long ago a component was last up is bounded by the age of the check that found it up.
Recent ==
  /\ up \in [Component -> BOOLEAN] /\ ago \in [Component -> Nat]
  /\ \A k \in Component : up[k] = TRUE => ago[k] = 0
  /\ probe # None =>
       /\ IsProbe(probe)
       /\ probe.of = "storage" /\ probe.ready = TRUE => ago["catalog"] <= probe.took
  /\ cache # None =>
       /\ IsCache(cache)
       /\ cache.ready = TRUE /\ cache.age < ProbeTTL =>
            ago["catalog"] <= ProbeTimeout + cache.age /\ ago["storage"] <= cache.age
  /\ ReadyIsRecent

LEMMA Numbers ==
  /\ RequestTimeout \in Nat /\ DrainTimeout \in Nat
  /\ ProbeTimeout \in Nat \ {0} /\ ProbeTTL \in Nat \ {0} /\ Longest \in Nat
  BY LifecycleAssumption DEF Longest

\* A probe may be lost, the rest being what it was.
LEMMA SameOrNoProbe ==
  ASSUME Recent, probe' \in {probe, None}, UNCHANGED <<cache, said, world>>
  PROVE  Recent'
  BY DEF Recent, ReadyIsRecent, world, IsProbe, IsCache

LEMMA CatalogRecent ==
  ASSUME Recent, CatalogChecked
  PROVE  Recent'
<1>1. PICK ready \in Findings("catalog") :
        probe' = [probe EXCEPT !.of = "storage", !.took = 0, !.ready = ready]
  BY DEF CatalogChecked
<1> DEFINE x == [by |-> probe.by, of |-> "storage", took |-> 0, ready |-> ready]
<1>2. probe # None /\ IsProbe(probe) /\ UNCHANGED <<cache, said, world>>
  BY DEF CatalogChecked, Recent
<1>3. ready \in BOOLEAN /\ (ready = TRUE => up["catalog"] = TRUE)
  BY <1>1 DEF Findings, Component, Recent
<1>4. probe' = x
  <2> DEFINE fields == {"by", "of", "took", "ready"}
  <2>1. DOMAIN probe = fields
    BY <1>2 DEF IsProbe
  <2>2. [probe EXCEPT !.of = "storage", !.took = 0, !.ready = ready]
          = [n \in fields |-> IF n = "ready" THEN ready
                             ELSE IF n = "took" THEN 0
                             ELSE IF n = "of" THEN "storage" ELSE probe[n]]
    BY <2>1
  <2> QED
    BY <1>1, <2>2
<1>5. IsProbe(x) /\ x.of = "storage" /\ x.took = 0 /\ x.ready = ready
  BY <1>3, Numbers DEF IsProbe
<1> HIDE DEF x
<1>6. x.ready = TRUE => ago["catalog"] <= x.took
  BY <1>3, <1>5 DEF Recent, Component
<1> QED
  BY <1>2, <1>4, <1>5, <1>6 DEF Recent, ReadyIsRecent, world, IsProbe, IsCache

LEMMA StorageRecent ==
  ASSUME Recent, StorageChecked
  PROVE  Recent'
<1>1. PICK ready \in Findings("storage") :
        cache' = [ready |-> probe.ready /\ ready, age |-> 0] /\ Say(probe.ready /\ ready)
  BY DEF StorageChecked
<1> DEFINE all == probe.ready /\ ready
           x == [ready |-> all, age |-> 0]
<1>2. /\ probe # None /\ probe.of = "storage" /\ IsProbe(probe)
      /\ probe' = None /\ UNCHANGED world
  BY DEF StorageChecked, Recent
<1>3. ready \in BOOLEAN /\ (ready = TRUE => up["storage"] = TRUE)
  BY <1>1 DEF Findings, Component, Recent
<1>4. all \in BOOLEAN /\ (all = TRUE => ready = TRUE /\ probe.ready = TRUE)
  BY <1>2, <1>3 DEF IsProbe
<1> HIDE DEF all
<1>5. IsCache(x) /\ x.ready = all /\ x.age = 0 /\ cache' = x
  BY <1>1, <1>4 DEF IsCache, all
<1> HIDE DEF x
<1>6. ASSUME all = TRUE
      PROVE  ago["catalog"] <= ProbeTimeout /\ ago["storage"] = 0
  BY <1>2, <1>3, <1>4, <1>6, Numbers DEF Recent, Component, IsProbe
<1>7. said' = "ready" => all = TRUE
  BY <1>1, <1>4 DEF Say, all
<1>8. ago["catalog"] \in Nat /\ ago["storage"] \in Nat /\ ago' = ago /\ up' = up
  BY <1>2 DEF Recent, Component, world
<1>9. ReadyIsRecent'
  BY <1>6, <1>7, <1>8, Numbers DEF ReadyIsRecent
<1>10. cache'.ready = TRUE /\ cache'.age < ProbeTTL =>
         ago["catalog"] <= ProbeTimeout + cache'.age /\ ago["storage"] <= cache'.age
  <2>1. cache'.age = 0 /\ cache'.ready = all
    BY <1>5
  <2>2. CASE all = TRUE
    BY <1>6, <1>8, <2>1, <2>2, Numbers
  <2>3. CASE all = FALSE
    BY <2>1, <2>3
  <2> QED
    BY <1>4, <2>2, <2>3
<1> QED
  BY <1>2, <1>5, <1>8, <1>9, <1>10 DEF Recent, IsCache

LEMMA AnswerRecent ==
  ASSUME Recent, NEW c \in Client, AnswerCached(c)
  PROVE  Recent'
<1>1. cache # None /\ cache.age < ProbeTTL /\ Say(cache.ready) /\ UNCHANGED <<probe, cache, world>>
  BY DEF AnswerCached, Fresh
<1>2. IsCache(cache)
  BY <1>1 DEF Recent
<1>3. said' = "ready" => cache.ready = TRUE
  BY <1>1, <1>2 DEF Say, IsCache
<1>4. ago["catalog"] \in Nat /\ ago["storage"] \in Nat /\ ago' = ago /\ up' = up
  BY <1>1 DEF Recent, Component, world
<1>5. ASSUME said' = "ready"
      PROVE  ago["catalog"] < ProbeTimeout + ProbeTTL /\ ago["storage"] < ProbeTTL
  <2>1. ago["catalog"] <= ProbeTimeout + cache.age /\ ago["storage"] <= cache.age
    BY <1>1, <1>3, <1>5 DEF Recent
  <2>2. cache.age \in Nat
    BY <1>2 DEF IsCache
  <2> QED
    BY <1>1, <1>4, <2>1, <2>2, Numbers
<1> QED
  BY <1>1, <1>4, <1>5 DEF Recent, ReadyIsRecent, IsProbe, IsCache

LEMMA BeginRecent ==
  ASSUME Recent, NEW c \in Client, BeginProbe(c)
  PROVE  Recent'
<1> DEFINE x == [by |-> c, of |-> "catalog", took |-> 0, ready |-> TRUE]
<1>1. probe' = x /\ UNCHANGED <<cache, said, world>>
  BY DEF BeginProbe
<1>2. IsProbe(x) /\ x.of = "catalog"
  BY Numbers DEF IsProbe
<1> HIDE DEF x
<1> QED
  BY <1>1, <1>2 DEF Recent, ReadyIsRecent, world, IsProbe, IsCache

LEMMA TurnRecent ==
  ASSUME Recent, NEW k \in Component, Turn(k)
  PROVE  Recent'
<1>1. /\ up' \in [Component -> BOOLEAN] /\ ago' \in [Component -> Nat]
      /\ \A j \in Component : (up'[j] = TRUE => ago'[j] = 0) /\ ago'[j] <= ago[j]
  BY DEF Turn, Recent
<1>2. UNCHANGED <<probe, cache, said>>
  BY DEF Turn, readiness
<1>3. /\ ago["catalog"] \in Nat /\ ago["storage"] \in Nat
      /\ ago'["catalog"] \in Nat /\ ago'["storage"] \in Nat
      /\ ago'["catalog"] <= ago["catalog"] /\ ago'["storage"] <= ago["storage"]
  BY <1>1 DEF Recent, Component
<1>4. ReadyIsRecent'
  BY <1>2, <1>3, Numbers DEF Recent, ReadyIsRecent
<1>5. probe # None => /\ IsProbe(probe)
                      /\ probe.of = "storage" /\ probe.ready = TRUE => ago'["catalog"] <= probe.took
  BY <1>3, Numbers DEF Recent, IsProbe
<1>6. cache # None /\ cache.ready = TRUE /\ cache.age < ProbeTTL =>
        ago'["catalog"] <= ProbeTimeout + cache.age /\ ago'["storage"] <= cache.age
  BY <1>3, Numbers DEF Recent, IsCache
<1>7. cache # None => IsCache(cache)
  BY DEF Recent
<1> QED
  BY <1>1, <1>2, <1>4, <1>5, <1>6, <1>7 DEF Recent, IsProbe, IsCache

LEMMA CappedIs ==
  ASSUME NEW n \in Nat, NEW most \in Nat
  PROVE  /\ Capped(n, most) \in Nat /\ Capped(n, most) <= n + 1
         /\ Capped(n, most) < most => n < most /\ Capped(n, most) = n + 1
  BY DEF Capped

LEMMA TickRecent ==
  ASSUME Recent, Tick
  PROVE  Recent'
<1>1. /\ ago' = [k \in Component |-> IF up[k] THEN 0 ELSE Capped(ago[k], Longest)]
      /\ up' = up /\ said' = None
  BY DEF Tick
<1>2. ASSUME NEW k \in Component
      PROVE  ago'[k] \in Nat /\ ago'[k] <= ago[k] + 1 /\ (up[k] = TRUE => ago'[k] = 0)
  <2>1. ago[k] \in Nat /\ up[k] \in BOOLEAN
    BY DEF Recent
  <2> QED
    <3> DEFINE n == Capped(ago[k], Longest)
    <3>1. n \in Nat /\ n <= ago[k] + 1
      BY <2>1, CappedIs, Numbers
    <3>2. ago'[k] = IF up[k] THEN 0 ELSE n
      BY <1>1
    <3> HIDE DEF n
    <3> QED
      BY <2>1, <3>1, <3>2
<1>3. ago' \in [Component -> Nat]
  BY <1>1, <1>2
<1>4. /\ ago["catalog"] \in Nat /\ ago["storage"] \in Nat
      /\ ago'["catalog"] \in Nat /\ ago'["storage"] \in Nat
      /\ ago'["catalog"] <= ago["catalog"] + 1 /\ ago'["storage"] <= ago["storage"] + 1
  BY <1>2 DEF Recent, Component
<1>5. ReadyIsRecent'
  BY <1>1, StartupAssumption DEF ReadyIsRecent
<1>6. ASSUME probe # None
      PROVE  /\ IsProbe(probe')
             /\ probe'.of = "storage" /\ probe'.ready = TRUE => ago'["catalog"] <= probe'.took
  <2> DEFINE x == [by |-> probe.by, of |-> probe.of, took |-> probe.took + 1, ready |-> probe.ready]
  <2>1. IsProbe(probe) /\ probe.took # ProbeTimeout
    BY <1>6 DEF Tick, Due, Recent
  <2>2. probe' = x
    <3>1. DOMAIN probe = {"by", "of", "took", "ready"}
      BY <2>1 DEF IsProbe
    <3>2. [probe EXCEPT !.took = @ + 1]
            = [n \in {"by", "of", "took", "ready"} |-> IF n = "took" THEN probe.took + 1 ELSE probe[n]]
      BY <3>1
    <3>3. probe' = [probe EXCEPT !.took = @ + 1]
      BY <1>6 DEF Tick
    <3> QED
      BY <3>2, <3>3
  <2>3. x.of = probe.of /\ x.took = probe.took + 1 /\ x.ready = probe.ready
    OBVIOUS
  <2>4. probe.took + 1 \in 0..ProbeTimeout
    BY <2>1, Numbers DEF IsProbe
  <2>5. IsProbe(x)
    BY <2>1, <2>3, <2>4 DEF IsProbe
  <2> HIDE DEF x
  <2>6. x.of = "storage" /\ x.ready = TRUE => ago'["catalog"] <= x.took
    <3>1. probe.of = "storage" /\ probe.ready = TRUE => ago["catalog"] <= probe.took
      BY <1>6 DEF Recent
    <3>2. probe.took \in Int
      BY <2>1 DEF IsProbe
    <3> QED
      BY <1>4, <2>3, <3>1, <3>2
  <2> QED
    BY <2>2, <2>5, <2>6
<1>7. probe = None => probe' = None
  BY DEF Tick
<1>8. cache = None => cache' = None
  BY DEF Tick
<1>9. ASSUME cache # None
      PROVE  /\ IsCache(cache')
             /\ cache'.ready = TRUE /\ cache'.age < ProbeTTL =>
                  ago'["catalog"] <= ProbeTimeout + cache'.age /\ ago'["storage"] <= cache'.age
  <2> DEFINE age == Capped(cache.age, ProbeTTL)
             x == [ready |-> cache.ready, age |-> age]
  <2>1. IsCache(cache)
    BY <1>9 DEF Recent
  <2>2. cache' = x
    <3>1. DOMAIN cache = {"ready", "age"}
      BY <2>1 DEF IsCache
    <3>2. cache' = [cache EXCEPT !.age = age]
      BY <1>9 DEF Tick
    <3> HIDE DEF age
    <3>3. [cache EXCEPT !.age = age] = [n \in {"ready", "age"} |-> IF n = "age" THEN age ELSE cache[n]]
      BY <3>1
    <3> QED
      BY <3>2, <3>3
  <2>3. age \in Nat /\ (age < ProbeTTL => cache.age < ProbeTTL /\ age = cache.age + 1)
    BY <2>1, CappedIs, Numbers DEF IsCache
  <2> HIDE DEF age
  <2>4. x.ready = cache.ready /\ x.age = age
    OBVIOUS
  <2>5. IsCache(x)
    BY <2>1, <2>3, <2>4 DEF IsCache
  <2> HIDE DEF x
  <2>6. x.ready = TRUE /\ x.age < ProbeTTL =>
          ago'["catalog"] <= ProbeTimeout + x.age /\ ago'["storage"] <= x.age
    <3>1. cache.ready = TRUE /\ cache.age < ProbeTTL =>
            ago["catalog"] <= ProbeTimeout + cache.age /\ ago["storage"] <= cache.age
      BY <1>9 DEF Recent
    <3>2. cache.age \in Nat
      BY <2>1 DEF IsCache
    <3> QED
      BY <1>4, <2>3, <2>4, <3>1, <3>2, Numbers
  <2> QED
    BY <2>2, <2>5, <2>6
<1> QED
  BY <1>1, <1>2, <1>3, <1>5, <1>6, <1>7, <1>8, <1>9 DEF Recent, IsProbe, IsCache

LEMMA RecentStep ==
  ASSUME Recent, [Next]_vars
  PROVE  Recent'
<1>1. ASSUME NEW k \in Configs, StartUp(k) PROVE Recent'
  BY <1>1, SameOrNoProbe DEF StartUp, readiness
<1>2. ASSUME NEW c \in Client, NEW kind, Connect(c, kind) PROVE Recent'
  BY <1>2, SameOrNoProbe DEF Connect
<1>3. ASSUME NEW c \in Client, Finish(c) \/ Leave(c) \/ TimeOut(c) PROVE Recent'
  BY <1>3, SameOrNoProbe DEF Finish, Leave, TimeOut, Dropped, readiness
<1>4. CASE TakeLock
  BY <1>4, AnswerRecent, BeginRecent DEF TakeLock
<1>5. CASE Checked
  BY <1>5, CatalogRecent, StorageRecent DEF Checked
<1>6. ASSUME NEW k \in Component, Turn(k) PROVE Recent'
  BY <1>6, TurnRecent
<1>7. CASE UNCHANGED vars
  BY <1>7, SameOrNoProbe DEF vars, readiness
<1>8. ASSUME NEW s \in {"terminate", "interrupt"}, Signal(s) PROVE Recent'
  BY <1>8, SameOrNoProbe DEF Signal, readiness
<1>9. CASE Drain
  BY <1>9, SameOrNoProbe DEF Drain, readiness
<1>10. CASE Drained \/ Cut
  BY <1>10, StartupAssumption DEF Drained, Cut, Exit, world, Recent, ReadyIsRecent
<1> QED
  BY <1>1, <1>2, <1>3, <1>4, <1>5, <1>6, <1>7, <1>8, <1>9, <1>10, TickRecent, Steps DEF Inside

-----------------------------------------------------------------------------
(* The invariant                                                            *)

IInv == Guarded /\ Waited /\ Recent

LEMMA InitInv == Init => IInv
<1> SUFFICES ASSUME Init PROVE IInv
  OBVIOUS
<1>1. Guarded
  BY StartupAssumption DEF Init, Guarded
<1>2. Waited
  BY IdleIsNothing DEF Init, Waited
<1>3. Recent
  BY StartupAssumption DEF Init, Recent, ReadyIsRecent
<1> QED
  BY <1>1, <1>2, <1>3 DEF IInv

LEMMA InvHolds == Spec => []IInv
<1>1. IInv /\ [Next]_vars => IInv'
  BY GuardedStep, WaitedStep, RecentStep DEF IInv
<1> QED
  BY <1>1, InitInv, PTL DEF Spec

\* A server that lets everybody in is in development mode and asks for no credentials, and any
\* other has a way in and decides by a usable policy set, the one in its store if that lasts
\* (main.rs, app.rs: assemble).
THEOREM EntryIsGuardedHolds == Spec => []EntryIsGuarded
<1>1. IInv => EntryIsGuarded
  BY DEF IInv, Guarded, EntryIsGuarded
<1> QED
  BY <1>1, InvHolds, PTL

\* Nobody is told "ready" of a component that was last up longer ago than a check and the life
\* of its result may take (health.rs: cached).
THEOREM ReadyIsRecentHolds == Spec => []ReadyIsRecent
<1>1. IInv => ReadyIsRecent
  BY DEF IInv, Recent
<1> QED
  BY <1>1, InvHolds, PTL

\* The end of a drain cuts off no request that has not had its whole time (start.rs:
\* DRAIN_TIMEOUT, app.rs: the time limit of requests).
THEOREM RequestsGetTheirTimeHolds == Spec => RequestsGetTheirTime
<1>1. IInv /\ [Next]_vars =>
        [phase = "draining" /\ phase' = "down" =>
           \A c \in Client : req[c].kind \in Limited => req[c].age >= RequestTimeout]_vars
  BY EndsInTime DEF IInv
<1> QED
  BY <1>1, InvHolds, PTL DEF Spec, RequestsGetTheirTime
=============================================================================
