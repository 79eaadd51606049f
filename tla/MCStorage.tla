------------------------------ MODULE MCStorage ------------------------------
(* A small instance of Storage for TLC: a bucket for the catalog of our own, one for a mount,
   and a remote catalog; tables beside, below and named like one another. *)
EXTENDS Storage, TLC

CONSTANTS c1, c2

At(scheme, path) == [scheme |-> scheme, path |-> path]
Ours3(key) == At("s3", <<"b", "wh">> \o key)

X   == <<<<"a">>, "x">>
XY  == <<<<"a">>, "xy">>
Y   == <<<<"a">>, "y">>
T   == <<<<"a", "x">>, "t">>
Up  == <<<<"a">>, "..">>
M   == <<<<"m", "a">>, "x">>
R   == <<<<"r", "a">>, "x">>
MCIdent == {X, XY, Y, T, Up, M, R}

MCWarehouse == Native :> Ours3(<<>>) @@ "m" :> At("abfss", <<"c@acct", "wh">>) @@ "r" :> None

\* In a table's own place, in that of one named like it, one below it, and elsewhere.
MCPlace == {Ours3(<<"a", "x">>), Ours3(<<"a", "x", "v2">>), At("s3a", <<"b", "wh", "a", "xy">>),
            Ours3(<<"a", "x", "..", "y">>), At("abfss", <<"c@acct", "wh", "a", "x", "">>)}

MCObject ==
  {Ours3(key) : key \in {<<"a", "x", "f">>, <<"a", "xy", "f">>, <<"a", "x", "t", "f">>, <<"a", "x", "v2", "f">>}}
  \cup {At("abfss", <<"c@acct", "wh", "a", "x", "f">>), At("s3", <<"b", "far", "f">>)}

MCLonger == {<<"xy", "x">>, <<"..", ".">>}

-----------------------------------------------------------------------------
AwsHost  == [whole |-> "b.s3.eu.amazonaws.com", bucket |-> "b"]
PathHost == [whole |-> "s3.eu.amazonaws.com", bucket |-> None]

Get(key)       == RemoteRequest("GET", AwsHost, key)
Object_(m, k)  == RemoteRequest(m, AwsHost, <<"wh", "a">> \o k)
Queried(r, q)  == [r EXCEPT !.query = q]
Listing(p)     == <<<<"list-type", "2">>, <<"prefix", p>>>>
Below(k)       == <<"wh", "a">> \o k

Requests ==
  {Object_("GET", <<"x", "f">>), Object_("HEAD", <<"x", "v2", "f">>), Object_("PUT", <<"x", "f">>),
   Object_("GET", <<"xy", "f">>), Object_("GET", <<"x", "..", "xy", "f">>), Object_("TRACE", <<"x", "f">>),
   RemoteRequest("GET", PathHost, <<"b", "wh", "a", "x", "f">>),
   RemoteRequest("GET", PathHost, <<"", "b", "wh", "a", "x", "f">>),
   [Object_("GET", <<"x", "f">>) EXCEPT !.hidden = TRUE],
   [Object_("PUT", <<"x", "f">>) EXCEPT !.grants = TRUE],
   Queried(Object_("PUT", <<"x", "f">>), <<<<"acl", "">>>>)}
  \cup {Queried(Get(<<>>), Listing(Below(p))) : p \in {<<"x">>, <<"x", "">>, <<"x", "t">>}}
  \cup {Queried(Get(<<>>), Listing(Below(<<"x", "">>)) \o <<<<"prefix", Below(<<"xy", "">>)>>>>),
        Queried(Get(<<>>), <<<<"list-type", "2">>>>), Queried(Get(<<"wh">>), Listing(Below(<<"x", "">>)))}
  \cup {[Object_("PUT", <<"x", "f">>) EXCEPT !.copies = s] :
          s \in {<<<<"b", "wh", "a", "x", "", "f">>>>, <<<<"b", "wh", "a", "xy", "f">>>>,
                 <<<<"b", "wh", "a", "x", "f">>, <<"b", "wh", "a", "xy", "f">>>>}}
  \cup {[Object_("GET", <<"x", "f">>) EXCEPT !.copies = <<<<"b", "wh", "a", "x", "f">>>>]}
  \cup {[Queried(RemoteRequest("POST", AwsHost, <<>>), <<<<"delete", "">>>>) EXCEPT !.keys = k] :
          k \in {None, {Below(<<"x", "f">>)}, {Below(<<"x", "f">>), Below(<<"xy", "f">>)}}}

Anything == {"read", "create", "update"}
Permit(for1, for2) ==
  c1 :> [i \in Ident |-> for1] @@ c2 :> [i \in Ident |-> for2]

Open == {Permit(Anything, {"read"})}
Shifting == {Permit(Anything, {"read"}), Permit({"read"}, {}), Permit({"read", "update", "restricted"}, {"read"})}

Vend(i)      == [form |-> "vend", on |-> i, place |-> None, request |-> None]
Plan(i)      == [form |-> "plan", on |-> i, place |-> None, request |-> None]
Make(i, l)   == [form |-> "create", on |-> i, place |-> l, request |-> None]
Stage(i, l)  == [form |-> "stage", on |-> i, place |-> l, request |-> None]
SignIt(i, r) == [form |-> "sign", on |-> i, place |-> None, request |-> r]

Nothing == [i \in Ident |-> None]
Table(i, l, files) == [Resource("table", l, i) EXCEPT !.files = files]

InX  == Ours3(<<"a", "x">>)
InV2 == Ours3(<<"a", "x", "v2">>)
InXY == At("s3a", <<"b", "wh", "a", "xy">>)
InM  == At("abfss", <<"c@acct", "wh", "a", "x", "">>)
FileOf(l) == [l EXCEPT !.path = Append(@, "f")]
Far  == At("s3", <<"b", "far", "f">>)

Quiet == [scope |-> "table", held |-> Nothing, provider |-> "aws", prefixes |-> {Ours3(<<"">>)},
          signing |-> TRUE, style |-> "auto", failClosed |-> TRUE, names |-> {}, places |-> {},
          files |-> {}, asks |-> {}, policies |-> Open,
          edits |-> 0, swaps |-> 0, requests |-> 0, failures |-> 0]

MCScenarios ==
  LET Names  == [Quiet EXCEPT !.names = {X, XY, T}, !.edits = 3, !.places = MCPlace \ {InM},
                              !.files = {FileOf(InX), FileOf(InV2)}]
      Mounts == [Quiet EXCEPT !.names = {M, R, Up}, !.edits = 2, !.places = {InM, InX},
                              !.files = {FileOf([InM EXCEPT !.path = Trimmed(@)]), Far}]
      Signed == [Quiet EXCEPT !.held = [Nothing EXCEPT ![X] = Table(X, InX, {}), ![XY] = Table(XY, InXY, {})],
                              !.asks = {SignIt(X, r) : r \in Requests}, !.requests = 1]
      Loose  == [Signed EXCEPT !.asks = {SignIt(X, Object_("PUT", <<"x", "f">>)), Vend(X), Plan(X)},
                               !.policies = Shifting, !.swaps = 1, !.failures = 1]
      Vended == [Quiet EXCEPT !.held = [Nothing EXCEPT ![X] = Table(X, InX, {})], !.policies = Shifting,
                              !.asks = {Vend(X), Make(Y, None), Make(Y, InX), Stage(XY, InXY), Stage(X, None)},
                              !.names = {X}, !.places = {InV2}, !.edits = 1, !.requests = 2, !.failures = 1]
      Azure  == [Quiet EXCEPT !.held = [Nothing EXCEPT ![M] = Table(M, InM, {})], !.provider = "azure",
                              !.prefixes = {At("abfs", <<"c@acct">>)},
                              !.asks = {Vend(M)}, !.requests = 4, !.failures = 1]
      Remote == [Quiet EXCEPT !.held = [Nothing EXCEPT ![R] = Table(R, InX, {})],
                              !.asks = {Vend(R), Plan(R), SignIt(R, Object_("GET", <<"x", "f">>))}, !.requests = 2]
      Planned == [Quiet EXCEPT !.policies = Shifting, !.asks = {Plan(X), Plan(Y)}, !.requests = 1, !.swaps = 1,
                               !.names = {X}, !.places = {InX, InV2}, !.edits = 2,
                               !.files = {FileOf(InX), FileOf(InV2), Far}]
  IN [names |-> Names, namesInWarehouse |-> [Names EXCEPT !.scope = "warehouse"],
      mounts |-> Mounts, mountsInWarehouse |-> [Mounts EXCEPT !.scope = "warehouse"],
      signed |-> [Signed EXCEPT !.names = {X}, !.places = {InV2}, !.edits = 1],
      signedByPath |-> [Signed EXCEPT !.style = "path"],
      signedByHost |-> [Signed EXCEPT !.style = "virtual-host"],
      unsigned |-> [Signed EXCEPT !.signing = FALSE],
      loose |-> Loose, looseTrail |-> [Loose EXCEPT !.failClosed = FALSE],
      vended |-> Vended, vendedElsewhere |-> [Vended EXCEPT !.prefixes = {Far}],
      azure |-> Azure, remote |-> Remote, planned |-> Planned]
=============================================================================
