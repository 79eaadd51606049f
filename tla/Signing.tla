------------------------------- MODULE Signing -------------------------------
(***************************************************************************)
(* Which objects a request to S3 addresses, as src/catalog/v1/sign.rs      *)
(* reads it before it is signed, and as S3 acts on it; and what the        *)
(* credentials of src/credentials reach.                                   *)
(*                                                                         *)
(* A request is its method, its host and the path after it, its query and  *)
(* headers, and the keys in its body.  Keys are what is between slashes,   *)
(* decoded; `hidden' says that a slash was hidden in one by its encoding.  *)
(***************************************************************************)
EXTENDS Locations, FiniteSets

CONSTANT
  Longer      \* pairs of names the first of which begins with the second

\* The host of a request: all of it as it is written, and the bucket in it, if there is one.
\* What a client sends besides is in its query (names with values) and its headers.
RemoteRequest(method, host, path) ==
  [method |-> method, host |-> host, path |-> path, hidden |-> FALSE, web |-> TRUE,
   query |-> <<>>, grants |-> FALSE, copies |-> <<>>, keys |-> None]

\* A host is written, and may begin with a bucket; keys and prefixes are words.
IsRemoteRequest(r) ==
  /\ r.host.whole \in STRING /\ Written(r.host.whole)
  /\ r.host.bucket # None => r.host.bucket \in STRING /\ Written(r.host.bucket)
  /\ r.path \in Seq(STRING)
  /\ Len(r.query) \in Nat /\ DOMAIN r.query = 1..Len(r.query)
  /\ \A n \in DOMAIN r.query : r.query[n][1] = "prefix" => r.query[n][2] \in Seq(STRING)
  /\ Len(r.copies) \in Nat /\ DOMAIN r.copies = 1..Len(r.copies)

S3(bucket, key) == [scheme |-> "s3", path |-> <<bucket>> \o key]

\* Queries about who may reach an object, how long it lasts or how its bucket behaves.
RefusedSubresource == {"acl", "policy", "tagging", "retention", "lifecycle", "versions"}

Values(r, name) == {r.query[i][2] : i \in {n \in DOMAIN r.query : r.query[n][1] = name}}

\* The first, where it is sent more than once.
FirstValue(r, name) ==
  r.query[CHOOSE n \in DOMAIN r.query :
            /\ r.query[n][1] = name
            /\ \A i \in DOMAIN r.query : r.query[i][1] = name => n <= i][2]

NamesOnce(r) == \A i, j \in DOMAIN r.query : r.query[i][1] = r.query[j][1] => i = j

\* What no signature of one request may be spent on.
MayBeSigned(r) ==
  /\ r.web /\ ~r.hidden /\ ~r.grants /\ NamesOnce(r)
  /\ \A i \in DOMAIN r.query : r.query[i][1] \notin RefusedSubresource

\* The bucket and the key, by the style the server is configured for.
Bucket(r, style) ==
  CASE style = "virtual-host" -> r.host.whole
    [] style = "auto" /\ r.host.bucket # None -> r.host.bucket
    [] OTHER -> IF r.path = <<>> \/ ~Written(Head(r.path)) THEN None ELSE Head(r.path)

Key(r, style) ==
  IF style = "virtual-host" \/ (style = "auto" /\ r.host.bucket # None) THEN r.path
  ELSE Tail(r.path)

\* An empty key is one of no characters: no segments, or one that is empty.
NoKey(key) == key \in {<<>>, <<"">>}

\* The source of a copy is read without its empty segments.
CopySource(copy) == [scheme |-> "s3", path |-> SelectSeq(copy, Written)]

IsDeleteObjects(r) == r.method = "POST" /\ "" \in Values(r, "delete")
IsListObjects(r) == r.method = "GET" /\ "2" \in Values(r, "list-type")

Addressed(op, locations, prefixes) ==
  [op |-> op, locations |-> locations, prefixes |-> prefixes]

AddressesCopy(r, bucket, key) ==
  IF ~NoKey(key) /\ r.method = "PUT" /\ Len(r.copies) = 1 /\ Len(CopySource(r.copies[1]).path) > 1
  THEN Addressed("write", {S3(bucket, key), CopySource(r.copies[1])}, FALSE)
  ELSE None

AddressesKeys(r, bucket, key) ==
  IF r.keys # None /\ NoKey(key) THEN Addressed("write", {S3(bucket, k) : k \in r.keys}, FALSE)
  ELSE None

\* A listing is of one prefix, and names it.
AddressesPrefix(r, bucket, key) ==
  IF Values(r, "prefix") # {} /\ NoKey(key)
  THEN Addressed("read", {S3(bucket, FirstValue(r, "prefix"))}, TRUE)
  ELSE None

AddressesObject(r, bucket, key) ==
  IF NoKey(key) \/ r.method \notin {"GET", "HEAD", "PUT", "POST", "DELETE", "PATCH"} THEN None
  ELSE Addressed(IF r.method \in {"GET", "HEAD"} THEN "read" ELSE "write",
                 {S3(bucket, key)}, FALSE)

\* None where the request is refused as it stands.
Resolve(r, style) ==
  LET bucket == Bucket(r, style)
      key    == Key(r, style)
  IN IF ~MayBeSigned(r) \/ bucket = None THEN None
     ELSE IF r.copies # <<>> THEN
            IF IsDeleteObjects(r) \/ IsListObjects(r) THEN None ELSE AddressesCopy(r, bucket, key)
     ELSE IF IsDeleteObjects(r) THEN AddressesKeys(r, bucket, key)
     ELSE IF IsListObjects(r) THEN AddressesPrefix(r, bucket, key)
     ELSE AddressesObject(r, bucket, key)

\* Bug: a prefix is confined as an object is.
ConfineObjects(addressed, l) == \A k \in addressed.locations : IsWithin(l, k)

Confine(addressed, l) ==
  \A k \in addressed.locations :
    IF addressed.prefixes THEN IsPrefixWithin(l, k) ELSE IsWithin(l, k)

\* The URL of an object: of a location written as s3://bucket/key.
HasObjectUrl(l) == l.scheme = "s3" /\ Len(l.path) > 1 /\ l.path[1] # "" /\ ~NoKey(Tail(l.path))

-----------------------------------------------------------------------------
(* What the storage services make of it                                     *)

\* Objects are compared by their keys: a bucket's name, and all that follows the slash.
SameObject(o, l) == CanonicalScheme(o.scheme) = CanonicalScheme(l.scheme) /\ o.path = l.path

BeginsWith(name, start) == start = "" \/ name = start \/ <<name, start>> \in Longer

\* A prefix ends anywhere in a key.
HasPrefix(o, l) ==
  LET n == Len(l.path)
  IN /\ CanonicalScheme(o.scheme) = CanonicalScheme(l.scheme) /\ Len(o.path) >= n
     /\ SubSeq(o.path, 1, n - 1) = SubSeq(l.path, 1, n - 1)
     /\ BeginsWith(o.path[n], l.path[n])

\* S3 reads the bucket where it is, acts on any of the values of a parameter sent twice, and
\* finds a copy's source by all of its key but the empty segments, which play no part here.
S3Reaches(r) ==
  LET bucket == IF r.host.bucket # None THEN r.host.bucket ELSE Head(r.path)
      key    == IF r.host.bucket # None THEN r.path ELSE Tail(r.path)
  IN CASE IsDeleteObjects(r) -> {o \in Object : \E k \in r.keys : SameObject(o, S3(bucket, k))}
       [] IsListObjects(r) ->
            {o \in Object : \E p \in Values(r, "prefix") : HasPrefix(o, S3(bucket, p))}
       [] OTHER ->
            {o \in Object : \/ SameObject(o, S3(bucket, key))
                            \/ \E i \in DOMAIN r.copies : SameObject(o, CopySource(r.copies[i]))}

-----------------------------------------------------------------------------
(* Credentials                                                              *)

\* The spellings each provider takes for its own.
SupportedSchemes(provider) ==
  CASE provider = "aws"   -> {"s3", "s3a", "s3n"}
    [] provider = "gcs"   -> {"gs", "gcs"}
    [] provider = "azure" -> {"abfs", "abfss"}
    [] OTHER              -> {}

SupportsLocation(provider, l) == l.scheme \in SupportedSchemes(provider)

\* Bug: the prefix a policy is written for does not end in a slash.
WithoutSlash(l) == [l EXCEPT !.path = Trimmed(@)]

\* A session policy, an access boundary and a directory's signature are all written for the
\* key of the location, with a slash at its end.
CredentialPrefix(l) == [l EXCEPT !.path = Append(Trimmed(@), "")]

\* The objects they let their holder at.
Within(l) == {o \in Object : HasPrefix(o, CredentialPrefix(l))}
=============================================================================
