------------------------------ MODULE Locations ------------------------------
(***************************************************************************)
(* Where files live, and which place is inside which (src/location.rs),    *)
(* and the names places are made of (src/names.rs).  A location is its     *)
(* scheme and what is between the slashes after it; of a bucket or a       *)
(* container the first of these is its name.                               *)
(***************************************************************************)
EXTENDS Integers, Sequences

CONSTANTS
  None,
  Object,                \* the objects there are, as locations
  Misshapen,             \* names that are too long, not in NFC, hold a separator or a
                         \* character that shows as nothing, or begin or end in a blank
  MaxNamespaceDepth      \* names.rs: levels of a namespace

ASSUME LocationsAssumption == {"", ".", ".."} \cap Misshapen = {} /\ MaxNamespaceDepth \in Nat \ {0}

ValidName(name) == name \notin Misshapen \cup {"", ".", ".."}

ValidNamespace(p) == Len(p) \in 1..MaxNamespaceDepth /\ \A i \in DOMAIN p : ValidName(p[i])

\* Spellings of one store.
CanonicalScheme(scheme) ==
  CASE scheme \in {"s3", "s3a", "s3n"}            -> "s3"
    [] scheme \in {"gs", "gcs"}                   -> "gs"
    [] scheme \in {"abfs", "abfss", "az", "adls"} -> "abfs"
    [] OTHER                                      -> scheme

Written(name) == name # ""

IsAbsolute(l) == Len(l.path) > 1 /\ ~Written(l.path[1])

EndsInSlash(l) == Len(l.path) > 1 /\ ~Written(l.path[Len(l.path)])

\* Doubled slashes fold on a filesystem; elsewhere they are part of the key.
Segments(l) ==
  IF CanonicalScheme(l.scheme) = "file" THEN SelectSeq(l.path, Written)
  ELSE LET path == IF IsAbsolute(l) THEN Tail(l.path) ELSE l.path
       IN IF path = <<"">> THEN <<>> ELSE path

\* What a location is made of is words.
IsLocation(l) ==
  /\ l = [scheme |-> l.scheme, path |-> l.path]
  /\ l.path \in Seq(STRING) /\ l.path # <<>> /\ Segments(l) \in Seq(STRING)

\* Objects are in the buckets of three kinds of stores, under keys that climb nowhere.
ASSUME ObjectsAssumption ==
  \A o \in Object :
    /\ o.path \in Seq(STRING) /\ Len(o.path) > 1 /\ Written(o.path[1])
    /\ \A n \in DOMAIN o.path : o.path[n] # ".."
    /\ CanonicalScheme(o.scheme) \in {"s3", "gs", "abfs"}

SameStore(l, k) ==
  /\ CanonicalScheme(l.scheme) = CanonicalScheme(k.scheme)
  /\ CanonicalScheme(l.scheme) = "file" => IsAbsolute(l) = IsAbsolute(k)

\* What is left of a root whose trailing slashes are dropped.
Significant(segments, i) == \E j \in i..Len(segments) : Written(segments[j])

IsWithin(root, candidate) ==
  LET r == Segments(root)
      c == Segments(candidate)
  IN /\ SameStore(root, candidate)
     /\ \A i \in 1..Len(c) : c[i] # ".."
     /\ \A i \in 1..Len(r) : Significant(r, i) => i \in 1..Len(c) /\ c[i] = r[i]

\* Inside, and not the root itself: a prefix is matched as a string, and would match what
\* is beside the root.
IsPrefixWithin(root, candidate) ==
  LET r == Segments(root)
      c == Segments(candidate)
  IN /\ IsWithin(root, candidate)
     /\ (\E i \in DOMAIN c : ~Significant(r, i)) \/ EndsInSlash(candidate)

IsVendable(prefixes, l) == \E p \in prefixes : IsWithin(p, l)

-----------------------------------------------------------------------------
(* The places names have, and what a resource may be moved to              *)

\* Without the slashes at its end.
Trimmed(path) ==
  SubSeq(path, 1, CHOOSE n \in DOMAIN path :
                    /\ \A i \in DOMAIN path : i > n => ~Written(path[i])
                    /\ n = 1 \/ Written(path[n]))

JoinSegments(l, names) == [scheme |-> l.scheme, path |-> Trimmed(l.path) \o names]

NamespacePrefix(warehouse, p) == JoinSegments(warehouse, p)

CanonicalPrefix(warehouse, p, name) == JoinSegments(warehouse, Append(p, name))

\* The root of what one resource may declare.
LocationBound(scope, warehouse, prefix, name) ==
  IF scope = "warehouse" THEN warehouse ELSE JoinSegments(prefix, <<name>>)

\* A commit may move a resource within its bound, or within where it is.
EnsureCommit(bound, current, l) == IsWithin(bound, l) \/ IsWithin(current, l)

\* A file a commit or a plan names is the table's own.
EnsureOwned(current, file) == IsWithin(current, file)
=============================================================================
