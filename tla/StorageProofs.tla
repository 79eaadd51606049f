---------------------------- MODULE StorageProofs ----------------------------
(***************************************************************************)
(* Of the access to tables' files, for any names, warehouses, policies,    *)
(* requests and clients: tables and views stay where their names put them, *)
(* what is issued reaches nothing else, was earned and is on record, and   *)
(* no signature outlives its key.                                          *)
(***************************************************************************)
EXTENDS Storage, SequenceTheorems, WellFoundedInduction, TLAPS

-----------------------------------------------------------------------------
(* Places                                                                   *)

LEMMA Later ==
  ASSUME NEW m \in Nat, NEW i \in 1..m, NEW j \in i..m
  PROVE  /\ j \in 1..m /\ j \in j..m
         /\ \A n \in Nat : j \in 1..n => j \in i..n
  OBVIOUS

\* What is inside something inside a root is inside the root: a segment the root insists on
\* is one that what lies between insists on too.
LEMMA WithinWithin ==
  ASSUME NEW a, NEW b, NEW c, IsLocation(a), IsLocation(b), IsWithin(a, b), IsWithin(b, c)
  PROVE  IsWithin(a, c)
<1> DEFINE p == Segments(a)
           q == Segments(b)
           r == Segments(c)
<1>1. SameStore(a, c)
  BY DEF IsWithin, SameStore
<1>2. \A i \in 1..Len(r) : r[i] # ".."
  BY DEF IsWithin
<1>3. \A i \in 1..Len(p) : Significant(p, i) => i \in 1..Len(q) /\ q[i] = p[i]
  BY DEF IsWithin
<1>4. \A i \in 1..Len(q) : Significant(q, i) => i \in 1..Len(r) /\ r[i] = q[i]
  BY DEF IsWithin
<1>0. Len(p) \in Nat /\ Len(q) \in Nat
  BY DEF IsLocation
<1> HIDE DEF p, q, r
<1>5. ASSUME NEW i \in 1..Len(p), Significant(p, i) PROVE i \in 1..Len(r) /\ r[i] = p[i]
  <2>1. PICK j \in i..Len(p) : Written(p[j])
    BY <1>5 DEF Significant
  <2>2. j \in 1..Len(p) /\ j \in j..Len(p)
    BY <1>0, <1>5, <2>1, Later
  <2>3. j \in 1..Len(q) /\ Written(q[j])
    BY <1>3, <2>1, <2>2 DEF Significant
  <2>4. j \in i..Len(q)
    BY <1>0, <1>5, <2>1, <2>3, Later
  <2>5. Significant(q, i)
    BY <2>3, <2>4 DEF Significant
  <2> QED
    BY <1>3, <1>4, <1>5, <2>5
<1> QED
  BY <1>1, <1>2, <1>5 DEF IsWithin, p, q, r

-----------------------------------------------------------------------------
(* Objects                                                                  *)

Earlier == {p \in Nat \X Nat : p[1] < p[2]}

LEMMA Least ==
  ASSUME NEW Q, Q \subseteq Nat, Q # {}
  PROVE  \E m \in Q : \A n \in Q : m <= n
<1>1. IsWellFoundedOn(Earlier, Nat)
  BY NatLessThanWellFounded DEF OpToRel, Earlier
<1>2. PICK m \in Q : \A n \in Q : <<n, m>> \notin Earlier
  BY <1>1, WFMin
<1>3. ASSUME NEW n \in Q PROVE m <= n
  <2>1. m \in Nat /\ n \in Nat
    OBVIOUS
  <2>2. ~(n < m)
    BY <1>2, <2>1 DEF Earlier
  <2> QED
    BY <2>1, <2>2
<1> QED
  BY <1>3

\* What is cut off a path is its empty end, and something of it stays.
LEMMA TrimmedIs ==
  ASSUME NEW p \in Seq(STRING), p # <<>>
  PROVE  \E n \in 1..Len(p) : /\ Trimmed(p) = SubSeq(p, 1, n)
                              /\ \A i \in 1..Len(p) : i > n => ~Written(p[i])
<1> DEFINE Q == {n \in 1..Len(p) : \A i \in 1..Len(p) : i > n => ~Written(p[i])}
           Ends(n) == /\ \A i \in DOMAIN p : i > n => ~Written(p[i])
                      /\ n = 1 \/ Written(p[n])
<1>0. Len(p) \in Nat \ {0} /\ DOMAIN p = 1..Len(p)
  BY LenProperties, EmptySeq
<1>1. Len(p) \in Q
  BY <1>0
<1>2. PICK m \in Q : \A n \in Q : m <= n
  <2>1. Q \subseteq Nat /\ Q # {}
    BY <1>0, <1>1
  <2> HIDE DEF Q
  <2> QED
    BY <2>1, Least
<1>3. ASSUME m # 1, ~Written(p[m]) PROVE FALSE
  <2>1. m - 1 \in 1..Len(p) /\ m \in 1..Len(p)
    BY <1>0, <1>3
  <2>2. \A i \in 1..Len(p) : i > m - 1 => i = m \/ i > m
    BY <1>0, <2>1
  <2>3. m - 1 \in Q
    BY <1>3, <2>1, <2>2
  <2>4. m <= m - 1
    BY <1>2, <2>3
  <2> QED
    BY <1>0, <2>1, <2>4
<1>4. m \in DOMAIN p /\ Ends(m)
  BY <1>0, <1>3
<1> DEFINE k == CHOOSE n \in DOMAIN p : Ends(n)
<1>5. k \in DOMAIN p /\ Ends(k)
  BY <1>4
<1>6. Trimmed(p) = SubSeq(p, 1, k)
  BY DEF Trimmed
<1> HIDE DEF k
<1> QED
  BY <1>0, <1>5, <1>6

\* What does not begin with a slash, and is in a bucket, is its own segments.
LEMMA PlainSegments ==
  ASSUME NEW l, l.path \in Seq(STRING), l.path # <<>>, Written(l.path[1]),
         CanonicalScheme(l.scheme) # "file"
  PROVE  Segments(l) = l.path
<1>1. l.path # <<"">> /\ ~IsAbsolute(l)
  <2>1. ASSUME l.path = <<"">> PROVE FALSE
    <3> DEFINE blank == ""
    <3>1. ~Written(blank)
      BY Zenon DEF Written
    <3>2. l.path = <<blank>>
      BY <2>1
    <3> HIDE DEF blank
    <3>3. l.path[1] = blank
      BY <3>2
    <3> QED
      BY <3>1, <3>3
  <2> QED
    BY <2>1, Zenon DEF IsAbsolute
<1> QED
  BY <1>1, Zenon DEF Segments

LEMMA ObjectSegments ==
  ASSUME NEW o \in Object
  PROVE  /\ o.path \in Seq(STRING) /\ Len(o.path) \in Nat /\ Len(o.path) > 1 /\ Written(o.path[1])
         /\ DOMAIN o.path = 1..Len(o.path)
         /\ \A n \in 1..Len(o.path) : o.path[n] # ".."
         /\ CanonicalScheme(o.scheme) # "file" /\ Segments(o) = o.path
<1>1. /\ o.path \in Seq(STRING) /\ Len(o.path) > 1 /\ Written(o.path[1])
      /\ \A n \in DOMAIN o.path : o.path[n] # ".."
      /\ CanonicalScheme(o.scheme) # "file"
  BY ObjectsAssumption
<1>2. Len(o.path) \in Nat /\ DOMAIN o.path = 1..Len(o.path) /\ o.path # <<>>
  BY <1>1, LenProperties
<1> QED
  BY <1>1, <1>2, PlainSegments

LEMMA Wider ==
  ASSUME NEW S, NEW T, S \subseteq T, NEW s \in Seq(S)
  PROVE  s \in Seq(T)
  OBVIOUS

\* What credentials for a place reach is in it: their prefix ends in a slash, and what the
\* place is written with at its end counts for nothing.
LEMMA CredentialsReachWithin ==
  ASSUME NEW l, IsLocation(l), CanonicalScheme(l.scheme) # "file", NEW o \in Within(l)
  PROVE  IsWithin(l, o)
<1> DEFINE p == l.path
           prefix == CredentialPrefix(l)
<1>1. p \in Seq(STRING) /\ p # <<>> /\ l = [scheme |-> l.scheme, path |-> p]
  BY DEF IsLocation
<1>2. PICK n \in 1..Len(p) : /\ Trimmed(p) = SubSeq(p, 1, n)
                            /\ \A i \in 1..Len(p) : i > n => ~Written(p[i])
  BY <1>1, TrimmedIs
<1>3. Len(p) \in Nat /\ DOMAIN p = 1..Len(p) /\ n \in Nat
  BY <1>1, LenProperties
<1> DEFINE blank == ""
<1>4. prefix = [l EXCEPT !.path = Append(Trimmed(p), blank)]
  BY Zenon DEF CredentialPrefix
<1> DEFINE Text == STRING \cup {blank}
<1> HIDE DEF p, prefix, blank
<1>5. blank \in Text /\ STRING \subseteq Text
  OBVIOUS
<1> HIDE DEF Text
<1>6. prefix.path = Append(Trimmed(p), blank) /\ prefix.scheme = l.scheme
  BY <1>1, <1>4
<1>7. /\ Trimmed(p) \in Seq(STRING) /\ Len(Trimmed(p)) = n
      /\ \A i \in 1..n : Trimmed(p)[i] = p[i]
  BY <1>1, <1>2, <1>3, SubSeqProperties
<1>8. /\ prefix.path \in Seq(Text) /\ Len(prefix.path) = n + 1
      /\ \A i \in 1..n : prefix.path[i] = p[i]
  <2>1. Trimmed(p) \in Seq(Text)
    BY <1>5, <1>7, Wider
  <2> QED
    BY <1>3, <1>6, <1>5, <1>7, <2>1, AppendProperties
<1>9. o \in Object /\ HasPrefix(o, prefix)
  BY DEF Within, prefix
<1>10. /\ CanonicalScheme(o.scheme) = CanonicalScheme(l.scheme) /\ Len(o.path) >= n + 1
      /\ SubSeq(o.path, 1, n) = SubSeq(prefix.path, 1, n)
  BY <1>3, <1>6, <1>8, <1>9 DEF HasPrefix
<1>11. o.path \in Seq(STRING) /\ Len(o.path) \in Nat /\ Written(o.path[1]) /\ Segments(o) = o.path
  BY <1>9, ObjectSegments
<1>12. \A i \in 1..n : o.path[i] = p[i]
  <2>2. \A i \in 1..n : SubSeq(o.path, 1, n)[i] = o.path[i]
    BY <1>3, <1>10, <1>11, SubSeqProperties
  <2>3. \A i \in 1..n : SubSeq(prefix.path, 1, n)[i] = prefix.path[i]
    BY <1>3, <1>8, SubSeqProperties
  <2> QED
    BY <1>8, <1>10, <2>2, <2>3
<1>13. Written(p[1])
  BY <1>3, <1>11, <1>12
<1>14. Segments(l) = p
  BY <1>1, <1>13, PlainSegments DEF p
<1>15. ASSUME NEW i \in 1..Len(p), Significant(p, i) PROVE i \in 1..Len(o.path) /\ o.path[i] = p[i]
  <2>1. PICK j \in i..Len(p) : Written(p[j])
    BY <1>15 DEF Significant
  <2>2. i \in 1..n
    BY <1>2, <1>3, <2>1
  <2> QED
    BY <1>3, <1>10, <1>11, <1>12, <2>2
<1>16. SameStore(l, o)
  BY <1>10 DEF SameStore
<1>17. \A i \in 1..Len(o.path) : o.path[i] # ".."
  BY <1>9, ObjectSegments
<1> QED
  BY <1>11, <1>14, <1>15, <1>16, <1>17 DEF IsWithin

LEMMA SameObjectWithin ==
  ASSUME NEW l, NEW k, NEW o \in Object, SameObject(o, k), IsWithin(l, k)
  PROVE  IsWithin(l, o)
<1>1. k.path = o.path /\ CanonicalScheme(k.scheme) = CanonicalScheme(o.scheme)
  BY DEF SameObject
<1>2. /\ o.path \in Seq(STRING) /\ o.path # <<>> /\ Written(o.path[1])
      /\ CanonicalScheme(o.scheme) # "file" /\ Segments(o) = o.path
  BY ObjectSegments
<1>3. Segments(k) = Segments(o)
  BY <1>1, <1>2, PlainSegments
<1>4. SameStore(l, k) => SameStore(l, o)
  BY <1>1, <1>2 DEF SameStore
<1> QED
  BY <1>3, <1>4 DEF IsWithin

\* A prefix that is within a place and is not the place is matched by nothing beside it: the
\* segment it ends with is one the place says nothing of, or is complete.
LEMMA ListedWithin ==
  ASSUME NEW l, IsLocation(l), NEW k, k.path \in Seq(STRING), Len(k.path) > 0, Written(k.path[1]),
         NEW o \in Object, HasPrefix(o, k), IsPrefixWithin(l, k)
  PROVE  IsWithin(l, o)
<1> DEFINE r == Segments(l)
           c == k.path
           n == Len(c)
<1>1. /\ o.path \in Seq(STRING) /\ Len(o.path) \in Nat /\ Segments(o) = o.path
      /\ CanonicalScheme(o.scheme) # "file" /\ \A i \in 1..Len(o.path) : o.path[i] # ".."
  BY ObjectSegments
<1>2. /\ CanonicalScheme(o.scheme) = CanonicalScheme(k.scheme) /\ Len(o.path) >= n
      /\ SubSeq(o.path, 1, n - 1) = SubSeq(c, 1, n - 1)
  BY DEF HasPrefix
<1>3. Segments(k) = c /\ n \in Nat /\ DOMAIN c = 1..n
  BY <1>1, <1>2, PlainSegments, LenProperties
<1>4. /\ SameStore(l, k) /\ \A i \in 1..Len(r) : Significant(r, i) => i \in 1..n /\ c[i] = r[i]
      /\ (\E i \in 1..n : ~Significant(r, i)) \/ EndsInSlash(k)
  BY <1>3 DEF IsPrefixWithin, IsWithin
<1>5. r \in Seq(STRING) /\ Len(r) \in Nat
  BY LenProperties DEF IsLocation
<1>6. EndsInSlash(k) => ~Written(c[n])
  BY DEF EndsInSlash
<1>7. SameStore(l, o)
  BY <1>1, <1>2, <1>4 DEF SameStore
<1> HIDE DEF r, c, n
<1>8. \A i \in 1..(n - 1) : o.path[i] = c[i]
  <2>1. c \in Seq(STRING) /\ n = Len(c)
    BY DEF c, n
  <2>2. \A i \in 1..(n - 1) : SubSeq(o.path, 1, n - 1)[i] = o.path[i]
    BY <1>1, <1>2, <1>3, SubSeqProperties
  <2>3. \A i \in 1..(n - 1) : SubSeq(c, 1, n - 1)[i] = c[i]
    BY <1>3, <2>1, SubSeqProperties
  <2> QED
    BY <1>2, <2>2, <2>3
<1>9. ASSUME n \in 1..Len(r), Significant(r, n) PROVE FALSE
  <2>1. PICK j \in n..Len(r) : Written(r[j])
    BY <1>9 DEF Significant
  <2>2. \A i \in 1..n : Significant(r, i)
    BY <1>3, <1>5, <2>1 DEF Significant
  <2>3. ~Written(r[n])
    BY <1>4, <1>6, <1>9, <2>2
  <2>4. j \in 1..Len(r) /\ j # n /\ Significant(r, j)
    BY <1>3, <1>5, <2>1, <2>3 DEF Significant
  <2> QED
    BY <1>3, <1>4, <1>5, <2>1, <2>4
<1>10. ASSUME NEW i \in 1..Len(r), Significant(r, i) PROVE i \in 1..Len(o.path) /\ o.path[i] = r[i]
  <2>1. i \in 1..n /\ c[i] = r[i] /\ i # n
    BY <1>4, <1>9, <1>10
  <2> QED
    BY <1>1, <1>2, <1>3, <1>8, <2>1
<1> QED
  BY <1>1, <1>7, <1>10 DEF IsWithin, r

-----------------------------------------------------------------------------
(* Requests to be signed                                                    *)

\* A request is written in the style it is read in: with a bucket in its path, or a bucket
\* for its host.
SignedAsRead(r, style) ==
  CASE style = "virtual-host" -> r.host.bucket = r.host.whole
    [] style = "auto"         -> TRUE
    [] OTHER                  -> r.host.bucket = None

\* The bucket and the key S3 reads.
ReadBucket(r) == IF r.host.bucket # None THEN r.host.bucket ELSE Head(r.path)
ReadKey(r) == IF r.host.bucket # None THEN r.path ELSE Tail(r.path)

LEMMA SameReading ==
  ASSUME NEW r, IsRemoteRequest(r), NEW style, SignedAsRead(r, style), Bucket(r, style) # None
  PROVE  /\ Bucket(r, style) = ReadBucket(r) /\ Key(r, style) = ReadKey(r)
         /\ ReadBucket(r) \in STRING /\ Written(ReadBucket(r))
<1>1. CASE style = "virtual-host"
  BY <1>1 DEF SignedAsRead, Bucket, Key, ReadBucket, ReadKey, IsRemoteRequest
<1>2. CASE style = "auto" /\ r.host.bucket # None
  BY <1>2 DEF SignedAsRead, Bucket, Key, ReadBucket, ReadKey, IsRemoteRequest
<1>3. CASE style # "virtual-host" /\ r.host.bucket = None
  <2>1. r.path \in Seq(STRING) /\ r.path # <<>> /\ Written(Head(r.path)) /\ Bucket(r, style) = Head(r.path)
    BY <1>3 DEF Bucket, IsRemoteRequest
  <2>2. Head(r.path) \in STRING
    BY <2>1, HeadTailProperties
  <2>3. Key(r, style) = Tail(r.path)
    BY <1>3 DEF Key
  <2> QED
    BY <1>3, <2>1, <2>2, <2>3 DEF ReadBucket, ReadKey
<1>4. style # "virtual-host" /\ r.host.bucket # None => style = "auto"
  BY DEF SignedAsRead
<1> QED
  BY <1>1, <1>2, <1>3, <1>4

\* The value of a parameter that is sent once.
LEMMA OneValue ==
  ASSUME NEW r, IsRemoteRequest(r), NamesOnce(r), NEW v \in Values(r, "prefix")
  PROVE  v = FirstValue(r, "prefix") /\ v \in Seq(STRING)
<1> DEFINE First(n) == /\ r.query[n][1] = "prefix"
                       /\ \A i \in DOMAIN r.query : r.query[i][1] = "prefix" => n <= i
<1>1. PICK n \in DOMAIN r.query : r.query[n][1] = "prefix" /\ v = r.query[n][2]
  BY DEF Values
<1>2. n \in Nat /\ \A i \in DOMAIN r.query : r.query[i][1] = "prefix" => i = n
  BY <1>1 DEF IsRemoteRequest, NamesOnce
<1>3. First(n)
  BY <1>1, <1>2
<1> DEFINE k == CHOOSE i \in DOMAIN r.query : First(i)
<1>4. k \in DOMAIN r.query /\ First(k)
  BY <1>1, <1>3
<1>5. k = n
  BY <1>2, <1>4
<1>6. FirstValue(r, "prefix") = r.query[k][2]
  BY DEF FirstValue
<1> HIDE DEF k
<1> QED
  BY <1>1, <1>5, <1>6 DEF IsRemoteRequest

LEMMA Prefixed ==
  ASSUME NEW S, NEW b \in S, NEW key \in Seq(S)
  PROVE  <<b>> \o key \in Seq(S) /\ Len(<<b>> \o key) > 0 /\ (<<b>> \o key)[1] = b
<1> DEFINE t == <<b>>
<1>1. t \in Seq(S) /\ Len(t) = 1 /\ t[1] = b
  OBVIOUS
<1>2. Len(key) \in Nat
  BY LenProperties
<1> HIDE DEF t
<1>3. /\ t \o key \in Seq(S) /\ Len(t \o key) = Len(t) + Len(key)
      /\ \A i \in 1..(Len(t) + Len(key)) :
           (t \o key)[i] = IF i <= Len(t) THEN t[i] ELSE key[i - Len(t)]
  BY ONLY <1>1, ConcatProperties, key \in Seq(S)
<1>4. t \o key \in Seq(S) /\ Len(t \o key) > 0 /\ (t \o key)[1] = b
  BY <1>1, <1>2, <1>3
<1> QED
  BY <1>4 DEF t

LEMMA SignedPath ==
  ASSUME NEW b \in STRING, NEW key \in Seq(STRING)
  PROVE  LET k == S3(b, key)
         IN  k.scheme = "s3" /\ k.path \in Seq(STRING) /\ Len(k.path) > 0 /\ k.path[1] = b
<1> DEFINE path == <<b>> \o key
<1>1. path \in Seq(STRING) /\ Len(path) > 0 /\ path[1] = b
  BY Prefixed, Zenon
<1>2. S3(b, key) = [scheme |-> "s3", path |-> path]
  BY DEF S3
<1> HIDE DEF path
<1> QED
  BY <1>1, <1>2

LEMMA OneOrOther ==
  ASSUME NEW r
  PROVE  ~(IsDeleteObjects(r) /\ IsListObjects(r))
<1>1. IsDeleteObjects(r) => r.method = "POST"
  BY Zenon DEF IsDeleteObjects
<1>2. IsListObjects(r) => r.method = "GET"
  BY Zenon DEF IsListObjects
<1> QED
  BY <1>1, <1>2

\* Whatever S3 does on a request, it does to objects in the place the request was confined to.
LEMMA ReachIsConfined ==
  ASSUME NEW r, IsRemoteRequest(r), NEW style, SignedAsRead(r, style), Resolve(r, style) # None,
         NEW l, IsLocation(l), Confine(Resolve(r, style), l), NEW o \in S3Reaches(r)
  PROVE  IsWithin(l, o)
<1> DEFINE bucket == ReadBucket(r)
           key == ReadKey(r)
           addressed == Resolve(r, style)
<1>1. MayBeSigned(r) /\ Bucket(r, style) # None
  BY DEF Resolve
<1>2. /\ Bucket(r, style) = bucket /\ Key(r, style) = key /\ bucket \in STRING /\ Written(bucket)
  BY <1>1, SameReading
<1>3. /\ r.copies # <<>> => /\ ~IsDeleteObjects(r) /\ ~IsListObjects(r)
                           /\ addressed = AddressesCopy(r, bucket, key)
      /\ r.copies = <<>> /\ IsDeleteObjects(r) => addressed = AddressesKeys(r, bucket, key)
      /\ r.copies = <<>> /\ ~IsDeleteObjects(r) /\ IsListObjects(r) =>
           addressed = AddressesPrefix(r, bucket, key)
      /\ r.copies = <<>> /\ ~IsDeleteObjects(r) /\ ~IsListObjects(r) =>
           addressed = AddressesObject(r, bucket, key)
  BY <1>1, <1>2 DEF Resolve
<1>4. /\ o \in Object
      /\ IsDeleteObjects(r) => \E k \in r.keys : SameObject(o, S3(bucket, k))
      /\ IsListObjects(r) => \E p \in Values(r, "prefix") : HasPrefix(o, S3(bucket, p))
      /\ ~IsDeleteObjects(r) /\ ~IsListObjects(r) =>
           \/ SameObject(o, S3(bucket, key))
           \/ \E i \in DOMAIN r.copies : SameObject(o, CopySource(r.copies[i]))
  BY OneOrOther DEF S3Reaches, ReadBucket, ReadKey
<1>5. /\ addressed.prefixes = FALSE => \A k \in addressed.locations : IsWithin(l, k)
      /\ addressed.prefixes = TRUE => \A k \in addressed.locations : IsPrefixWithin(l, k)
  BY DEF Confine
<1>6. CASE r.copies = <<>> /\ IsDeleteObjects(r)
  <2>1. addressed = Addressed("write", {S3(bucket, k) : k \in r.keys}, FALSE)
    BY <1>3, <1>6 DEF AddressesKeys
  <2>2. PICK k \in r.keys : SameObject(o, S3(bucket, k))
    BY <1>4, <1>6
  <2>3. IsWithin(l, S3(bucket, k))
    BY <1>5, <2>1 DEF Addressed
  <2> QED
    BY <1>4, <2>2, <2>3, SameObjectWithin
<1>7. CASE r.copies = <<>> /\ ~IsDeleteObjects(r) /\ IsListObjects(r)
  <2>1. addressed = Addressed("read", {S3(bucket, FirstValue(r, "prefix"))}, TRUE)
    BY <1>3, <1>7 DEF AddressesPrefix
  <2>2. PICK p \in Values(r, "prefix") : HasPrefix(o, S3(bucket, p))
    BY <1>4, <1>7
  <2>3. p = FirstValue(r, "prefix") /\ p \in Seq(STRING)
    BY <1>1, OneValue DEF MayBeSigned
  <2>4. IsPrefixWithin(l, S3(bucket, p))
    BY <1>5, <2>1, <2>3 DEF Addressed
  <2>5. /\ S3(bucket, p).path \in Seq(STRING) /\ Len(S3(bucket, p).path) > 0
        /\ Written(S3(bucket, p).path[1])
    BY <1>2, <2>3, SignedPath
  <2> QED
    BY <1>4, <2>2, <2>4, <2>5, ListedWithin
<1>8. CASE r.copies = <<>> /\ ~IsDeleteObjects(r) /\ ~IsListObjects(r)
  <2>1. PICK op : addressed = Addressed(op, {S3(bucket, key)}, FALSE)
    BY <1>3, <1>8 DEF AddressesObject
  <2>2. SameObject(o, S3(bucket, key))
    BY <1>4, <1>8
  <2>3. IsWithin(l, S3(bucket, key))
    BY <1>5, <2>1 DEF Addressed
  <2> QED
    BY <1>4, <2>2, <2>3, SameObjectWithin
<1>9. CASE r.copies # <<>>
  <2>1. /\ addressed = Addressed("write", {S3(bucket, key), CopySource(r.copies[1])}, FALSE)
        /\ Len(r.copies) = 1
    BY <1>3, <1>9 DEF AddressesCopy
  <2>2. IsWithin(l, S3(bucket, key)) /\ IsWithin(l, CopySource(r.copies[1]))
    BY <1>5, <2>1 DEF Addressed
  <2>3. DOMAIN r.copies = {1}
    BY <2>1 DEF IsRemoteRequest
  <2>4. SameObject(o, S3(bucket, key)) \/ SameObject(o, CopySource(r.copies[1]))
    BY <1>3, <1>4, <1>9, <2>3
  <2> QED
    BY <1>4, <2>2, <2>4, SameObjectWithin
<1> QED
  BY <1>6, <1>7, <1>8, <1>9

-----------------------------------------------------------------------------
(* Tables and views stay where their names put them                         *)

Shaped(i, r) ==
  r # None => /\ r = [kind |-> r.kind, at |-> r.at, files |-> r.files, names |-> r.names]
              /\ i \in r.names /\ r.names \subseteq Ident
              /\ IsLocation(r.at)

Settled(i, r) ==
  /\ Shaped(i, r)
  /\ scope = "table" => Follows(i, r)
  /\ scope = "warehouse" => Housed(i, r)

Homes ==
  /\ scope \in {"table", "warehouse"}
  /\ DOMAIN held = Ident /\ DOMAIN staged = Ident
  /\ \A i \in Ident : Settled(i, held[i]) /\ Settled(i, staged[i])

LEMMA NoneSettles ==
  ASSUME NEW i
  PROVE  Settled(i, None)
  BY DEF Settled, Shaped, Follows, Housed

LEMMA HeldSettles ==
  ASSUME Homes, NEW i \in Ident, NEW r, Settled(i, r),
         held' = [held EXCEPT ![i] = r], UNCHANGED <<scope, staged>>
  PROVE  Homes'
  BY DEF Homes, Settled

LEMMA StagedSettles ==
  ASSUME Homes, NEW i \in Ident, NEW r, Settled(i, r),
         staged' = [staged EXCEPT ![i] = r], UNCHANGED <<scope, held>>
  PROVE  Homes'
  BY DEF Homes, Settled

\* Under the scope of tables the bound of a name is its place.
LEMMA BoundIsPlace ==
  ASSUME scope = "table", NEW i
  PROVE  Bound(i) = PlaceOf(i)
  BY DEF Bound, PlaceOf

\* Under the scope of warehouses it is its warehouse.
LEMMA BoundIsWarehouse ==
  ASSUME scope = "warehouse", NEW i
  PROVE  Bound(i) = WarehouseFor(i[1])
  BY DEF Bound, LocationBound

LEMMA DefaultIsHoused ==
  ASSUME NEW kind \in {"table", "view"}, NEW i \in Ident, Ours(i)
  PROVE  IsWithin(WarehouseFor(i[1]), Default(kind, i))
<1>1. /\ IsLocation(WarehouseFor(i[1])) /\ IsLocation(PlaceOf(i))
      /\ IsWithin(WarehouseFor(i[1]), PlaceOf(i)) /\ IsWithin(PlaceOf(i), TableLocation(i))
      /\ IsWithin(WarehouseFor(i[1]), ViewLocation(i))
  BY WarehousesAssumption
<1>2. IsWithin(WarehouseFor(i[1]), TableLocation(i))
  BY <1>1, WithinWithin
<1> QED
  BY <1>1, <1>2 DEF Default

LEMMA OursIsGoverned ==
  ASSUME NEW i, Ours(i)
  PROVE  Warehouse[Governing(i[1])] # None
  BY DEF Ours

LEMMA NewSettles ==
  ASSUME NEW kind \in {"table", "view"}, NEW i \in Ident, NEW l, Ours(i),
         l = Default(kind, i) \/ (IsWithin(Bound(i), l) /\ IsLocation(l))
  PROVE  Settled(i, Resource(kind, l, i))
<1> DEFINE r == Resource(kind, l, i)
<1>1. r = [kind |-> kind, at |-> l, files |-> {}, names |-> {i}]
  BY DEF Resource
<1>0. IsLocation(l)
  BY WarehousesAssumption DEF Default
<1>2. Shaped(i, r)
  BY <1>0, <1>1 DEF Shaped
<1>3. ASSUME scope = "table" PROVE Follows(i, r)
  <2>1. IsWithin(PlaceOf(i), l) \/ (kind = "view" /\ IsWithin(ViewLocation(i), l))
    BY <1>3, BoundIsPlace, WarehousesAssumption DEF Default
  <2> QED
    BY <1>1, <2>1 DEF Follows, AtHome
<1>4. ASSUME scope = "warehouse" PROVE Housed(i, r)
  BY <1>1, <1>4, BoundIsWarehouse, DefaultIsHoused DEF Housed
<1> QED
  BY <1>2, <1>3, <1>4 DEF Settled

LEMMA DeclaredSettles ==
  ASSUME NEW kind \in {"table", "view"}, NEW i \in Ident, NEW l, Ours(i), Accepts(i, l),
         l # None => IsLocation(l)
  PROVE  Settled(i, Resource(kind, Declared(kind, i, l), i))
<1>1. \/ Declared(kind, i, l) = Default(kind, i)
      \/ IsWithin(Bound(i), Declared(kind, i, l)) /\ IsLocation(Declared(kind, i, l))
  BY DEF Declared, Accepts
<1> QED
  BY <1>1, NewSettles

\* What is moved is moved within its bound or within where it is.
LEMMA MovedSettles ==
  ASSUME NEW i \in Ident, NEW r, NEW s, r # None, Settled(i, r), Ours(i),
         s = [kind |-> r.kind, at |-> s.at, files |-> s.files, names |-> r.names],
         s.at = r.at \/ (EnsureCommit(Bound(i), r.at, s.at) /\ IsLocation(s.at))
  PROVE  Settled(i, s)
<1>1. i \in r.names /\ r.names \subseteq Ident /\ IsLocation(r.at)
  BY DEF Settled, Shaped
<1>2. s.kind = r.kind /\ s.names = r.names
  OBVIOUS
<1>3. s = [kind |-> s.kind, at |-> s.at, files |-> s.files, names |-> s.names]
  BY <1>2
<1>4. Shaped(i, s)
  BY <1>1, <1>2, <1>3 DEF Shaped
<1>5. ASSUME scope = "table" PROVE Follows(i, s)
  <2>1. AtHome(r, r.at)
    BY <1>5, OursIsGoverned DEF Settled, Follows
  <2>2. CASE IsWithin(Bound(i), s.at)
    <3>1. IsWithin(PlaceOf(i), s.at)
      BY <1>5, <2>2, BoundIsPlace
    <3> QED
      BY <1>1, <1>2, <3>1 DEF Follows, AtHome
  <2>3. CASE IsWithin(r.at, s.at)
    <3>1. PICK n \in r.names :
            IsWithin(PlaceOf(n), r.at) \/ (r.kind = "view" /\ IsWithin(ViewLocation(n), r.at))
      BY <2>1 DEF AtHome
    <3>2. IsWithin(PlaceOf(n), s.at) \/ (r.kind = "view" /\ IsWithin(ViewLocation(n), s.at))
      BY <1>1, <2>3, <3>1, WithinWithin, WarehousesAssumption
    <3> QED
      BY <1>2, <3>2 DEF Follows, AtHome
  <2>4. CASE s.at = r.at
    BY <1>2, <2>1, <2>4 DEF Follows, AtHome
  <2> QED
    BY <2>2, <2>3, <2>4 DEF EnsureCommit
<1>6. ASSUME scope = "warehouse" PROVE Housed(i, s)
  <2>1. IsWithin(WarehouseFor(i[1]), r.at) /\ IsLocation(WarehouseFor(i[1]))
    BY <1>6, OursIsGoverned, WarehousesAssumption DEF Settled, Housed
  <2>2. IsWithin(WarehouseFor(i[1]), s.at)
    BY <1>1, <1>6, <2>1, BoundIsWarehouse, WithinWithin DEF EnsureCommit
  <2> QED
    BY <2>2 DEF Housed
<1> QED
  BY <1>4, <1>5, <1>6 DEF Settled

Typed(l) == l # None => IsLocation(l)

LEMMA MakesSettle ==
  ASSUME Homes, NEW i \in Ident, NEW l, Typed(l),
         CreateTable(i, l) \/ StageCreateTable(i, l) \/ CreateView(i, l)
  PROVE  Homes'
<1>1. CASE CreateTable(i, l)
  <2>1. Settled(i, Resource("table", Declared("table", i, l), i))
    BY <1>1, DeclaredSettles DEF CreateTable, Typed
  <2> QED
    BY <1>1, <2>1, HeldSettles DEF CreateTable
<1>2. CASE StageCreateTable(i, l)
  <2>1. Settled(i, Resource("table", Declared("table", i, l), i))
    BY <1>2, DeclaredSettles DEF StageCreateTable, Typed
  <2> QED
    BY <1>2, <2>1, StagedSettles DEF StageCreateTable
<1>3. CASE CreateView(i, l)
  <2>1. Settled(i, Resource("view", Declared("view", i, l), i))
    BY <1>3, DeclaredSettles DEF CreateView, Typed
  <2> QED
    BY <1>3, <2>1, HeldSettles DEF CreateView
<1> QED
  BY <1>1, <1>2, <1>3

\* What a commit makes of a table or a view.
LEMMA CommittedSettles ==
  ASSUME NEW i \in Ident, NEW r, NEW l, NEW list, NEW file, r # None, Settled(i, r), Ours(i),
         Typed(l), l # None => EnsureCommit(Bound(i), r.at, l)
  PROVE  Settled(i, Committed(r, l, list, file))
<1> DEFINE at == IF l = None THEN r.at ELSE l
           files == IF list = None THEN r.files ELSE r.files \cup {list, file}
           s == [kind |-> r.kind, at |-> at, files |-> files, names |-> r.names]
<1>1. r = [kind |-> r.kind, at |-> r.at, files |-> r.files, names |-> r.names]
  BY DEF Settled, Shaped
<1>2. Committed(r, l, list, file) = s
  <2>1. Committed(r, l, list, file) = [r EXCEPT !.at = at, !.files = files]
    BY Zenon DEF Committed
  <2> HIDE DEF at, files
  <2> QED
    BY <1>1, <2>1
<1>3. s.at = at /\ s.files = files
  OBVIOUS
<1>4. at = r.at \/ (EnsureCommit(Bound(i), r.at, at) /\ IsLocation(at))
  BY DEF Typed
<1>5. s = [kind |-> r.kind, at |-> s.at, files |-> s.files, names |-> r.names]
  BY <1>3
<1> HIDE DEF s
<1>6. s.at = r.at \/ (EnsureCommit(Bound(i), r.at, s.at) /\ IsLocation(s.at))
  BY <1>3, <1>4
<1>7. Settled(i, s)
  BY <1>5, <1>6, MovedSettles
<1> QED
  BY <1>2, <1>7

LEMMA CommitsSettle ==
  ASSUME Homes, NEW i \in Ident, NEW l, NEW list, NEW file, Typed(l),
         CommitTable(i, l, list, file) \/ CommitStaged(i, l, list, file)
  PROVE  Homes'
<1>1. CASE CommitTable(i, l, list, file)
  <2>1. Settled(i, Committed(held[i], l, list, file))
    BY <1>1, CommittedSettles DEF CommitTable, MayCommit, Homes
  <2>2. held' = [held EXCEPT ![i] = Committed(held[i], l, list, file)]
    BY <1>1 DEF CommitTable
  <2> QED
    BY <1>1, <2>1, <2>2, HeldSettles DEF CommitTable
<1>2. CASE CommitStaged(i, l, list, file)
  <2>1. Settled(i, Committed(staged[i], l, list, file))
    BY <1>2, CommittedSettles DEF CommitStaged, MayCommit, Homes
  <2> QED
    BY <1>2, <2>1, NoneSettles DEF CommitStaged, Homes, Settled
<1> QED
  BY <1>1, <1>2

LEMMA CommitViewSettles ==
  ASSUME Homes, NEW i \in Ident, NEW l, IsLocation(l), CommitView(i, l)
  PROVE  Homes'
<1> DEFINE r == held[i]
           s == [kind |-> r.kind, at |-> l, files |-> r.files, names |-> r.names]
<1>1. r # None /\ Settled(i, r) /\ Ours(i) /\ EnsureCommit(Bound(i), r.at, l)
  BY DEF CommitView, Homes
<1>2. r = [kind |-> r.kind, at |-> r.at, files |-> r.files, names |-> r.names]
  BY <1>1 DEF Settled, Shaped
<1>3. held' = [held EXCEPT ![i] = [r EXCEPT !.at = l]]
  BY DEF CommitView, Homes
<1>4. [r EXCEPT !.at = l] = s
  BY <1>2
<1>5. s.at = l /\ s = [kind |-> r.kind, at |-> s.at, files |-> s.files, names |-> r.names]
  OBVIOUS
<1> HIDE DEF s
<1>6. Settled(i, s)
  BY <1>1, <1>5, MovedSettles
<1> QED
  BY <1>3, <1>4, <1>6, HeldSettles DEF CommitView

LEMMA RegisterSettles ==
  ASSUME Homes, NEW i \in Ident, NEW kind \in {"table", "view"}, NEW file, NEW named, NEW l,
         IsLocation(l), Register(kind, i, file, l, named)
  PROVE  Homes'
<1> DEFINE r == Resource(kind, l, i)
           s == [r EXCEPT !.files = {file, named}]
<1>1. Settled(i, r) /\ Ours(i)
  BY NewSettles DEF Register
<1>2. r = [kind |-> kind, at |-> l, files |-> {}, names |-> {i}]
  BY DEF Resource
<1>3. s = [kind |-> kind, at |-> l, files |-> {file, named}, names |-> {i}]
  BY <1>2
<1>4. held' = [held EXCEPT ![i] = s] /\ UNCHANGED <<scope, staged>>
  BY DEF Register
<1>5. r.kind = kind /\ r.at = l /\ r.names = {i} /\ s.kind = kind /\ s.at = l /\ s.names = {i}
  BY <1>2, <1>3
<1> HIDE DEF r, s
<1>6. Shaped(i, s)
  BY <1>3, <1>5 DEF Shaped
<1>7. scope = "table" => Follows(i, s)
  <2>1. scope = "table" => IsWithin(PlaceOf(i), l)
    BY BoundIsPlace DEF Register
  <2> QED
    BY <1>5, <2>1 DEF Follows, AtHome
<1>8. scope = "warehouse" => Housed(i, s)
  BY <1>5, BoundIsWarehouse DEF Register, Housed
<1>9. Settled(i, s)
  BY <1>6, <1>7, <1>8 DEF Settled
<1> QED
  BY <1>4, <1>9, HeldSettles

LEMMA RenameSettles ==
  ASSUME Homes, NEW i \in Ident, NEW j \in Ident, Rename(i, j)
  PROVE  Homes'
<1> DEFINE r == held[i]
           names == r.names \cup {j}
           s == [kind |-> r.kind, at |-> r.at, files |-> r.files, names |-> names]
<1>1. r # None /\ Settled(i, r) /\ Ours(i)
  BY DEF Rename, Homes
<1>2. r = [kind |-> r.kind, at |-> r.at, files |-> r.files, names |-> r.names]
  BY <1>1 DEF Settled, Shaped
<1>3. held' = [held EXCEPT ![j] = [r EXCEPT !.names = names], ![i] = None]
  BY DEF Rename
<1>4. [r EXCEPT !.names = names] = s
  BY <1>2
<1>5. s.kind = r.kind /\ s.at = r.at /\ s.names = names /\ s = [kind |-> s.kind, at |-> s.at, files |-> s.files, names |-> s.names]
  OBVIOUS
<1> HIDE DEF s
<1>6. Shaped(j, s)
  BY <1>1, <1>5 DEF Shaped, Settled
<1>7. scope = "table" => Follows(j, s)
  <2>1. scope = "table" => AtHome(r, r.at)
    BY <1>1, OursIsGoverned DEF Settled, Follows
  <2>2. AtHome(r, r.at) => AtHome(s, s.at)
    BY <1>5 DEF AtHome
  <2> QED
    BY <2>1, <2>2 DEF Follows
<1>8. scope = "warehouse" => Housed(j, s)
  BY <1>1, <1>5, OursIsGoverned DEF Rename, Settled, Housed, WarehouseFor
<1>9. Settled(j, s)
  BY <1>6, <1>7, <1>8 DEF Settled
<1> QED
  BY <1>3, <1>4, <1>9, NoneSettles DEF Rename, Homes, Settled

LEMMA ElsewhereSettles ==
  ASSUME Homes, NEW i \in Ident, NEW l, NEW f, IsLocation(l), ChangesElsewhere(i, l, f)
  PROVE  Homes'
<1> DEFINE r == Resource("table", l, i)
           s == [r EXCEPT !.files = {f}]
<1>1. r = [kind |-> "table", at |-> l, files |-> {}, names |-> {i}]
  BY DEF Resource
<1>2. s = [kind |-> "table", at |-> l, files |-> {f}, names |-> {i}]
  BY <1>1
<1>3. s.kind = "table" /\ s.at = l /\ s.names = {i} /\ s = [kind |-> s.kind, at |-> s.at, files |-> s.files, names |-> s.names]
  BY <1>2
<1>4. held' = [held EXCEPT ![i] = s] /\ UNCHANGED <<scope, staged>> /\ Warehouse[Governing(i[1])] = None
  BY DEF ChangesElsewhere
<1> HIDE DEF s
<1>5. Settled(i, s)
  BY <1>3, <1>4 DEF Settled, Shaped, Follows, Housed
<1> QED
  BY <1>4, <1>5, HeldSettles

LEMMA ChangedSettles ==
  ASSUME Homes, NEW i \in Ident, NEW places, NEW files, \A l \in places : IsLocation(l),
         Changed(i, places, files)
  PROVE  Homes'
<1>1. \A l \in places \cup {None} : Typed(l)
  BY DEF Typed
<1>2. \A l \in places \cup {None} :
        CreateTable(i, l) \/ StageCreateTable(i, l) \/ CreateView(i, l) => Homes'
  BY <1>1, MakesSettle
<1>3. \A l \in places \cup {None}, list \in files \cup {None}, f \in files :
        CommitTable(i, l, list, f) \/ CommitStaged(i, l, list, f) => Homes'
  BY <1>1, CommitsSettle
<1>4. \A l \in places : CommitView(i, l) => Homes'
  BY CommitViewSettles
<1>5. \A kind \in {"table", "view"}, file, named \in files, l \in places :
        Register(kind, i, file, l, named) => Homes'
  BY RegisterSettles
<1>6. \A j \in Ident : Rename(i, j) => Homes'
  BY RenameSettles
<1>7. Drop(i) => Homes'
  BY NoneSettles, HeldSettles DEF Drop
<1>8. \A l \in places, f \in files : ChangesElsewhere(i, l, f) => Homes'
  BY ElsewhereSettles
<1> QED
  BY <1>2, <1>3, <1>4, <1>5, <1>6, <1>7, <1>8 DEF Changed

-----------------------------------------------------------------------------
(* Requests                                                                 *)

Named ==
  /\ scenario.name \in DOMAIN Scenarios
  /\ scenario = [name |-> scenario.name, edits |-> scenario.edits, swaps |-> scenario.swaps,
                 requests |-> scenario.requests, failures |-> scenario.failures]

IsRequest(r) ==
  r = [phase |-> r.phase, ask |-> r.ask, plain |-> r.plain, write |-> r.write,
       table |-> r.table, reach |-> r.reach]

Earns(r, s) == IF Makes(r.ask) THEN "create" \in s ELSE "update" \in s

\* What a client has been permitted by the time its request is where it is.
Earned(r, s) ==
  /\ r.phase \notin {"idle", "refused"} =>
       /\ IF Makes(r.ask) THEN "create" \in s
          ELSE "read" \in s /\ (r.plain = TRUE => "plain" \in s)
       /\ r.ask.form = "sign" => r.plain = TRUE
  /\ r.phase \in {"write", "issue", "issue-write", "exchange", "exchange-write", "granted"} =>
       (r.ask.form = "vend" => r.plain = TRUE)
  /\ r.phase = "decided" => Makes(r.ask)
  /\ r.phase = "load" /\ r.ask.form = "sign" /\ IsWrite(r.ask) => "update" \in s
  /\ r.phase \in {"issue-write", "exchange-write"} => Earns(r, s)
  /\ r.phase \notin {"granted", "refused"} => r.write = FALSE
  /\ r.phase = "granted" /\ r.write = TRUE => Earns(r, s)

Asked(r, s, right) ==
  /\ r.ask = None <=> r.phase = "idle"
  /\ r.ask # None => r.ask \in Setup.asks /\ Worth(right[r.ask.on]) \subseteq s

OnTrail(r, t) == r.phase = "granted" /\ r.write = TRUE /\ Setup.failClosed => "granted" \in t

Sound(r, s, t, right) == IsRequest(r) /\ r.plain \in BOOLEAN /\ r.write \in BOOLEAN
                         /\ Asked(r, s, right) /\ Earned(r, s) /\ OnTrail(r, t)

Clients ==
  /\ Named
  /\ DOMAIN request = Client /\ DOMAIN seen = Client /\ DOMAIN trail = Client
  /\ rights \in [Client -> [Ident -> SUBSET Right]]
  /\ \A c \in Client : Sound(request[c], seen[c], trail[c], rights[c])

SameScenario == Named' /\ scenario'.name = scenario.name

\* The trail of one client is another.
Trails(c, t) == DOMAIN trail' = Client /\ \A d \in Client : trail'[d] = IF d = c THEN t ELSE trail[d]

LEMMA SetupStays ==
  ASSUME SameScenario
  PROVE  Setup' = Setup
  BY DEF SameScenario, Setup

\* What one client is known to have been permitted is another.
SeenOf(c, s) == DOMAIN seen' = Client /\ \A d \in Client : seen'[d] = IF d = c THEN s ELSE seen[d]

\* One client's request goes on, and the rest stays.
LEMMA GoesOn ==
  ASSUME Clients, SameScenario, NEW c \in Client, NEW x, NEW s, NEW t,
         request' = [request EXCEPT ![c] = x], Trails(c, t), SeenOf(c, s), rights' = rights,
         Sound(x, s, t, rights[c])
  PROVE  Clients'
<1>1. Setup' = Setup
  BY SetupStays
<1>2. \A d \in Client : /\ request'[d] = IF d = c THEN x ELSE request[d]
                        /\ trail'[d] = IF d = c THEN t ELSE trail[d]
                        /\ seen'[d] = IF d = c THEN s ELSE seen[d]
  BY DEF Clients, Trails, SeenOf
<1>3. ASSUME NEW d \in Client PROVE Sound(request[d], seen[d], trail[d], rights[d])'
  <2>1. CASE d = c
    BY <1>1, <1>2, <2>1 DEF Sound, Asked, OnTrail, Earned, Earns, IsWrite, Addressing, IsRequest
  <2>2. CASE d # c
    BY <1>1, <1>2, <2>2 DEF Clients, Sound, Asked, OnTrail, Earned, Earns, IsWrite, Addressing, IsRequest
  <2> QED
    BY <2>1, <2>2
<1> QED
  BY <1>3 DEF Clients, SameScenario, Trails, SeenOf

LEMMA SeenStays ==
  ASSUME Clients, seen' = seen, NEW c \in Client
  PROVE  SeenOf(c, seen[c])
  BY DEF Clients, SeenOf

\* To another phase, the trail being what it was or more.
LEMMA ToSound ==
  ASSUME Clients, NEW c \in Client, NEW phase, NEW t, request[c].phase # "idle", phase # "idle",
         Earned([request[c] EXCEPT !.phase = phase], seen[c]), phase # "granted"
  PROVE  Sound([request[c] EXCEPT !.phase = phase], seen[c], t, rights[c])
<1> DEFINE r == request[c]
           x == [phase |-> phase, ask |-> r.ask, plain |-> r.plain, write |-> r.write,
                 table |-> r.table, reach |-> r.reach]
<1>1. r = [phase |-> r.phase, ask |-> r.ask, plain |-> r.plain, write |-> r.write,
           table |-> r.table, reach |-> r.reach]
  BY DEF Clients, Sound, IsRequest
<1>2. [r EXCEPT !.phase = phase] = x
  BY <1>1
<1>3. /\ x.phase = phase /\ x.ask = r.ask /\ x.plain = r.plain /\ x.write = r.write
      /\ x.table = r.table /\ x.reach = r.reach
  OBVIOUS
<1> HIDE DEF x
<1>4. IsRequest(x)
  BY <1>3 DEF IsRequest, x
<1>5. Asked(x, seen[c], rights[c])
  BY <1>3 DEF Clients, Sound, Asked
<1>6. x.plain \in BOOLEAN /\ x.write \in BOOLEAN
  BY <1>3 DEF Clients, Sound
<1>7. OnTrail(x, t)
  BY <1>3 DEF OnTrail
<1>8. Earned(x, seen[c])
  BY <1>2
<1> QED
  BY <1>2, <1>4, <1>5, <1>6, <1>7, <1>8 DEF Sound

LEMMA ScenarioStays ==
  ASSUME Clients, scenario' = scenario
  PROVE  SameScenario
  BY DEF Clients, Named, SameScenario

LEMMA LessLeft ==
  ASSUME Clients,
         \/ scenario' = [scenario EXCEPT !.failures = @ - 1]
         \/ scenario' = [scenario EXCEPT !.requests = @ - 1]
         \/ scenario' = [scenario EXCEPT !.edits = @ - 1]
         \/ scenario' = [scenario EXCEPT !.swaps = @ - 1]
  PROVE  SameScenario
  BY DEF Clients, Named, SameScenario

LEMMA TrailStays ==
  ASSUME Clients, trail' = trail, NEW c \in Client
  PROVE  Trails(c, trail[c])
  BY DEF Clients, Trails

LEMMA RecordTrails ==
  ASSUME Clients, NEW c \in Client, NEW event, NEW kept \in BOOLEAN, Record(c, event, kept)
  PROVE  SameScenario /\ \E t : Trails(c, t) /\ (kept => event \in t)
<1>1. CASE kept = TRUE
  <2> DEFINE t == trail[c] \cup {event}
  <2>1. trail' = [trail EXCEPT ![c] = t] /\ scenario' = scenario
    BY <1>1 DEF Record
  <2>2. Trails(c, t)
    BY <2>1 DEF Clients, Trails
  <2>3. event \in t
    OBVIOUS
  <2> QED
    BY <2>1, <2>2, <2>3, ScenarioStays
<1>2. CASE kept = FALSE
  <2>1. trail' = trail /\ scenario' = [scenario EXCEPT !.failures = @ - 1]
    BY <1>2 DEF Record
  <2> QED
    BY <1>2, <2>1, TrailStays, LessLeft
<1> QED
  BY <1>1, <1>2

\* A request that only goes to another phase.
LEMMA PhaseStep ==
  ASSUME Clients, SameScenario, NEW c \in Client, NEW phase, NEW t, To(c, phase), Trails(c, t),
         UNCHANGED <<rights, seen>>, request[c].phase # "idle", phase \notin {"idle", "granted"},
         Earned([request[c] EXCEPT !.phase = phase], seen[c])
  PROVE  Clients'
<1>1. request' = [request EXCEPT ![c] = [request[c] EXCEPT !.phase = phase]]
  BY DEF To, Clients
<1>2. Sound([request[c] EXCEPT !.phase = phase], seen[c], t, rights[c])
  BY ToSound
<1> QED
  BY <1>1, <1>2, SeenStays, GoesOn

\* What is the same of a request at another phase.
LEMMA AtPhase ==
  ASSUME Clients, NEW c \in Client, NEW phase
  PROVE  LET x == [request[c] EXCEPT !.phase = phase]
         IN /\ x.phase = phase /\ x.ask = request[c].ask /\ x.plain = request[c].plain
            /\ x.write = request[c].write
<1>1. IsRequest(request[c])
  BY DEF Clients, Sound
<1> QED
  BY <1>1 DEF IsRequest

LEMMA RefusedEarned ==
  ASSUME Clients, NEW c \in Client
  PROVE  Earned([request[c] EXCEPT !.phase = "refused"], seen[c])
<1> DEFINE x == [request[c] EXCEPT !.phase = "refused"]
<1>1. x.phase = "refused"
  BY AtPhase
<1> HIDE DEF x
<1>2. Earned(x, seen[c])
  BY <1>1 DEF Earned
<1> QED
  BY <1>2 DEF x

LEMMA RefusedStep ==
  ASSUME Clients, SameScenario, NEW c \in Client, NEW t, To(c, "refused"), Trails(c, t),
         UNCHANGED <<rights, seen>>, request[c].phase # "idle"
  PROVE  Clients'
  BY RefusedEarned, PhaseStep

LEMMA RecordDecisionSound ==
  ASSUME Clients, NEW c \in Client, RecordDecision(c)
  PROVE  Clients'
<1> DEFINE x == [request[c] EXCEPT !.phase = "load"]
<1>1. PICK kept \in BOOLEAN : Record(c, "decided", kept) /\ To(c, IF Stops(kept) THEN "refused" ELSE "load")
  BY DEF RecordDecision, MayKeep
<1>2. request[c].phase = "decided" /\ UNCHANGED <<rights, seen>>
  BY DEF RecordDecision
<1>3. SameScenario /\ \E t : Trails(c, t)
  BY <1>1, RecordTrails
<1>4. Earned(x, seen[c])
  <2>1. Earned(request[c], seen[c])
    BY DEF Clients, Sound
  <2>2. x.phase = "load" /\ x.ask = request[c].ask /\ x.plain = request[c].plain /\ x.write = request[c].write
    BY AtPhase
  <2> HIDE DEF x
  <2> QED
    BY <1>2, <2>1, <2>2 DEF Earned, Earns, Makes
<1> QED
  BY <1>1, <1>2, <1>3, <1>4, PhaseStep, RefusedStep

LEMMA AlsoPermitsSound ==
  ASSUME Clients, NEW c \in Client, AlsoPermits(c)
  PROVE  Clients'
<1>1. /\ request[c].phase = "write" /\ UNCHANGED <<rights, seen>>
      /\ Earned(request[c], seen[c]) /\ request[c].ask # None
      /\ Asked(request[c], seen[c], rights[c])
  BY DEF AlsoPermits, Clients, Sound, Asked
<1>2. ASSUME NEW phase, \/ phase = "issue" /\ request[c].ask.form # "sign"
                        \/ phase = "load" /\ request[c].ask.form = "sign" /\ MayUpdate(c)
                        \/ phase = "issue-write" /\ request[c].ask.form # "sign" /\ MayUpdate(c)
      PROVE  Earned([request[c] EXCEPT !.phase = phase], seen[c])
  <2> DEFINE x == [request[c] EXCEPT !.phase = phase]
  <2>1. x.phase = phase /\ x.ask = request[c].ask /\ x.plain = request[c].plain /\ x.write = request[c].write
    BY AtPhase
  <2>2. MayUpdate(c) => "update" \in seen[c]
    BY <1>1 DEF MayUpdate, Asked, Worth
  <2>3. Earned(x, seen[c])
    <3> HIDE DEF x
    <3> QED
      BY <1>1, <1>2, <2>1, <2>2 DEF Earned, Earns, Makes
  <2> QED
    BY <2>3
<1>3. CASE ~MayUpdate(c)
  <2>1. trail' = trail /\ scenario' = scenario /\ To(c, IF request[c].ask.form = "sign" THEN "refused" ELSE "issue")
    BY <1>3 DEF AlsoPermits
  <2>2. SameScenario /\ Trails(c, trail[c])
    BY <2>1, ScenarioStays, TrailStays
  <2> QED
    BY <1>1, <1>2, <2>1, <2>2, PhaseStep, RefusedStep
<1>4. CASE MayUpdate(c)
  <2>1. PICK kept \in BOOLEAN :
          /\ Record(c, "decided", kept)
          /\ To(c, IF Stops(kept) THEN "refused"
                   ELSE IF request[c].ask.form = "sign" THEN "load" ELSE "issue-write")
    BY <1>4 DEF AlsoPermits, MayKeep
  <2>2. SameScenario /\ \E t : Trails(c, t)
    BY <2>1, RecordTrails
  <2>3. CASE Stops(kept)
    BY <1>1, <2>1, <2>2, <2>3, RefusedStep
  <2>4. CASE ~Stops(kept) /\ request[c].ask.form = "sign"
    BY <1>1, <1>2, <1>4, <2>1, <2>2, <2>4, PhaseStep
  <2>5. CASE ~Stops(kept) /\ request[c].ask.form # "sign"
    BY <1>1, <1>2, <1>4, <2>1, <2>2, <2>5, PhaseStep
  <2> QED
    BY <2>3, <2>4, <2>5
<1> QED
  BY <1>3, <1>4

\* A request that finds the table it is about.
LEMMA FoundStep ==
  ASSUME Clients, NEW c \in Client, NEW table, NEW phase, NEW reach, Found(c, table, phase, reach),
         UNCHANGED <<scenario, rights, seen, trail>>,
         request[c].phase = "load",
         \/ phase = "refused"
         \/ phase = "granted" /\ request[c].ask.form = "plan"
         \/ phase = "issue-write" /\ Makes(request[c].ask)
         \/ phase = "issue-write" /\ request[c].ask.form = "sign" /\ IsWrite(request[c].ask)
         \/ phase = "issue" /\ request[c].ask.form = "sign"
         \/ phase = "write" /\ request[c].ask.form = "vend" /\ request[c].plain
  PROVE  Clients'
<1> DEFINE r == request[c]
           x == [phase |-> phase, ask |-> r.ask, plain |-> r.plain, write |-> r.write,
                 table |-> table, reach |-> reach]
<1>1. /\ IsRequest(r) /\ Earned(r, seen[c]) /\ Asked(r, seen[c], rights[c])
      /\ r.plain \in BOOLEAN /\ r.write \in BOOLEAN
  BY DEF Clients, Sound
<1>2. request' = [request EXCEPT ![c] = x]
  <2>1. request' = [request EXCEPT ![c] = [r EXCEPT !.table = table, !.phase = phase, !.reach = reach]]
    BY DEF Found, Clients
  <2>2. [r EXCEPT !.table = table, !.phase = phase, !.reach = reach] = x
    <3> DEFINE fields == {"phase", "ask", "plain", "write", "table", "reach"}
    <3>1. DOMAIN r = fields
      BY <1>1 DEF IsRequest
    <3> HIDE DEF r
    <3>2. [r EXCEPT !.table = table, !.phase = phase, !.reach = reach]
            = [n \in fields |-> IF n = "reach" THEN reach
                               ELSE IF n = "phase" THEN phase
                               ELSE IF n = "table" THEN table ELSE r[n]]
      BY <3>1
    <3> QED
      BY <3>2
  <2> QED
    BY <2>1, <2>2
<1>3. IsRequest(x) /\ x.phase = phase /\ x.ask = r.ask /\ x.plain = r.plain /\ x.write = r.write
  BY DEF IsRequest
<1> HIDE DEF x
<1>4. r.write = FALSE
  BY <1>1 DEF Earned
<1>5. Earned(x, seen[c])
  BY <1>1, <1>3, <1>4 DEF Earned, Earns, Makes
<1>6. Asked(x, seen[c], rights[c]) /\ OnTrail(x, trail[c])
  BY <1>1, <1>3, <1>4 DEF Asked, OnTrail
<1>7. Sound(x, seen[c], trail[c], rights[c])
  BY <1>1, <1>3, <1>5, <1>6 DEF Sound
<1>8. SameScenario /\ Trails(c, trail[c]) /\ SeenOf(c, seen[c])
  BY ScenarioStays, TrailStays, SeenStays
<1> QED
  BY <1>2, <1>7, <1>8, GoesOn

LEMMA LoadsSound ==
  ASSUME Clients, NEW c \in Client, LoadForVending(c) \/ LoadForSigning(c) \/ LoadForPlan(c)
  PROVE  Clients'
<1>1. CASE LoadForVending(c)
  <2>1. request[c].phase = "load" /\ UNCHANGED <<scenario, rights, seen, trail>>
    BY <1>1 DEF LoadForVending
  <2>2. CASE request[c].ask.form \in {"create", "stage"}
    <3>1. \E table : \/ Found(c, table, "issue-write", {})
                     \/ Found(c, table, "refused", {})
      BY <1>1, <2>2 DEF LoadForVending
    <3> QED
      BY <2>1, <2>2, <3>1, FoundStep DEF Makes
  <2>3. CASE request[c].ask.form = "vend"
    <3>1. PICK table : Found(c, table, IF Vendable(c, table) THEN "write" ELSE "refused", {})
      BY <1>1, <2>3 DEF LoadForVending
    <3> QED
      BY <2>1, <2>3, <3>1, FoundStep DEF Vendable
  <2> QED
    BY <1>1, <2>2, <2>3 DEF LoadForVending
<1>2. CASE LoadForSigning(c)
  <2>1. /\ request[c].phase = "load" /\ UNCHANGED <<scenario, rights, seen, trail>>
        /\ request[c].ask.form = "sign"
    BY <1>2 DEF LoadForSigning
  <2>2. PICK table, phase : /\ Found(c, table, phase, {})
                            /\ phase \in {"refused", "issue"} \/ (phase = "issue-write" /\ IsWrite(request[c].ask))
    BY <1>2 DEF LoadForSigning
  <2> QED
    BY <2>1, <2>2, FoundStep
<1>3. CASE LoadForPlan(c)
  <2>1. /\ request[c].phase = "load" /\ UNCHANGED <<scenario, rights, seen, trail>>
        /\ request[c].ask.form = "plan"
    BY <1>3 DEF LoadForPlan
  <2>2. \E table, reach : Found(c, table, "refused", reach) \/ Found(c, table, "granted", reach)
    <3> DEFINE t == held[request[c].ask.on]
               delegated == ~request[c].plain /\ Setup.signing /\ IsVendable(Setup.prefixes, t.at)
               phase == IF delegated /\ ~Presigns(t) THEN "refused" ELSE "granted"
               reach == IF delegated THEN t.files ELSE {}
    <3>1. Found(c, t, phase, reach)
      BY <1>3 DEF LoadForPlan
    <3>2. phase = "refused" \/ phase = "granted"
      OBVIOUS
    <3> HIDE DEF t, phase, reach
    <3> QED
      BY <3>1, <3>2
  <2> QED
    BY <2>1, <2>2, FoundStep
<1> QED
  BY <1>1, <1>2, <1>3

LEMMA RefusalsSound ==
  ASSUME Clients, NEW c \in Client, NotThere(c) \/ NotIssued(c)
  PROVE  Clients'
<1>1. /\ request[c].phase # "idle" /\ To(c, "refused") /\ UNCHANGED <<rights, seen, trail>>
      /\ scenario' = scenario \/ scenario' = [scenario EXCEPT !.failures = @ - 1]
  BY DEF NotThere, NotIssued, Issuing
<1>2. SameScenario /\ Trails(c, trail[c])
  BY <1>1, ScenarioStays, LessLeft, TrailStays
<1> QED
  BY <1>1, <1>2, RefusedStep

LEMMA ExchangeSound ==
  ASSUME Clients, NEW c \in Client, Exchange(c)
  PROVE  Clients'
<1> DEFINE phase == IF request[c].phase = "issue" THEN "exchange" ELSE "exchange-write"
           x == [request[c] EXCEPT !.phase = phase]
<1>1. /\ request[c].phase \in {"issue", "issue-write"} /\ To(c, phase)
      /\ UNCHANGED <<scenario, rights, seen, trail>>
  BY DEF Exchange, Issuing
<1>2. SameScenario /\ Trails(c, trail[c])
  BY <1>1, ScenarioStays, TrailStays
<1>3. x.phase = phase /\ x.ask = request[c].ask /\ x.plain = request[c].plain /\ x.write = request[c].write
  BY AtPhase
<1>4. Earned(request[c], seen[c])
  BY DEF Clients, Sound
<1>5. Earned(x, seen[c])
  <2> HIDE DEF x
  <2> QED
    BY <1>1, <1>3, <1>4 DEF Earned, Earns
<1>6. phase \notin {"idle", "granted"}
  OBVIOUS
<1> HIDE DEF phase
<1> QED
  BY <1>1, <1>2, <1>5, <1>6, PhaseStep

\* What is issued was earned by then, and what may be written is on the trail.
LEMMA IssuedSound ==
  ASSUME Clients, NEW c \in Client, Issued(c),
         request[c].phase \in {"issue", "issue-write", "exchange", "exchange-write"}
  PROVE  Clients'
<1> DEFINE r == request[c]
           write == r.phase \in {"issue-write", "exchange-write"}
           reach == IF r.ask.form = "sign" THEN S3Reaches(r.ask.request) ELSE Within(r.table.at)
<1>1. PICK kept \in BOOLEAN :
        /\ Record(c, "granted", kept)
        /\ request' = [request EXCEPT
             ![c].phase = IF Stops(kept) THEN "refused" ELSE "granted",
             ![c].write = write, ![c].reach = reach]
        /\ UNCHANGED <<rights, seen>>
        /\ ~kept => write
  BY DEF Issued, MayKeep
<1>2. /\ IsRequest(r) /\ Earned(r, seen[c]) /\ Asked(r, seen[c], rights[c])
      /\ r.plain \in BOOLEAN /\ r.write \in BOOLEAN
  BY DEF Clients, Sound
<1> DEFINE phase == IF Stops(kept) THEN "refused" ELSE "granted"
           x == [phase |-> phase, ask |-> r.ask, plain |-> r.plain, write |-> write,
                 table |-> r.table, reach |-> reach]
<1>3. request' = [request EXCEPT ![c] = x]
  <2>1. request' = [request EXCEPT ![c] = [r EXCEPT !.phase = phase, !.write = write, !.reach = reach]]
    BY <1>1 DEF Clients
  <2>2. [r EXCEPT !.phase = phase, !.write = write, !.reach = reach] = x
    <3> DEFINE fields == {"phase", "ask", "plain", "write", "table", "reach"}
    <3>1. DOMAIN r = fields
      BY <1>2 DEF IsRequest
    <3> HIDE DEF r, phase, write, reach
    <3>2. [r EXCEPT !.phase = phase, !.write = write, !.reach = reach]
            = [n \in fields |-> IF n = "reach" THEN reach
                               ELSE IF n = "write" THEN write
                               ELSE IF n = "phase" THEN phase ELSE r[n]]
      BY <3>1
    <3> QED
      BY <3>2
  <2> QED
    BY <2>1, <2>2
<1>4. write \in BOOLEAN
  OBVIOUS
<1>5. IsRequest(x) /\ x.phase = phase /\ x.ask = r.ask /\ x.plain = r.plain /\ x.write = write
  <2> HIDE DEF r, phase, write, reach
  <2> QED
    BY DEF IsRequest
<1> HIDE DEF x, reach
<1>6. SameScenario /\ SeenOf(c, seen[c])
  BY <1>1, RecordTrails, SeenStays
<1>7. PICK t : Trails(c, t) /\ (kept => "granted" \in t)
  BY <1>1, RecordTrails
<1>8. OnTrail(x, t)
  BY <1>5, <1>7 DEF OnTrail, Stops
<1>9. Asked(x, seen[c], rights[c])
  BY <1>2, <1>5 DEF Asked
<1>10. Earned(x, seen[c])
  BY <1>2, <1>5 DEF Earned, Earns
<1>11. x.plain \in BOOLEAN /\ x.write \in BOOLEAN
  BY <1>2, <1>4, <1>5
<1>12. Sound(x, seen[c], t, rights[c])
  BY <1>5, <1>8, <1>9, <1>10, <1>11 DEF Sound
<1>13. rights' = rights
  BY <1>1
<1> QED
  BY <1>3, <1>6, <1>7, <1>12, <1>13, GoesOn

LEMMA SetupTyped ==
  ASSUME Named
  PROVE  /\ Setup.names \subseteq Ident /\ \A l \in Setup.places : IsLocation(l)
         /\ \A ask \in Setup.asks : ask # None /\ ask.on \in Ident /\ Typed(ask.place)
         /\ Setup.policies \subseteq [Client -> [Ident -> SUBSET Right]]
<1> DEFINE set == Scenarios[scenario.name]
<1>1. scenario.name \in DOMAIN Scenarios
  BY DEF Named
<1>2. /\ set.names \subseteq Ident /\ \A l \in set.places : IsLocation(l)
      /\ \A ask \in set.asks :
           ask # None /\ ask.on \in Ident /\ (ask.place # None => IsLocation(ask.place))
      /\ set.policies \subseteq [Client -> [Ident -> SUBSET Right]]
  BY <1>1, ScenariosAssumption, Zenon
<1>3. Setup = set
  BY DEF Setup
<1> HIDE DEF set
<1>4. \A ask \in set.asks : ask # None /\ ask.on \in Ident /\ Typed(ask.place)
  BY <1>2 DEF Typed
<1>5. set.names \subseteq Ident /\ \A l \in set.places : IsLocation(l)
  BY <1>2
<1> QED
  BY <1>2, <1>3, <1>4, <1>5

LEMMA WorthOf ==
  ASSUME NEW right
  PROVE  /\ \A n \in right : n # "restricted" => n \in Worth(right)
         /\ "read" \in right /\ "restricted" \notin right => "plain" \in Worth(right)
  BY DEF Worth

LEMMA AskSound ==
  ASSUME Clients, NEW c \in Client, NEW ask \in Setup.asks, Ask(c, ask)
  PROVE  Clients'
<1> DEFINE right == rights[c][ask.on]
           s == Worth(right)
           plain == Makes(ask) \/ "restricted" \notin right
           admitted == Needs(ask) \in right /\ Admits(ask, plain)
           phase == IF ~admitted THEN "refused" ELSE IF IsWrite(ask) THEN "write"
                    ELSE IF Makes(ask) THEN "decided" ELSE "load"
           x == [phase |-> phase, ask |-> ask, plain |-> plain, write |-> Idle.write,
                 table |-> Idle.table, reach |-> Idle.reach]
<1>1. request' = [request EXCEPT ![c] = x]
  <2>1. request' = [request EXCEPT ![c] = [Idle EXCEPT !.ask = ask, !.plain = plain, !.phase = phase]]
    BY DEF Ask
  <2>2. [Idle EXCEPT !.ask = ask, !.plain = plain, !.phase = phase] = x
    <3> DEFINE fields == {"phase", "ask", "plain", "write", "table", "reach"}
    <3>1. DOMAIN Idle = fields
      BY DEF Idle
    <3> HIDE DEF plain, phase
    <3>2. [Idle EXCEPT !.ask = ask, !.plain = plain, !.phase = phase]
            = [n \in fields |-> IF n = "phase" THEN phase
                               ELSE IF n = "plain" THEN plain
                               ELSE IF n = "ask" THEN ask ELSE Idle[n]]
      BY <3>1
    <3> QED
      BY <3>2
  <2> QED
    BY <2>1, <2>2
<1>2. SeenOf(c, s) /\ Trails(c, {}) /\ rights' = rights
  <2>1. /\ seen' = [seen EXCEPT ![c] = s] /\ trail' = [trail EXCEPT ![c] = {}]
        /\ rights' = rights
    BY DEF Ask
  <2> HIDE DEF s
  <2> QED
    BY <2>1 DEF SeenOf, Trails, Clients
<1>3. SameScenario
  BY LessLeft DEF Ask
<1>4. ask # None
  BY SetupTyped DEF Clients
<1>5. /\ \A n \in right : n # "restricted" => n \in s
      /\ "read" \in right /\ "restricted" \notin right => "plain" \in s
  BY WorthOf
<1>6. plain \in BOOLEAN /\ phase \notin {"idle", "granted"}
  OBVIOUS
<1>7. /\ phase # "refused" =>
           /\ IF Makes(ask) THEN "create" \in right ELSE "read" \in right
           /\ ask.form = "sign" => plain
      /\ phase = "write" => ask.form = "sign"
      /\ phase = "decided" => Makes(ask)
      /\ phase = "load" => ~IsWrite(ask)
      /\ phase \in {"refused", "write", "decided", "load"}
  BY DEF Needs, Admits, IsWrite, Makes
<1>8. plain /\ ~Makes(ask) => "restricted" \notin right
  OBVIOUS
<1>9. IsRequest(x) /\ x.phase = phase /\ x.ask = ask /\ x.plain = plain /\ x.write = FALSE
  <2>1. Idle.write = FALSE
    BY DEF Idle
  <2> HIDE DEF plain, phase
  <2> QED
    BY <2>1 DEF IsRequest
<1> HIDE DEF right, s, plain, admitted, phase, x
<1>10. Earned(x, s)
  BY <1>5, <1>6, <1>7, <1>8, <1>9 DEF Earned, Makes
<1>11. Asked(x, s, rights[c])
  BY <1>4, <1>6, <1>9 DEF Asked, s, right
<1>12. OnTrail(x, {})
  BY <1>6, <1>9 DEF OnTrail
<1>13. Sound(x, s, {}, rights[c])
  BY <1>6, <1>9, <1>10, <1>11, <1>12 DEF Sound
<1> QED
  BY <1>1, <1>2, <1>3, <1>13, GoesOn

\* What is earned stays so.
LEMMA MoreIsEarned ==
  ASSUME NEW r, NEW s, NEW t, s \subseteq t, Earned(r, s)
  PROVE  Earned(r, t)
  BY DEF Earned, Earns

LEMMA EditsSound ==
  ASSUME Clients, SameScenario, UNCHANGED accessVars
  PROVE  Clients'
<1>1. Setup' = Setup
  BY SetupStays
<1>2. \A d \in Client : Sound(request[d], seen[d], trail[d], rights[d])'
  BY <1>1 DEF Clients, Sound, Asked, OnTrail, Earned, Earns, IsWrite, Addressing, IsRequest, accessVars
<1> QED
  BY <1>2 DEF Clients, SameScenario, accessVars

LEMMA PolicyChangeSound ==
  ASSUME Clients, PolicyChange
  PROVE  Clients'
<1>1. SameScenario /\ UNCHANGED <<request, trail>>
  BY LessLeft DEF PolicyChange
<1>2. Setup' = Setup
  BY <1>1, SetupStays
<1>3. rights' \in [Client -> [Ident -> SUBSET Right]]
  BY SetupTyped DEF PolicyChange, Clients
<1>4. ASSUME NEW d \in Client PROVE Sound(request[d], seen'[d], trail[d], rights'[d])
  <2>1. Sound(request[d], seen[d], trail[d], rights[d])
    BY DEF Clients
  <2>2. CASE request[d].ask = None
    BY <2>1, <2>2 DEF Sound, Asked, Earned
  <2>3. CASE request[d].ask # None
    <3>1. seen'[d] = seen[d] \cup Worth(rights'[d][request[d].ask.on])
      BY <2>3 DEF PolicyChange
    <3>2. Earned(request[d], seen'[d])
      BY <2>1, <3>1, MoreIsEarned DEF Sound
    <3> QED
      BY <2>1, <2>3, <3>1, <3>2 DEF Sound, Asked
  <2> QED
    BY <2>2, <2>3
<1>5. \A d \in Client : Sound(request[d], seen[d], trail[d], rights[d])'
  <2>1. request' = request /\ trail' = trail
    BY <1>1
  <2>2. \A d \in Client : Sound(request[d], seen[d], trail[d], rights[d])'
          <=> Sound(request[d], seen'[d], trail[d], rights'[d])
    BY <1>2, <2>1 DEF Sound, Asked, OnTrail, Earned, Earns, IsWrite, Addressing, IsRequest
  <2> QED
    BY <1>4, <2>2
<1>6. DOMAIN seen' = Client
  BY DEF PolicyChange
<1> QED
  BY <1>1, <1>3, <1>5, <1>6 DEF Clients, SameScenario

LEMMA ClientsInit ==
  ASSUME Init
  PROVE  Clients
<1>1. PICK name \in DOMAIN Scenarios :
        scenario = [name |-> name, edits |-> Scenarios[name].edits, swaps |-> Scenarios[name].swaps,
                    requests |-> Scenarios[name].requests, failures |-> Scenarios[name].failures]
  BY DEF Init
<1>2. Named
  BY <1>1 DEF Named
<1>3. rights \in [Client -> [Ident -> SUBSET Right]]
  BY <1>2, SetupTyped DEF Init
<1>4. ASSUME NEW c \in Client PROVE Sound(request[c], seen[c], trail[c], rights[c])
  <2>1. request[c] = Idle
    BY DEF Init
  <2>2. IsRequest(Idle) /\ Idle.phase = "idle" /\ Idle.ask = None
    BY DEF Idle, IsRequest
  <2>3. Idle.plain = FALSE /\ Idle.write = FALSE
    BY DEF Idle
  <2> QED
    BY <2>1, <2>2, <2>3 DEF Sound, Asked, Earned, OnTrail
<1> QED
  BY <1>2, <1>3, <1>4 DEF Init, Clients

LEMMA ClientsStep ==
  ASSUME Clients, [Next]_vars
  PROVE  Clients'
<1>1. ASSUME NEW c \in Client, NEW ask \in Setup.asks, Ask(c, ask) PROVE Clients'
  BY <1>1, AskSound
<1>2. ASSUME NEW c \in Client, RecordDecision(c) \/ AlsoPermits(c) PROVE Clients'
  BY <1>2, RecordDecisionSound, AlsoPermitsSound
<1>3. ASSUME NEW c \in Client, LoadForVending(c) \/ LoadForSigning(c) \/ LoadForPlan(c)
      PROVE  Clients'
  BY <1>3, LoadsSound
<1>4. ASSUME NEW c \in Client, NotThere(c) \/ NotIssued(c) PROVE Clients'
  BY <1>4, RefusalsSound
<1>5. ASSUME NEW c \in Client, Issue(c) \/ Exchanged(c) PROVE Clients'
  BY <1>5, IssuedSound DEF Issue, Exchanged, Issuing
<1>6. ASSUME NEW c \in Client, Exchange(c) PROVE Clients'
  BY <1>6, ExchangeSound
<1>7. CASE Edit
  BY <1>7, LessLeft, EditsSound DEF Edit
<1>8. CASE PolicyChange
  BY <1>8, PolicyChangeSound
<1>9. CASE Time
  BY <1>9, ScenarioStays, EditsSound DEF Time
<1>10. CASE UNCHANGED vars
  BY <1>10, ScenarioStays, EditsSound DEF vars
<1> QED
  BY <1>1, <1>2, <1>3, <1>4, <1>5, <1>6, <1>7, <1>8, <1>9, <1>10 DEF Next

-----------------------------------------------------------------------------
(* Keys                                                                     *)

\* A key that is being fetched has not been waited for too long.
Keys ==
  /\ now \in Nat /\ keyEnd \in Nat
  /\ \A f \in fetches : f.since \in Nat /\ f.since <= now /\ now <= f.since + ExchangeTime
  /\ sas \in [Client -> [end : Nat, keyEnd : Nat]]
  /\ Duration <= KeyRefreshMargin => \A c \in Client : sas[c].end <= sas[c].keyEnd

LEMMA SignedKeys ==
  ASSUME Keys, NEW c \in Client, NEW end \in Nat, SignWith(c, end),
         Duration <= KeyRefreshMargin => now + Duration <= end
  PROVE  /\ sas' \in [Client -> [end : Nat, keyEnd : Nat]]
         /\ Duration <= KeyRefreshMargin => \A d \in Client : sas'[d].end <= sas'[d].keyEnd
<1> DEFINE x == [end |-> now + Duration, keyEnd |-> end]
<1>1. now + Duration \in Nat
  BY DelegationKeysAssumption DEF Keys
<1>2. x \in [end : Nat, keyEnd : Nat] /\ x.end = now + Duration /\ x.keyEnd = end
  BY <1>1
<1>3. sas' = [sas EXCEPT ![c] = x]
  BY DEF SignWith
<1> HIDE DEF x
<1>4. \A d \in Client : sas'[d] = IF d = c THEN x ELSE sas[d]
  BY <1>3 DEF Keys
<1> QED
  BY <1>2, <1>3, <1>4 DEF Keys

LEMMA KeysStep ==
  ASSUME Keys, [Next]_vars
  PROVE  Keys'
<1>0. {MaxTime, KeyLifetime, KeyRefreshMargin, Duration, ExchangeTime} \subseteq Nat
  BY DelegationKeysAssumption
<1>1. ASSUME NEW c \in Client, SignWithKept(c) PROVE Keys'
  <2>1. Duration <= KeyRefreshMargin => now + Duration <= keyEnd
    BY <1>0, <1>1 DEF SignWithKept, HasGoodKey, Keys
  <2>2. /\ sas' \in [Client -> [end : Nat, keyEnd : Nat]]
        /\ Duration <= KeyRefreshMargin => \A d \in Client : sas'[d].end <= sas'[d].keyEnd
    BY <1>1, <2>1, SignedKeys DEF SignWithKept, Keys
  <2> QED
    BY <1>1, <2>2 DEF SignWithKept, Keys
<1>2. ASSUME NEW c \in Client, StartFetch(c) PROVE Keys'
  BY <1>0, <1>2 DEF StartFetch, Keys
<1>3. ASSUME NEW c \in Client, FinishFetch(c) PROVE Keys'
  <2>1. PICK f \in fetches :
          /\ keyEnd' = f.since + KeyLifetime /\ SignWith(c, f.since + KeyLifetime)
          /\ fetches' = fetches \ {f} /\ now' = now
    BY <1>3 DEF FinishFetch
  <2>2. f.since + KeyLifetime \in Nat /\ now + Duration <= f.since + KeyLifetime
    BY <1>0, DelegationKeysAssumption DEF Keys
  <2>3. /\ sas' \in [Client -> [end : Nat, keyEnd : Nat]]
        /\ Duration <= KeyRefreshMargin => \A d \in Client : sas'[d].end <= sas'[d].keyEnd
    BY <2>1, <2>2, SignedKeys
  <2> QED
    BY <2>1, <2>2, <2>3 DEF Keys
<1>4. ASSUME NEW c \in Client, FailFetch(c) PROVE Keys'
  BY <1>4 DEF FailFetch, Keys
<1>5. CASE Tick
  <2>1. ASSUME NEW f \in fetches
        PROVE  f.since <= now + 1 /\ now + 1 <= f.since + ExchangeTime
    BY <1>0, <1>5 DEF Tick, Keys
  <2> QED
    BY <1>5, <2>1 DEF Tick, Keys
<1>6. CASE UNCHANGED keyVars
  BY <1>6 DEF keyVars, Keys
<1>7. ASSUME NEW c \in Client,
             \/ \E ask \in Setup.asks : Ask(c, ask)
             \/ RecordDecision(c) \/ AlsoPermits(c) \/ NotThere(c)
             \/ LoadForVending(c) \/ LoadForSigning(c) \/ LoadForPlan(c)
      PROVE  UNCHANGED keyVars
  BY <1>7 DEF Ask, RecordDecision, AlsoPermits, NotThere, LoadForVending, LoadForSigning, LoadForPlan
<1>8. ASSUME NEW c \in Client, Issue(c) \/ Exchange(c) \/ Exchanged(c) \/ NotIssued(c)
      PROVE  Keys'
  BY <1>1, <1>2, <1>3, <1>4, <1>6, <1>8 DEF Issue, Exchange, Exchanged, NotIssued
<1>9. ASSUME Edit \/ PolicyChange PROVE UNCHANGED keyVars
  BY <1>9 DEF Edit, PolicyChange
<1>10. UNCHANGED vars => UNCHANGED keyVars
  BY DEF vars
<1> QED
  BY <1>5, <1>6, <1>7, <1>8, <1>9, <1>10 DEF Next, Time

-----------------------------------------------------------------------------
(* The invariant                                                            *)

IInv == Clients /\ Homes /\ Keys

LEMMA HomesInit ==
  ASSUME Init
  PROVE  Homes
<1> DEFINE set == Scenarios[scenario.name]
<1>1. scenario.name \in DOMAIN Scenarios
  BY ClientsInit DEF Clients, Named
<1>2. /\ DOMAIN set.held = Ident
      /\ \A i \in Ident : set.held[i] # None =>
           /\ set.held[i] = [kind |-> set.held[i].kind, at |-> set.held[i].at,
                            files |-> set.held[i].files, names |-> {i}]
           /\ IsLocation(set.held[i].at)
           /\ IF set.scope = "table" THEN Follows(i, set.held[i]) ELSE Housed(i, set.held[i])
  BY <1>1, ScenariosAssumption, Zenon
<1>3. /\ held = set.held /\ scope = set.scope /\ staged = [i \in Ident |-> None]
      /\ scope \in {"table", "warehouse"}
  BY DEF Init, ResourcesInit, Setup
<1> HIDE DEF set
<1>4. ASSUME NEW i \in Ident PROVE Settled(i, held[i])
  <2>1. CASE held[i] = None
    BY <2>1, NoneSettles
  <2>2. CASE held[i] # None
    <3> DEFINE r == held[i]
    <3>1. r = [kind |-> r.kind, at |-> r.at, files |-> r.files, names |-> {i}]
      BY <1>2, <1>3, <2>2
    <3>2. r.names = {i}
      BY <3>1
    <3>3. r = [kind |-> r.kind, at |-> r.at, files |-> r.files, names |-> r.names]
      BY <3>1, <3>2
    <3>4. IsLocation(r.at) /\ (scope = "table" => Follows(i, r)) /\ (scope = "warehouse" => Housed(i, r))
      BY <1>2, <1>3, <2>2
    <3> HIDE DEF r
    <3>5. Settled(i, r)
      BY <3>2, <3>3, <3>4 DEF Settled, Shaped
    <3> QED
      BY <3>5 DEF r
  <2> QED
    BY <2>1, <2>2
<1> QED
  BY <1>2, <1>3, <1>4, NoneSettles DEF Homes

LEMMA HomesStep ==
  ASSUME Clients, Homes, [Next]_vars
  PROVE  Homes'
<1>1. UNCHANGED resources => Homes'
  BY DEF resources, Homes, Settled
<1>2. ASSUME NEW c \in Client, LoadForVending(c) PROVE Homes'
  <2> DEFINE ask == request[c].ask
  <2>1. request[c].phase = "load"
    BY <1>2 DEF LoadForVending
  <2>2. ask \in Setup.asks
    BY <2>1 DEF Clients, Sound, Asked
  <2>3. ask.on \in Ident /\ Typed(ask.place)
    BY <2>2, SetupTyped DEF Clients
  <2>4. CreateTable(ask.on, ask.place) \/ StageCreateTable(ask.on, ask.place) \/ UNCHANGED resources
    BY <1>2 DEF LoadForVending
  <2> HIDE DEF ask
  <2> QED
    BY <1>1, <2>3, <2>4, MakesSettle
<1>3. CASE Edit
  <2>1. PICK i \in Setup.names : Changed(i, Setup.places, Setup.files) \/ Drop(i)
    BY <1>3 DEF Edit
  <2>2. i \in Ident /\ \A l \in Setup.places : IsLocation(l)
    BY SetupTyped DEF Clients
  <2>3. Drop(i) => Homes'
    BY <2>2, NoneSettles, HeldSettles DEF Drop
  <2> QED
    BY <2>1, <2>2, <2>3, ChangedSettles
<1>4. ASSUME NEW c \in Client,
             \/ \E ask \in Setup.asks : Ask(c, ask)
             \/ RecordDecision(c) \/ AlsoPermits(c) \/ NotThere(c)
             \/ LoadForSigning(c) \/ LoadForPlan(c)
             \/ Issue(c) \/ Exchange(c) \/ Exchanged(c) \/ NotIssued(c)
      PROVE  UNCHANGED resources
  BY <1>4 DEF Ask, RecordDecision, AlsoPermits, NotThere, LoadForSigning, LoadForPlan, Issue,
              Issued, Exchange, Exchanged, NotIssued
<1>5. ASSUME PolicyChange \/ Time \/ UNCHANGED vars PROVE UNCHANGED resources
  BY <1>5 DEF PolicyChange, Time, vars
<1> QED
  BY <1>1, <1>2, <1>3, <1>4, <1>5 DEF Next

-----------------------------------------------------------------------------
(* What is reached                                                          *)

\* A table found under a name is where one of the names it has had puts it, or in its warehouse.
Sited(i, r) ==
  /\ IsLocation(r.at)
  /\ IF scope = "table" THEN \E n \in r.names \cap Ident : IsWithin(PlaceOf(n), r.at)
     ELSE IsWithin(WarehouseFor(i[1]), r.at)

\* What is issued next is for what is in the place of the table that was found.
Confined(r) ==
  /\ Sited(r.ask.on, r.table)
  /\ IF r.ask.form = "sign" THEN Confine(Addressing(r.ask), r.table.at)
     ELSE CanonicalScheme(r.table.at.scheme) # "file"

\* A request that was to be signed was written in the style the server is configured to read.
AsRead(r) == r.ask.form = "sign" => SignedAsRead(r.ask.request, Setup.style)

RequestsAsRead == \A c \in Client : request[c].phase = "granted" => AsRead(request[c])

Reach(r) ==
  /\ r.phase \notin {"idle", "refused"} =>
       /\ r.ask.form = "sign" => Addressing(r.ask) # None
       /\ r.ask.form = "plan" => Warehouse[Governing(r.ask.on[1])] # None
  /\ r.phase = "write" => r.ask.form = "sign" \/ Confined(r)
  /\ r.phase \in {"issue", "issue-write", "exchange", "exchange-write"} => Confined(r)
  /\ r.phase = "granted" /\ AsRead(r) => \A o \in r.reach : Entitled(r.ask.on, r.table, o)

PurgedInPlace == purged # None => \A f \in purged.files : Entitled(purged.of, purged.table, f)

Reaching == (\A c \in Client : Reach(request[c])) /\ PurgedInPlace

LEMMA SettledIsSited ==
  ASSUME Homes, NEW i \in Ident, NEW r, r # None, r.kind = "table", Settled(i, r),
         Warehouse[Governing(i[1])] # None
  PROVE  Sited(i, r)
<1>1. IsLocation(r.at) /\ r.names \subseteq Ident
  BY DEF Settled, Shaped
<1>2. CASE scope = "table"
  <2>1. AtHome(r, r.at)
    BY <1>2 DEF Settled, Follows
  <2> QED
    BY <1>1, <1>2, <2>1 DEF AtHome, Sited
<1>3. CASE scope = "warehouse"
  BY <1>1, <1>3 DEF Settled, Housed, Sited
<1> QED
  BY <1>2, <1>3 DEF Homes

\* What has just been made is where it was declared, or where its name puts it.
LEMMA MadeIsSited ==
  ASSUME Homes, NEW i \in Ident, NEW l, Ours(i), Accepts(i, l), l # None => IsLocation(l)
  PROVE  Sited(i, Resource("table", Declared("table", i, l), i))
<1> DEFINE at == Declared("table", i, l)
           r == Resource("table", at, i)
<1>1. at = TableLocation(i) \/ (IsWithin(Bound(i), at) /\ IsLocation(at))
  BY DEF Declared, Default, Accepts
<1>2. IsLocation(TableLocation(i)) /\ IsWithin(PlaceOf(i), TableLocation(i))
  BY WarehousesAssumption
<1>3. IsWithin(WarehouseFor(i[1]), TableLocation(i))
  BY DefaultIsHoused DEF Default
<1> HIDE DEF at
<1>4. r.at = at /\ r.names = {i}
  BY DEF Resource
<1> HIDE DEF r
<1>5. scope = "table" => IsWithin(PlaceOf(i), r.at)
  BY <1>1, <1>2, <1>4, BoundIsPlace
<1>6. scope = "warehouse" => IsWithin(WarehouseFor(i[1]), r.at)
  BY <1>1, <1>3, <1>4, BoundIsWarehouse
<1>7. IsLocation(r.at)
  BY <1>1, <1>2, <1>4
<1>8. Sited(i, r)
  BY <1>4, <1>5, <1>6, <1>7 DEF Homes, Sited
<1> QED
  BY <1>8 DEF r, at

LEMMA SitedEntitles ==
  ASSUME NEW i \in Ident, NEW r, Sited(i, r), NEW l, IsWithin(r.at, l)
  PROVE  Entitled(i, r, l)
<1>1. CASE scope = "table"
  <2>1. PICK n \in r.names \cap Ident : IsWithin(PlaceOf(n), r.at)
    BY <1>1 DEF Sited
  <2>2. IsLocation(PlaceOf(n)) /\ IsLocation(r.at)
    BY WarehousesAssumption DEF Sited
  <2>3. IsWithin(PlaceOf(n), l)
    BY <2>1, <2>2, WithinWithin
  <2> QED
    BY <1>1, <2>1, <2>3 DEF Entitled
<1>2. CASE scope # "table"
  <2>1. IsWithin(WarehouseFor(i[1]), r.at) /\ IsLocation(WarehouseFor(i[1])) /\ IsLocation(r.at)
    BY <1>2, WarehousesAssumption DEF Sited
  <2>2. IsWithin(WarehouseFor(i[1]), l)
    BY <2>1, WithinWithin
  <2> QED
    BY <1>2, <2>2 DEF Entitled
<1> QED
  BY <1>1, <1>2

LEMMA ScopeStays ==
  ASSUME [Next]_vars
  PROVE  scope' = scope
<1>1. ASSUME NEW i, NEW places, NEW files, Changed(i, places, files) \/ Drop(i) PROVE scope' = scope
  BY <1>1 DEF Changed, CreateTable, StageCreateTable, CreateView, CommitTable, CommitStaged,
              CommitView, Register, Rename, Drop, ChangesElsewhere
<1>2. CASE Edit
  BY <1>1, <1>2 DEF Edit
<1>3. ASSUME NEW c \in Client, LoadForVending(c) PROVE scope' = scope
  BY <1>3 DEF LoadForVending, CreateTable, StageCreateTable, resources
<1>4. ASSUME NEW c \in Client,
             \/ \E ask \in Setup.asks : Ask(c, ask)
             \/ RecordDecision(c) \/ AlsoPermits(c) \/ NotThere(c)
             \/ LoadForSigning(c) \/ LoadForPlan(c)
             \/ Issue(c) \/ Exchange(c) \/ Exchanged(c) \/ NotIssued(c)
      PROVE  scope' = scope
  BY <1>4 DEF Ask, RecordDecision, AlsoPermits, NotThere, LoadForSigning, LoadForPlan, Issue,
              Issued, Exchange, Exchanged, NotIssued, resources
<1>5. ASSUME PolicyChange \/ Time \/ UNCHANGED vars PROVE scope' = scope
  BY <1>5 DEF PolicyChange, Time, vars, resources
<1> QED
  BY <1>2, <1>3, <1>4, <1>5 DEF Next

\* One client's request goes on, within what it may reach.
LEMMA ReachGoesOn ==
  ASSUME Clients, SameScenario, scope' = scope, \A d \in Client : Reach(request[d]),
         NEW c \in Client, NEW x, Reach(x), request' = [request EXCEPT ![c] = x]
  PROVE  \A d \in Client : Reach(request[d])'
<1>1. Setup' = Setup
  BY SetupStays
<1>2. \A d \in Client : request'[d] = IF d = c THEN x ELSE request[d]
  BY DEF Clients
<1>3. ASSUME NEW d \in Client PROVE Reach(request[d])'
  <2>1. Reach(request'[d])
    BY <1>2
  <2> QED
    BY <1>1, <2>1 DEF Reach, AsRead, Confined, Sited, Entitled, Addressing
<1> QED
  BY <1>3

LEMMA ReachStays ==
  ASSUME SameScenario, scope' = scope, \A d \in Client : Reach(request[d]), request' = request
  PROVE  \A d \in Client : Reach(request[d])'
<1>1. Setup' = Setup
  BY SetupStays
<1> QED
  BY <1>1 DEF Reach, AsRead, Confined, Sited, Entitled, Addressing

\* What becomes of a request when some of its fields change.
LEMMA WithPhase ==
  ASSUME NEW r, IsRequest(r), NEW phase
  PROVE  LET x == [r EXCEPT !.phase = phase]
         IN x.phase = phase /\ x.ask = r.ask /\ x.table = r.table /\ x.reach = r.reach
  BY DEF IsRequest

LEMMA WithTable ==
  ASSUME NEW r, IsRequest(r), NEW table, NEW phase, NEW reach
  PROVE  LET x == [r EXCEPT !.table = table, !.phase = phase, !.reach = reach]
         IN x.phase = phase /\ x.ask = r.ask /\ x.table = table /\ x.reach = reach
<1> DEFINE fields == {"phase", "ask", "plain", "write", "table", "reach"}
<1>1. DOMAIN r = fields
  BY DEF IsRequest
<1>2. [r EXCEPT !.table = table, !.phase = phase, !.reach = reach]
        = [n \in fields |-> IF n = "reach" THEN reach
                           ELSE IF n = "phase" THEN phase
                           ELSE IF n = "table" THEN table ELSE r[n]]
  BY <1>1
<1> QED
  BY <1>2

LEMMA WithReach ==
  ASSUME NEW r, IsRequest(r), NEW phase, NEW write, NEW reach
  PROVE  LET x == [r EXCEPT !.phase = phase, !.write = write, !.reach = reach]
         IN x.phase = phase /\ x.ask = r.ask /\ x.table = r.table /\ x.reach = reach
<1> DEFINE fields == {"phase", "ask", "plain", "write", "table", "reach"}
<1>1. DOMAIN r = fields
  BY DEF IsRequest
<1>2. [r EXCEPT !.phase = phase, !.write = write, !.reach = reach]
        = [n \in fields |-> IF n = "reach" THEN reach
                           ELSE IF n = "write" THEN write
                           ELSE IF n = "phase" THEN phase ELSE r[n]]
  BY <1>1
<1> QED
  BY <1>2

LEMMA Asking ==
  ASSUME NEW ask, NEW plain, NEW phase
  PROVE  LET x == [Idle EXCEPT !.ask = ask, !.plain = plain, !.phase = phase]
         IN x.phase = phase /\ x.ask = ask
<1> DEFINE fields == {"phase", "ask", "plain", "write", "table", "reach"}
<1>1. DOMAIN Idle = fields
  BY DEF Idle
<1>2. [Idle EXCEPT !.ask = ask, !.plain = plain, !.phase = phase]
        = [n \in fields |-> IF n = "phase" THEN phase
                           ELSE IF n = "plain" THEN plain
                           ELSE IF n = "ask" THEN ask ELSE Idle[n]]
  BY <1>1
<1> QED
  BY <1>2

\* A request that only goes to another phase keeps what it has found.
LEMMA ReachPhase ==
  ASSUME Clients, SameScenario, scope' = scope, \A d \in Client : Reach(request[d]),
         NEW c \in Client, NEW phase, To(c, phase), request[c].phase \notin {"idle", "refused"},
         \/ phase = "refused"
         \/ phase = "load"
         \/ phase \in {"issue", "issue-write"} /\ request[c].phase = "write" /\ request[c].ask.form # "sign"
         \/ /\ phase \in {"exchange", "exchange-write"}
            /\ request[c].phase \in {"issue", "issue-write"}
  PROVE  \A d \in Client : Reach(request[d])'
<1> DEFINE r == request[c]
           x == [r EXCEPT !.phase = phase]
<1>1. request' = [request EXCEPT ![c] = x]
  BY DEF To, Clients
<1>2. IsRequest(r) /\ Reach(r)
  BY DEF Clients, Sound
<1>3. x.phase = phase /\ x.ask = r.ask /\ x.table = r.table /\ x.reach = r.reach
  BY <1>2, WithPhase
<1> HIDE DEF x
<1>4. Reach(x)
  BY <1>2, <1>3 DEF Reach, Confined
<1> QED
  BY <1>1, <1>4, ReachGoesOn

LEMMA AskReaches ==
  ASSUME Clients, scope' = scope, \A d \in Client : Reach(request[d]),
         NEW c \in Client, NEW ask \in Setup.asks, Ask(c, ask)
  PROVE  \A d \in Client : Reach(request[d])'
<1> DEFINE right == rights[c][ask.on]
           plain == Makes(ask) \/ "restricted" \notin right
           admitted == Needs(ask) \in right /\ Admits(ask, plain)
           phase == IF ~admitted THEN "refused" ELSE IF IsWrite(ask) THEN "write"
                    ELSE IF Makes(ask) THEN "decided" ELSE "load"
           x == [Idle EXCEPT !.ask = ask, !.plain = plain, !.phase = phase]
<1>1. request' = [request EXCEPT ![c] = x]
  BY DEF Ask
<1>2. SameScenario
  BY LessLeft DEF Ask
<1>3. x.phase = phase /\ x.ask = ask
  BY Asking
<1>4. /\ phase \in {"refused", "write", "decided", "load"}
      /\ phase = "write" => ask.form = "sign"
      /\ phase # "refused" => /\ ask.form = "sign" => Addressing(ask) # None
                              /\ ask.form = "plan" => Warehouse[Governing(ask.on[1])] # None
  BY DEF Admits, IsWrite
<1> HIDE DEF phase, x
<1>5. Reach(x)
  BY <1>3, <1>4 DEF Reach
<1> QED
  BY <1>1, <1>2, <1>5, ReachGoesOn

\* A request that finds the table it is about.
LEMMA FoundReaches ==
  ASSUME Clients, scenario' = scenario, scope' = scope, \A d \in Client : Reach(request[d]),
         NEW c \in Client, NEW table, NEW phase, NEW reach, Found(c, table, phase, reach),
         request[c].phase = "load",
         \/ phase = "refused"
         \/ /\ phase \in {"write", "issue", "issue-write"}
            /\ Sited(request[c].ask.on, table)
            /\ IF request[c].ask.form = "sign" THEN Confine(Addressing(request[c].ask), table.at)
               ELSE CanonicalScheme(table.at.scheme) # "file"
         \/ /\ phase = "granted" /\ request[c].ask.form = "plan"
            /\ \A o \in reach : Entitled(request[c].ask.on, table, o)
  PROVE  \A d \in Client : Reach(request[d])'
<1> DEFINE r == request[c]
           x == [r EXCEPT !.table = table, !.phase = phase, !.reach = reach]
<1>1. request' = [request EXCEPT ![c] = x]
  BY DEF Found, Clients
<1>2. IsRequest(r) /\ Reach(r)
  BY DEF Clients, Sound
<1>3. x.phase = phase /\ x.ask = r.ask /\ x.table = table /\ x.reach = reach
  BY <1>2, WithTable
<1> HIDE DEF x
<1>4. Reach(x)
  BY <1>2, <1>3 DEF Reach, Confined
<1>5. SameScenario
  BY ScenarioStays
<1> QED
  BY <1>1, <1>4, <1>5, ReachGoesOn

LEMMA AskOf ==
  ASSUME Clients, NEW c \in Client, request[c].phase # "idle"
  PROVE  /\ request[c].ask \in Setup.asks /\ request[c].ask.on \in Ident
         /\ request[c].ask.place # None => IsLocation(request[c].ask.place)
<1>1. request[c].ask \in Setup.asks
  BY DEF Clients, Sound, Asked
<1> QED
  BY <1>1, SetupTyped DEF Clients, Typed

\* What is not on a filesystem is what credentials are vended for.
LEMMA SupportedIsStore ==
  ASSUME NEW provider, NEW l, SupportsLocation(provider, l)
  PROVE  CanonicalScheme(l.scheme) # "file"
  BY DEF SupportsLocation, SupportedSchemes, CanonicalScheme

LEMMA VendingReaches ==
  ASSUME Clients, Homes, scope' = scope, \A d \in Client : Reach(request[d]),
         NEW c \in Client, LoadForVending(c)
  PROVE  \A d \in Client : Reach(request[d])'
<1> DEFINE r == request[c]
           i == r.ask.on
           made == Resource("table", Declared("table", i, r.ask.place), i)
<1>1. r.phase = "load" /\ scenario' = scenario
  BY DEF LoadForVending
<1>2. i \in Ident /\ (r.ask.place # None => IsLocation(r.ask.place))
  BY <1>1, AskOf
<1>3. ASSUME NEW table, Vendable(c, table)
      PROVE  CanonicalScheme(table.at.scheme) # "file" /\ Warehouse[Governing(i[1])] # None
  BY <1>3, SupportedIsStore DEF Vendable, ManagesStorageFor
<1>4. CASE r.ask.form \in {"create", "stage"}
  <2>1. Found(c, made, IF Vendable(c, made) THEN "issue-write" ELSE "refused", {})
        /\ Ours(i) /\ Accepts(i, r.ask.place)
    <3>1. CASE r.ask.form = "create"
      <4>1. CreateTable(i, r.ask.place) /\ Found(c, held'[i], IF Vendable(c, held'[i]) THEN "issue-write" ELSE "refused", {})
        BY <3>1 DEF LoadForVending
      <4>2. held'[i] = made
        BY <1>2, <4>1 DEF CreateTable, Homes
      <4> QED
        BY <4>1, <4>2 DEF CreateTable
    <3>2. CASE r.ask.form = "stage"
      <4>1. StageCreateTable(i, r.ask.place) /\ Found(c, staged'[i], IF Vendable(c, staged'[i]) THEN "issue-write" ELSE "refused", {})
        BY <3>2 DEF LoadForVending
      <4>2. staged'[i] = made
        BY <1>2, <4>1 DEF StageCreateTable, Homes
      <4> QED
        BY <4>1, <4>2 DEF StageCreateTable
    <3> QED
      BY <1>4, <3>1, <3>2
  <2>2. Sited(i, made)
    BY <1>2, <2>1, MadeIsSited
  <2> HIDE DEF made
  <2> QED
    BY <1>1, <1>3, <1>4, <2>1, <2>2, FoundReaches
<1>5. CASE r.ask.form = "vend"
  <2>1. IsTable(i) /\ Found(c, held[i], IF Vendable(c, held[i]) THEN "write" ELSE "refused", {})
    BY <1>5 DEF LoadForVending
  <2>2. held[i] # None /\ held[i].kind = "table" /\ Settled(i, held[i])
    BY <1>2, <2>1 DEF IsTable, Homes
  <2>3. Vendable(c, held[i]) => Sited(i, held[i])
    BY <1>2, <1>3, <2>2, SettledIsSited
  <2> QED
    BY <1>1, <1>3, <1>5, <2>1, <2>3, FoundReaches
<1> QED
  BY <1>4, <1>5 DEF LoadForVending

LEMMA SigningReaches ==
  ASSUME Clients, Homes, scope' = scope, \A d \in Client : Reach(request[d]),
         NEW c \in Client, LoadForSigning(c)
  PROVE  \A d \in Client : Reach(request[d])'
<1> DEFINE r == request[c]
           i == r.ask.on
           phase == IF ~Signs(c, held[i]) THEN "refused"
                    ELSE IF IsWrite(r.ask) THEN "issue-write" ELSE "issue"
<1>1. /\ r.phase = "load" /\ r.ask.form = "sign" /\ scenario' = scenario
      /\ IsTable(i) /\ Found(c, held[i], phase, {})
  BY DEF LoadForSigning
<1>2. i \in Ident
  BY <1>1, AskOf
<1>3. held[i] # None /\ held[i].kind = "table" /\ Settled(i, held[i])
  BY <1>1, <1>2 DEF IsTable, Homes
<1>4. Signs(c, held[i]) => Sited(i, held[i]) /\ Confine(Addressing(r.ask), held[i].at)
  BY <1>2, <1>3, SettledIsSited DEF Signs, ManagesStorageFor
<1>5. phase = "refused" \/ (phase \in {"issue", "issue-write"} /\ Signs(c, held[i]))
  OBVIOUS
<1> HIDE DEF phase
<1> QED
  BY <1>1, <1>4, <1>5, FoundReaches

LEMMA PlanReaches ==
  ASSUME Clients, Homes, scope' = scope, \A d \in Client : Reach(request[d]),
         NEW c \in Client, LoadForPlan(c)
  PROVE  \A d \in Client : Reach(request[d])'
<1> DEFINE r == request[c]
           i == r.ask.on
           t == held[i]
           delegated == ~r.plain /\ Setup.signing /\ IsVendable(Setup.prefixes, t.at)
           phase == IF delegated /\ ~Presigns(t) THEN "refused" ELSE "granted"
           reach == IF delegated THEN t.files ELSE {}
<1>1. /\ r.phase = "load" /\ r.ask.form = "plan" /\ scenario' = scenario
      /\ IsTable(i) /\ Found(c, t, phase, reach)
  BY DEF LoadForPlan
<1>2. i \in Ident
  BY <1>1, AskOf
<1>3. t # None /\ t.kind = "table" /\ Settled(i, t)
  BY <1>1, <1>2 DEF IsTable, Homes
<1>4. Sited(i, t)
  BY <1>1, <1>2, <1>3, SettledIsSited DEF Reach
<1>5. phase = "granted" => \A o \in reach : IsWithin(t.at, o)
  BY DEF Presigns, EnsureOwned
<1>6. phase \in {"refused", "granted"}
  OBVIOUS
<1> HIDE DEF t, phase, reach
<1>7. phase = "granted" => \A o \in reach : Entitled(i, t, o)
  BY <1>2, <1>4, <1>5, SitedEntitles
<1> QED
  BY <1>1, <1>6, <1>7, FoundReaches

\* What is issued reaches what is in the place of the table.
LEMMA IssuedReaches ==
  ASSUME Clients, scope' = scope, \A d \in Client : Reach(request[d]),
         NEW c \in Client, Issued(c),
         request[c].phase \in {"issue", "issue-write", "exchange", "exchange-write"}
  PROVE  \A d \in Client : Reach(request[d])'
<1> DEFINE r == request[c]
           i == r.ask.on
           ask == r.ask
           write == r.phase \in {"issue-write", "exchange-write"}
           reach == IF ask.form = "sign" THEN S3Reaches(ask.request) ELSE Within(r.table.at)
<1>1. PICK kept \in BOOLEAN :
        /\ Record(c, "granted", kept)
        /\ request' = [request EXCEPT
             ![c].phase = IF Stops(kept) THEN "refused" ELSE "granted",
             ![c].write = write, ![c].reach = reach]
  BY DEF Issued, MayKeep
<1> DEFINE phase == IF Stops(kept) THEN "refused" ELSE "granted"
           x == [r EXCEPT !.phase = phase, !.write = write, !.reach = reach]
<1>2. request' = [request EXCEPT ![c] = x]
  BY <1>1 DEF Clients
<1>3. IsRequest(r) /\ Reach(r)
  BY DEF Clients, Sound
<1>4. phase \in {"refused", "granted"}
  OBVIOUS
<1>5. ask \in Setup.asks /\ i \in Ident
  BY AskOf
<1>6. Confined(r) /\ (ask.form = "sign" => Addressing(ask) # None)
  BY <1>3 DEF Reach
<1>7. ASSUME AsRead(r), NEW o \in reach PROVE Entitled(i, r.table, o)
  <2>1. Sited(i, r.table) /\ IsLocation(r.table.at)
    BY <1>6 DEF Confined, Sited
  <2>2. CASE ask.form = "sign"
    <3>1. IsRemoteRequest(ask.request) /\ SignedAsRead(ask.request, Setup.style)
      <4>1. scenario.name \in DOMAIN Scenarios /\ ask \in Scenarios[scenario.name].asks
        BY <1>5 DEF Clients, Named, Setup
      <4>2. IsRemoteRequest(ask.request)
        BY <2>2, <4>1, ScenariosAssumption
      <4> QED
        BY <1>7, <2>2, <4>2 DEF AsRead
    <3>2. Resolve(ask.request, Setup.style) # None /\ Confine(Resolve(ask.request, Setup.style), r.table.at)
      BY <1>6, <2>2 DEF Confined, Addressing
    <3>3. o \in S3Reaches(ask.request)
      BY <1>7, <2>2
    <3>4. IsWithin(r.table.at, o)
      BY <2>1, <3>1, <3>2, <3>3, ReachIsConfined
    <3> QED
      BY <1>5, <2>1, <3>4, SitedEntitles
  <2>3. CASE ask.form # "sign"
    <3>1. CanonicalScheme(r.table.at.scheme) # "file" /\ o \in Within(r.table.at)
      BY <1>6, <1>7, <2>3 DEF Confined
    <3>2. IsWithin(r.table.at, o)
      BY <2>1, <3>1, CredentialsReachWithin
    <3> QED
      BY <1>5, <2>1, <3>2, SitedEntitles
  <2> QED
    BY <2>2, <2>3
<1> HIDE DEF phase, write, reach
<1>8. x.phase = phase /\ x.ask = ask /\ x.table = r.table /\ x.reach = reach
  BY <1>3, WithReach
<1> HIDE DEF x
<1>9. Reach(x)
  BY <1>3, <1>4, <1>7, <1>8 DEF Reach, AsRead
<1>10. SameScenario
  BY <1>1, RecordTrails
<1> QED
  BY <1>2, <1>9, <1>10, ReachGoesOn

LEMMA PhasesReach ==
  ASSUME Clients, scope' = scope, \A d \in Client : Reach(request[d]), NEW c \in Client,
         RecordDecision(c) \/ AlsoPermits(c) \/ NotThere(c) \/ Exchange(c) \/ NotIssued(c)
  PROVE  \A d \in Client : Reach(request[d])'
<1>1. CASE RecordDecision(c)
  <2>1. PICK kept \in BOOLEAN : Record(c, "decided", kept) /\ To(c, IF Stops(kept) THEN "refused" ELSE "load")
    BY <1>1 DEF RecordDecision, MayKeep
  <2>2. request[c].phase = "decided" /\ SameScenario
    BY <1>1, <2>1, RecordTrails DEF RecordDecision
  <2> QED
    BY <2>1, <2>2, ReachPhase
<1>2. CASE AlsoPermits(c)
  <2>1. request[c].phase = "write"
    BY <1>2 DEF AlsoPermits
  <2>2. CASE ~MayUpdate(c)
    <3>1. To(c, IF request[c].ask.form = "sign" THEN "refused" ELSE "issue") /\ scenario' = scenario
      BY <1>2, <2>2 DEF AlsoPermits
    <3>2. SameScenario
      BY <3>1, ScenarioStays
    <3> QED
      BY <2>1, <3>1, <3>2, ReachPhase
  <2>3. CASE MayUpdate(c)
    <3>1. PICK kept \in BOOLEAN :
            /\ Record(c, "decided", kept)
            /\ To(c, IF Stops(kept) THEN "refused"
                     ELSE IF request[c].ask.form = "sign" THEN "load" ELSE "issue-write")
      BY <1>2, <2>3 DEF AlsoPermits, MayKeep
    <3>2. SameScenario
      BY <3>1, RecordTrails
    <3> QED
      BY <2>1, <3>1, <3>2, ReachPhase
  <2> QED
    BY <2>2, <2>3
<1>3. CASE NotThere(c) \/ NotIssued(c)
  <2>1. /\ request[c].phase \notin {"idle", "refused"} /\ To(c, "refused")
        /\ scenario' = scenario \/ scenario' = [scenario EXCEPT !.failures = @ - 1]
    BY <1>3 DEF NotThere, NotIssued, Issuing
  <2>2. SameScenario
    BY <2>1, ScenarioStays, LessLeft
  <2> QED
    BY <2>1, <2>2, ReachPhase
<1>4. CASE Exchange(c)
  <2>1. /\ request[c].phase \in {"issue", "issue-write"} /\ scenario' = scenario
        /\ To(c, IF request[c].phase = "issue" THEN "exchange" ELSE "exchange-write")
    BY <1>4 DEF Exchange, Issuing
  <2>2. SameScenario
    BY <2>1, ScenarioStays
  <2> QED
    BY <2>1, <2>2, ReachPhase
<1> QED
  BY <1>1, <1>2, <1>3, <1>4

\* A purge deletes what is in the place of the table it drops.
LEMMA EditReaches ==
  ASSUME Clients, Homes, scope' = scope, PurgedInPlace, Edit
  PROVE  PurgedInPlace'
<1>1. PICK i \in Setup.names :
        \/ UNCHANGED purged
        \/ /\ IsTable(i) /\ Ours(i)
           /\ purged' = [of |-> i, table |-> held[i], files |-> Deletes(held[i])]
  BY DEF Edit, Drop
<1>2. i \in Ident
  BY SetupTyped DEF Clients
<1>3. CASE UNCHANGED purged
  BY <1>3 DEF PurgedInPlace, Entitled
<1>4. CASE /\ IsTable(i) /\ Ours(i)
           /\ purged' = [of |-> i, table |-> held[i], files |-> Deletes(held[i])]
  <2>1. held[i] # None /\ held[i].kind = "table" /\ Settled(i, held[i])
    BY <1>2, <1>4 DEF IsTable, Homes
  <2>2. Sited(i, held[i])
    BY <1>2, <1>4, <2>1, OursIsGoverned, SettledIsSited
  <2>3. \A f \in Deletes(held[i]) : Entitled(i, held[i], f)
    BY <1>2, <2>2, SitedEntitles DEF Deletes
  <2>4. purged'.of = i /\ purged'.table = held[i] /\ purged'.files = Deletes(held[i])
    BY <1>4
  <2> QED
    BY <2>3, <2>4 DEF PurgedInPlace, Entitled
<1> QED
  BY <1>1, <1>3, <1>4

LEMMA ReachingStep ==
  ASSUME Clients, Homes, Reaching, [Next]_vars
  PROVE  Reaching'
<1>1. scope' = scope /\ \A d \in Client : Reach(request[d])
  BY ScopeStays DEF Reaching
<1>2. UNCHANGED purged => PurgedInPlace'
  BY <1>1 DEF Reaching, PurgedInPlace, Entitled
<1>3. ASSUME NEW c \in Client, NEW ask \in Setup.asks, Ask(c, ask) PROVE Reaching'
  BY <1>1, <1>2, <1>3, AskReaches DEF Ask, Reaching
<1>4. ASSUME NEW c \in Client,
             RecordDecision(c) \/ AlsoPermits(c) \/ NotThere(c) \/ Exchange(c) \/ NotIssued(c)
      PROVE  Reaching'
  <2>1. UNCHANGED purged
    BY <1>4 DEF RecordDecision, AlsoPermits, NotThere, Exchange, NotIssued
  <2> QED
    BY <1>1, <1>2, <1>4, <2>1, PhasesReach DEF Reaching
<1>5. ASSUME NEW c \in Client, LoadForVending(c) PROVE Reaching'
  BY <1>1, <1>2, <1>5, VendingReaches DEF LoadForVending, Reaching
<1>6. ASSUME NEW c \in Client, LoadForSigning(c) PROVE Reaching'
  BY <1>1, <1>2, <1>6, SigningReaches DEF LoadForSigning, Reaching
<1>7. ASSUME NEW c \in Client, LoadForPlan(c) PROVE Reaching'
  BY <1>1, <1>2, <1>7, PlanReaches DEF LoadForPlan, Reaching
<1>8. ASSUME NEW c \in Client, Issue(c) \/ Exchanged(c) PROVE Reaching'
  <2>1. UNCHANGED purged /\ Issued(c)
        /\ request[c].phase \in {"issue", "issue-write", "exchange", "exchange-write"}
    BY <1>8 DEF Issue, Exchanged, Issued, Issuing
  <2> QED
    BY <1>1, <1>2, <2>1, IssuedReaches DEF Reaching
<1>9. CASE Edit
  <2>1. SameScenario /\ request' = request
    BY <1>9, LessLeft DEF Edit, accessVars
  <2> QED
    BY <1>1, <1>9, <2>1, ReachStays, EditReaches DEF Reaching
<1>10. ASSUME PolicyChange \/ Time \/ UNCHANGED vars PROVE Reaching'
  <2>1. SameScenario
    BY <1>10, LessLeft, ScenarioStays DEF PolicyChange, Time, vars
  <2>2. UNCHANGED <<request, purged>>
    BY <1>10 DEF PolicyChange, Time, vars, accessVars
  <2> QED
    BY <1>1, <1>2, <2>1, <2>2, ReachStays DEF Reaching
<1> QED
  BY <1>3, <1>4, <1>5, <1>6, <1>7, <1>8, <1>9, <1>10 DEF Next

LEMMA ReachingInit ==
  ASSUME Init
  PROVE  Reaching
<1>1. purged = None /\ \A c \in Client : request[c] = Idle
  BY DEF Init
<1>2. Idle.phase = "idle"
  BY DEF Idle
<1> QED
  BY <1>1, <1>2 DEF Reaching, Reach, PurgedInPlace

-----------------------------------------------------------------------------
(* The theorems                                                             *)

LEMMA InvHolds == Spec => []IInv
<1>1. Init => IInv
  BY ClientsInit, HomesInit, DelegationKeysAssumption DEF IInv, Init, KeysInit, Keys
<1>2. IInv /\ [Next]_vars => IInv'
  BY ClientsStep, HomesStep, KeysStep DEF IInv
<1> QED
  BY <1>1, <1>2, PTL DEF Spec

\* Under the scope of tables, every table and every view is in the place of a name it has
\* had, whatever was declared, registered, staged, committed and renamed (location.rs:408-436).
THEOREM LocationsFollowNamesHolds == Spec => []LocationsFollowNames
<1>1. IInv => LocationsFollowNames
  BY DEF IInv, Homes, Settled, LocationsFollowNames
<1> QED
  BY <1>1, InvHolds, PTL

\* Whoever has been let at files was permitted, while the request ran, what it was let do, by
\* one of the policy sets there were (guard.rs:146, table.rs:276-318, sign.rs:1227-1270).
THEOREM AccessIsEarnedHolds == Spec => []AccessIsEarned
<1>1. ASSUME IInv PROVE AccessIsEarned
  <2>1. SUFFICES ASSUME NEW c \in Client, request[c].phase = "granted"
                 PROVE  LET form == request[c].ask.form
                        IN /\ form \in {"vend", "sign"} => "plain" \in seen[c]
                           /\ form = "plan" => "read" \in seen[c]
                           /\ request[c].write =>
                                (IF form \in {"create", "stage"} THEN "create" ELSE "update") \in seen[c]
    BY DEF AccessIsEarned
  <2>2. Earned(request[c], seen[c]) /\ request[c].write \in BOOLEAN
    BY <1>1 DEF IInv, Clients, Sound
  <2> QED
    BY <2>1, <2>2 DEF Earned, Earns, Makes
<1> QED
  BY <1>1, InvHolds, PTL

\* Where the audit trail fails closed, access to write is out only when the trail holds that
\* it was given (table.rs:276-318, sign.rs:1227-1270).
THEOREM WriteAccessIsOnRecordHolds == Spec => []WriteAccessIsOnRecord
<1>1. ASSUME IInv PROVE WriteAccessIsOnRecord
  <2>1. ASSUME NEW c \in Client, request[c].phase = "granted", request[c].write, Setup.failClosed
        PROVE  "granted" \in trail[c]
    BY <1>1, <2>1 DEF IInv, Clients, Sound, OnTrail
  <2> QED
    BY <2>1 DEF WriteAccessIsOnRecord
<1> QED
  BY <1>1, InvHolds, PTL

\* No signature of Azure's outlives its key, as long as it is for no longer than the margin
\* keys are refreshed in (azure.rs:380).
THEOREM KeysOutliveAccessHolds == Spec => []KeysOutliveAccess
<1>1. IInv => KeysOutliveAccess
  BY DEF IInv, Keys, KeysOutliveAccess
<1> QED
  BY <1>1, InvHolds, PTL

\* What a client can reach with what was issued to it, the way the storage service reads it,
\* and what a purge deletes, is in the place of a name the table has had, or in its warehouse,
\* as long as what was signed was written in the style the server reads (sign.rs:583-605, 1188;
\* aws.rs:170; plan.rs:278; purge.rs:263).
THEOREM ReachFollowsNamesHolds == Spec => [](RequestsAsRead => ReachFollowsNames)
<1>1. Init => Reaching
  BY ReachingInit
<1>2. IInv /\ Reaching /\ [Next]_vars => Reaching'
  BY ReachingStep DEF IInv
<1>3. Reaching => (RequestsAsRead => ReachFollowsNames)
  BY DEF Reaching, Reach, PurgedInPlace, RequestsAsRead, ReachFollowsNames
<1> QED
  BY <1>1, <1>2, <1>3, InvHolds, PTL DEF Spec
=============================================================================
