--------------------------- MODULE ListingProofs ---------------------------
(***************************************************************************)
(* The mounts and the native catalog are together one catalog: each call   *)
(* that is routed does, to the names the client gave, what CatalogSpec     *)
(* says, for any mounts, names and stores (src/catalog/federated.rs).      *)
(*                                                                         *)
(* And a listing followed to its end shows every name once                 *)
(* (src/catalog/v1/pagination.rs).  Its proof has three layers: what a     *)
(* page of each source contains, by intervals of the order of names; one   *)
(* client's listing, by what the position it resumes from is past; and     *)
(* the steps of all clients while the stores change.                       *)
(***************************************************************************)
EXTENDS Listing, SequenceTheorems, FiniteSetTheorems, WellFoundedInduction, TLAPS

-----------------------------------------------------------------------------
(* Names on their way down                                                 *)

\* A sequence without its first element.
Rest(s) == Tail(s)

LEMMA FrontFacts ==
  ASSUME NEW S, NEW p \in Seq(S), NEW n \in Nat \ {0}, Len(p) = n
  PROVE  /\ Front(p) \in Seq(S) /\ Len(Front(p)) = n - 1
         /\ \A i \in 1..(n - 1) : Front(p)[i] = p[i]
         /\ Rest(p) \in Seq(S) /\ Len(Rest(p)) = n - 1
         /\ \A i \in 1..(n - 1) : Rest(p)[i] = p[i + 1]
<1>1. p # <<>> /\ \A i \in 1..n : p[i] \in S
  BY EmptySeq, ElementOfSeq
<1>2. /\ Front(p) \in Seq(S) /\ Len(Front(p)) = n - 1
      /\ \A i \in 1..(n - 1) : Front(p)[i] = p[i]
  <2>1. Front(p) = SubSeq(p, 1, n - 1)
    BY DEF Front
  <2>2. PICK m \in Nat : m = n - 1
    OBVIOUS
  <2>3. m \in Int /\ \A i \in 1..m : p[i] \in S
    BY <1>1, <2>2
  <2>4. /\ SubSeq(p, 1, m) \in Seq(S) /\ Len(SubSeq(p, 1, m)) = IF 1 <= m THEN m - 1 + 1 ELSE 0
        /\ \A i \in 1..(m - 1 + 1) : SubSeq(p, 1, m)[i] = p[1 + i - 1]
    BY ONLY <2>3, SubSeqProperties
  <2>5. m - 1 + 1 = m /\ (IF 1 <= m THEN m ELSE 0) = m /\ \A i \in 1..m : 1 + i - 1 = i
    OBVIOUS
  <2>6. /\ SubSeq(p, 1, m) \in Seq(S) /\ Len(SubSeq(p, 1, m)) = m
        /\ \A i \in 1..m : SubSeq(p, 1, m)[i] = p[i]
    BY ONLY <2>4, <2>5
  <2> QED BY <2>1, <2>2, <2>6
<1>3. /\ Rest(p) \in Seq(S) /\ Len(Rest(p)) = n - 1
      /\ \A i \in 1..(n - 1) : Rest(p)[i] = p[i + 1]
  <2>1. PICK t : t = Rest(p)
    OBVIOUS
  <2>2. t \in Seq(S) /\ Len(t) = Len(p) - 1 /\ \A i \in 1..Len(t) : t[i] = p[i + 1]
    BY ONLY p \in Seq(S), <1>1, <2>1, HeadTailProperties DEF Rest
  <2> QED BY <2>1, <2>2
<1> QED BY <1>2, <1>3

LEMMA NoneLeft ==
  ASSUME NEW S, NEW s \in Seq(S)
  PROVE  s = <<>> <=> Len(s) = 0
  BY EmptySeq

LEMMA RouteFacts ==
  ASSUME NEW p \in Path
  PROVE  /\ Route(p) \in Store
         /\ p \in Seq(Nat) /\ p # <<>> /\ Len(p) \in Nat \ {0}
         /\ Route(p) = Native => Inner(p) = p /\ ~IsRoot(p)
         /\ Route(p) # Native => p[1] = Route(p) /\ Inner(p) = Rest(p)
  BY FederationAssumption, EmptySeq DEF Route, Inner, Store, IsRoot, Rest

\* What a client calls a namespace is known from the catalog and its name there.
LEMMA SamePath ==
  ASSUME NEW p \in Path, NEW q \in Path, Route(p) = Route(q), Inner(p) = Inner(q)
  PROVE  p = q
<1>1. CASE Route(p) = Native
  BY <1>1, RouteFacts
<1>2. CASE Route(p) # Native
  <2>1. p[1] = q[1] /\ Rest(p) = Rest(q)
    BY <1>2, RouteFacts
  <2>2. p \in Seq(Nat) /\ q \in Seq(Nat) /\ p # <<>> /\ q # <<>>
    BY RouteFacts
  <2>3. PICK m \in Nat \ {0}, n \in Nat \ {0} : Len(p) = m /\ Len(q) = n
    BY RouteFacts
  <2>4. /\ Len(Rest(p)) = m - 1 /\ \A i \in 1..(m - 1) : Rest(p)[i] = p[i + 1]
        /\ Len(Rest(q)) = n - 1 /\ \A i \in 1..(n - 1) : Rest(q)[i] = q[i + 1]
    BY <2>2, <2>3, FrontFacts
  <2>5. m = n
    BY <2>1, <2>4
  <2>6. ASSUME NEW i \in 1..m PROVE p[i] = q[i]
    <3>1. CASE i = 1
      BY <2>1, <3>1
    <3>2. CASE i # 1
      <4>1. i - 1 \in 1..(m - 1) /\ (i - 1) + 1 = i
        BY <3>2
      <4> QED BY <2>1, <2>4, <2>5, <4>1
    <3> QED BY <3>1, <3>2
  <2> QED BY <2>2, <2>3, <2>5, <2>6, SeqEqual
<1> QED BY <1>1, <1>2

LEMMA OwnFacts ==
  ASSUME NEW p \in Path
  PROVE  ~IsRoot(p) => Inner(p) \in OwnPath
  BY RouteFacts DEF OwnPath, IsRoot

LEMMA IdentFacts ==
  ASSUME NEW t \in Ident
  PROVE  /\ t[1] \in Path /\ t = <<t[1], t[2]>>
         /\ InnerIdent(t) \in OwnIdent /\ InnerIdent(t)[1] = Inner(t[1])
         /\ InnerIdent(t)[2] = t[2]
  BY FederationAssumption DEF OwnIdent, InnerIdent

LEMMA SameIdent ==
  ASSUME NEW t \in Ident, NEW u \in Ident, Route(t[1]) = Route(u[1]),
         InnerIdent(t) = InnerIdent(u)
  PROVE  t = u
<1>1. Inner(t[1]) = Inner(u[1]) /\ t[2] = u[2]
  BY DEF InnerIdent
<1>2. t[1] = u[1]
  BY <1>1, SamePath, IdentFacts
<1> QED BY <1>1, <1>2, IdentFacts

\* The namespace a namespace is in is its catalog's, or the mount itself.
LEMMA TailOfFront ==
  ASSUME NEW S, NEW p \in Seq(S), NEW n \in Nat, Len(p) = n, n > 1
  PROVE  /\ Rest(Front(p)) \in Seq(S) /\ Len(Rest(Front(p))) = n - 2
         /\ n > 2 => Front(Rest(p)) = Rest(Front(p))
<1>1. n \in Nat \ {0} /\ n - 1 \in Nat \ {0} /\ (n - 1) - 1 = n - 2
  OBVIOUS
<1>2. /\ Front(p) \in Seq(S) /\ Len(Front(p)) = n - 1
      /\ \A i \in 1..(n - 1) : Front(p)[i] = p[i]
      /\ Rest(p) \in Seq(S) /\ Len(Rest(p)) = n - 1
      /\ \A i \in 1..(n - 1) : Rest(p)[i] = p[i + 1]
  BY <1>1, FrontFacts
<1>3. PICK m \in Nat \ {0} : m = n - 1
  BY <1>1
<1>4. /\ Front(Rest(p)) \in Seq(S) /\ Len(Front(Rest(p))) = m - 1
      /\ \A i \in 1..(m - 1) : Front(Rest(p))[i] = Rest(p)[i]
      /\ Rest(Front(p)) \in Seq(S) /\ Len(Rest(Front(p))) = m - 1
      /\ \A i \in 1..(m - 1) : Rest(Front(p))[i] = Front(p)[i + 1]
  <2>1. PICK r \in Seq(S), f \in Seq(S) : r = Rest(p) /\ f = Front(p)
    BY <1>2
  <2>2. Len(r) = m /\ Len(f) = m
    BY <1>2, <1>3, <2>1
  <2>3. /\ Front(r) \in Seq(S) /\ Len(Front(r)) = m - 1
        /\ \A i \in 1..(m - 1) : Front(r)[i] = r[i]
    BY ONLY <2>2, m \in Nat \ {0}, r \in Seq(S), FrontFacts
  <2>4. /\ Rest(f) \in Seq(S) /\ Len(Rest(f)) = m - 1
        /\ \A i \in 1..(m - 1) : Rest(f)[i] = f[i + 1]
    BY ONLY <2>2, m \in Nat \ {0}, f \in Seq(S), FrontFacts
  <2> QED BY <2>1, <2>3, <2>4
<1>5. \A i \in 1..(m - 1) : Front(Rest(p))[i] = Rest(Front(p))[i]
  <2> TAKE i \in 1..(m - 1)
  <2>1. i \in 1..(n - 1) /\ i + 1 \in 1..(n - 1)
    BY <1>3
  <2> QED BY <1>2, <1>4, <2>1
<1>6. Front(Rest(p)) = Rest(Front(p))
  BY <1>4, <1>5, SeqEqual
<1> QED BY <1>1, <1>3, <1>4, <1>6

LEMMA RouteOfFront ==
  ASSUME NEW p \in Path, NEW n \in Nat, Len(p) = n, n > 1
  PROVE  /\ Front(p) \in Path /\ Front(p)[1] = p[1]
         /\ Route(Front(p)) = Route(p)
<1>1. n \in Nat \ {0} /\ 1 \in 1..(n - 1) /\ p \in Seq(Nat) /\ p # <<>>
  BY RouteFacts
<1>2. Front(p)[1] = p[1]
  BY <1>1, FrontFacts
<1>3. Front(p) \in Path
  BY FederationAssumption
<1> QED BY <1>1, <1>2, <1>3, RouteFacts DEF Route

\* The namespace a namespace is in is its catalog's, or the mount itself.
LEMMA ParentFacts ==
  ASSUME NEW p \in Path, ~IsRoot(p)
  PROVE  /\ Len(p) = 1 => Len(Inner(p)) = 1
         /\ Len(p) > 1 =>
              /\ Front(p) \in Path /\ Route(Front(p)) = Route(p)
              /\ Len(Inner(p)) = 1 => IsRoot(Front(p))
              /\ Len(Inner(p)) # 1 => ~IsRoot(Front(p)) /\ Inner(Front(p)) = Front(Inner(p))
<1>0. PICK n \in Nat \ {0} : Len(p) = n
  BY RouteFacts
<1>1. /\ p \in Seq(Nat)
      /\ Front(p) \in Seq(Nat) /\ Len(Front(p)) = n - 1
      /\ \A i \in 1..(n - 1) : Front(p)[i] = p[i]
      /\ Rest(p) \in Seq(Nat) /\ Len(Rest(p)) = n - 1
  BY <1>0, RouteFacts, FrontFacts
<1>2. ASSUME n = 1 PROVE Len(Inner(p)) = 1
  <2>1. Rest(p) \in Seq(Nat) /\ Len(Rest(p)) = 0
    BY <1>1, <1>2
  <2>2. Rest(p) = <<>>
    BY <2>1, NoneLeft
  <2> QED BY <1>0, <1>2, <2>2, RouteFacts DEF IsRoot
<1>3. ASSUME n > 1
      PROVE  /\ Front(p) \in Path /\ Route(Front(p)) = Route(p)
             /\ Len(Inner(p)) = 1 => IsRoot(Front(p))
             /\ Len(Inner(p)) # 1 => ~IsRoot(Front(p)) /\ Inner(Front(p)) = Front(Inner(p))
  <2>1. Front(p) \in Path /\ Front(p)[1] = p[1]
    BY <1>0, <1>1, <1>3, FederationAssumption
  <2>2. Route(Front(p)) = Route(p)
    BY <2>1, RouteFacts DEF Route
  <2>3. CASE Route(p) = Native
    <3>1. Inner(p) = p /\ Inner(Front(p)) = Front(p)
      BY <2>1, <2>2, <2>3, RouteFacts
    <3>2. Len(Inner(p)) # 1
      BY <1>0, <1>3, <3>1
    <3>3. ~IsRoot(Front(p))
      BY <2>1, <2>2, <2>3, RouteFacts
    <3> QED BY <2>1, <2>2, <3>1, <3>2, <3>3
  <2>4. CASE Route(p) # Native
    <3>1. Inner(p) = Rest(p) /\ Inner(Front(p)) = Rest(Front(p))
      BY <2>1, <2>2, <2>4, RouteFacts
    <3>2. /\ Rest(Front(p)) \in Seq(Nat) /\ Len(Rest(Front(p))) = n - 2
          /\ n > 2 => Front(Rest(p)) = Rest(Front(p))
      BY <1>0, <1>1, <1>3, TailOfFront
    <3>3. PICK t : t = Rest(Front(p))
      OBVIOUS
    <3>4. t = <<>> <=> n = 2
      <4>1. t = <<>> <=> Len(t) = 0
        BY ONLY <3>2, <3>3, NoneLeft
      <4> QED BY <3>2, <3>3, <4>1
    <3>5. Len(Inner(p)) = 1 <=> n = 2
      <4>1. Len(Inner(p)) = n - 1
        BY <1>1, <3>1
      <4> QED BY <4>1
    <3> QED BY <1>3, <2>1, <2>2, <2>4, <3>1, <3>2, <3>3, <3>4, <3>5 DEF IsRoot
  <2> QED BY <2>3, <2>4
<1> QED BY <1>0, <1>2, <1>3

-----------------------------------------------------------------------------
(* What the stores hold, by the names clients give                         *)

Pointers == [Store -> [OwnIdent -> Pointer \cup {None}]]

StoreTypes ==
  /\ spaces \in [Store -> SUBSET OwnPath]
  /\ tables \in Pointers /\ views \in Pointers /\ staged \in Pointers
  /\ known \subseteq {"table", "view", "staged"} \X Pointer
  /\ writes \in Nat

\* The pointers there have been are files that have been written.
KnownWritten ==
  \A k \in known : /\ k[2] # <<>>
                   /\ \A n \in Nat : k[2][Len(k[2])] = <<n>> => n <= writes

StagingsKnown ==
  \A s \in Store, i \in OwnIdent :
    staged[s][i] # None => \E k \in known : k[1] = "staged" /\ k[2] = staged[s][i]

\* A mount's root holds no table and no view of its own.
NoneAtRoots ==
  \A s \in Store, i \in OwnIdent :
    tables[s][i] # None \/ views[s][i] # None => i[1] # <<>>

StoresInv == StoreTypes /\ KnownWritten /\ StagingsKnown /\ NoneAtRoots

LEMMA NextFacts ==
  ASSUME NEW on \in Pointer, writes \in Nat
  PROVE  /\ NextFile(on) \in Pointer /\ NextFile(on) # <<>> /\ NextFile(on) # None
         /\ Len(NextFile(on)) = Len(on) + 1 /\ NextFile(on)[Len(NextFile(on))] = <<writes + 1>>
         /\ SubSeq(NextFile(on), 1, Len(on)) = on
<1> DEFINE Write == Ident \cup Seq(Nat)
           w == <<writes + 1>>
<1>1. w \in Write /\ on \in Seq(Write) /\ NextFile(on) = Append(on, w)
  BY DEF Pointer, NextFile
<1> HIDE DEF Write, w
<1>2. PICK n \in Nat : Len(on) = n
  BY <1>1, LenProperties
<1>3. /\ Append(on, w) \in Seq(Write) /\ Len(Append(on, w)) = n + 1
      /\ \A i \in 1..n : Append(on, w)[i] = on[i]
      /\ Append(on, w)[n + 1] = w /\ Append(on, w) # <<>>
  BY <1>1, <1>2, AppendProperties
<1>4. SubSeq(Append(on, w), 1, n) = on
  <2>1. PICK f : f = Append(on, w)
    OBVIOUS
  <2>2. f \in Seq(Write) /\ \A i \in 1..n : f[i] \in Write
    BY <1>3, <2>1, ElementOfSeq
  <2>3. 1 \in Int /\ n \in Int
    OBVIOUS
  <2>4. /\ SubSeq(f, 1, n) \in Seq(Write) /\ Len(SubSeq(f, 1, n)) = IF 1 <= n THEN n - 1 + 1 ELSE 0
        /\ \A i \in 1..(n - 1 + 1) : SubSeq(f, 1, n)[i] = f[1 + i - 1]
    BY ONLY <2>2, <2>3, SubSeqProperties
  <2>5. n - 1 + 1 = n /\ (IF 1 <= n THEN n ELSE 0) = n /\ \A i \in 1..n : 1 + i - 1 = i
    OBVIOUS
  <2>6. /\ SubSeq(f, 1, n) \in Seq(Write) /\ Len(SubSeq(f, 1, n)) = n
        /\ \A i \in 1..n : SubSeq(f, 1, n)[i] = f[i]
    BY ONLY <2>4, <2>5
  <2>7. \A i \in 1..n : SubSeq(f, 1, n)[i] = on[i]
    BY <1>3, <2>1, <2>6
  <2> QED BY <1>1, <1>2, <2>1, <2>6, <2>7, SeqEqual
<1> QED BY <1>1, <1>2, <1>3, <1>4, PointerAssumption DEF w, Write, Pointer

\* A file that has just been written is nobody's.
LEMMA NextIsFresh ==
  ASSUME StoresInv, NEW on \in Pointer
  PROVE  Catalog!Fresh(NextFile(on))
<1>1. writes \in Nat
  BY DEF StoresInv, StoreTypes
<1>2. NextFile(on)[Len(NextFile(on))] = <<writes + 1>>
  BY <1>1, NextFacts
<1>3. ASSUME NEW k \in known, k[2] = NextFile(on) PROVE FALSE
  <2>1. k[2][Len(k[2])] = <<writes + 1>>
    BY <1>2, <1>3
  <2>2. writes + 1 <= writes
    BY <1>1, <2>1 DEF StoresInv, KnownWritten
  <2> QED BY <1>1, <2>2
<1> QED BY <1>3 DEF Catalog!Fresh

LEMMA MergedFacts ==
  ASSUME NEW at
  PROVE  /\ DOMAIN Merged(at) = Ident /\ Merged(at) = [t \in Ident |-> Merged(at)[t]]
         /\ \A t \in Ident : Merged(at)[t] = IF IsRoot(t[1]) THEN None
                                             ELSE at[Route(t[1])][InnerIdent(t)]
  BY DEF Merged

\* To set an entry of a store is to set that of its name.
EntrySet(at, t, v) == [at EXCEPT ![Route(t[1])][InnerIdent(t)] = v]

LEMMA MergedSet ==
  ASSUME NEW at \in Pointers, NEW v \in Pointer \cup {None}, NEW t \in Ident, ~IsRoot(t[1])
  PROVE  /\ Merged(EntrySet(at, t, v)) = [Merged(at) EXCEPT ![t] = v]
         /\ Merged(EntrySet(at, t, v))[t] = v
         /\ EntrySet(at, t, v) \in Pointers
         /\ \A s \in Store, i \in OwnIdent :
              EntrySet(at, t, v)[s][i] # None /\ i[1] = <<>> => at[s][i] # None
<1> DEFINE at2 == EntrySet(at, t, v)
<1>1. /\ Route(t[1]) \in Store /\ InnerIdent(t) \in OwnIdent /\ InnerIdent(t)[1] # <<>>
  BY IdentFacts, RouteFacts DEF IsRoot
<1>2. /\ \A s \in Store, i \in OwnIdent : at2[s][i] =
           IF s = Route(t[1]) /\ i = InnerIdent(t) THEN v ELSE at[s][i]
      /\ at2 \in Pointers
  BY <1>1 DEF EntrySet, Pointers
<1> HIDE DEF at2
<1>3. ASSUME NEW u \in Ident PROVE Merged(at2)[u] = IF u = t THEN v ELSE Merged(at)[u]
  <2>1. Route(u[1]) \in Store /\ InnerIdent(u) \in OwnIdent
    BY IdentFacts, RouteFacts
  <2>2. Route(u[1]) = Route(t[1]) /\ InnerIdent(u) = InnerIdent(t) => u = t
    BY SameIdent
  <2>3. /\ Merged(at2)[u] = IF IsRoot(u[1]) THEN None ELSE at2[Route(u[1])][InnerIdent(u)]
        /\ Merged(at)[u] = IF IsRoot(u[1]) THEN None ELSE at[Route(u[1])][InnerIdent(u)]
    BY MergedFacts
  <2>4. at2[Route(u[1])][InnerIdent(u)] =
          IF u = t THEN v ELSE at[Route(u[1])][InnerIdent(u)]
    BY <1>2, <2>1, <2>2
  <2> QED BY <2>3, <2>4
<1>4. Merged(at2) = [u \in Ident |-> IF u = t THEN v ELSE Merged(at)[u]]
  <2>1. DOMAIN Merged(at2) = Ident /\ Merged(at2) = [u \in Ident |-> Merged(at2)[u]]
    BY MergedFacts
  <2> QED BY <1>3, <2>1
<1>5. [Merged(at) EXCEPT ![t] = v] = [u \in Ident |-> IF u = t THEN v ELSE Merged(at)[u]]
  <2>1. DOMAIN Merged(at) = Ident
    BY MergedFacts
  <2> QED BY <2>1
<1>6. ASSUME NEW s \in Store, NEW i \in OwnIdent, at2[s][i] # None, i[1] = <<>>
      PROVE  at[s][i] # None
  BY <1>1, <1>2, <1>6
<1> QED BY <1>2, <1>3, <1>4, <1>5, <1>6 DEF at2

Spaces(sp) == {q \in Path : IsRoot(q) \/ Inner(q) \in sp[Route(q)]}

LEMMA SpaceCreated ==
  ASSUME StoresInv, NEW p \in Path, ~IsRoot(p), CreateSpaceIn(Route(p), Inner(p))
  PROVE  Catalog!AbsCreateNamespace(p) /\ StoresInv'
<1>1. Route(p) \in Store /\ Inner(p) \in OwnPath
  BY RouteFacts, OwnFacts
<1>2. /\ spaces \in [Store -> SUBSET OwnPath]
      /\ Inner(p) \notin spaces[Route(p)] /\ HasParent(Route(p), Inner(p))
      /\ spaces' = [spaces EXCEPT ![Route(p)] = @ \cup {Inner(p)}]
      /\ UNCHANGED <<tables, views, staged, known, writes>>
  BY DEF CreateSpaceIn, StoresInv, StoreTypes
<1>3. /\ spaces' \in [Store -> SUBSET OwnPath]
      /\ \A s \in Store : spaces'[s] = IF s = Route(p) THEN spaces[s] \cup {Inner(p)} ELSE spaces[s]
  BY <1>1, <1>2
<1>4. Spaces(spaces') = Spaces(spaces) \cup {p}
  <2>1. ASSUME NEW q \in Path PROVE q \in Spaces(spaces') <=> q \in Spaces(spaces) \/ q = p
    <3>1. Route(q) \in Store /\ (Route(q) = Route(p) /\ Inner(q) = Inner(p) => q = p)
      BY RouteFacts, SamePath
    <3> QED BY <1>3, <3>1 DEF Spaces
  <2> QED BY <2>1 DEF Spaces
<1>5. p \notin Spaces(spaces)
  BY <1>2 DEF Spaces
<1>6. AsWritten(p) # None => AsWritten(p) \in Spaces(spaces)
  <2>1. PICK n \in Nat \ {0} : Len(p) = n
    BY RouteFacts
  <2>2. CASE n = 1
    BY <2>1, <2>2 DEF AsWritten
  <2>3. CASE n # 1
    <3>1. n > 1 /\ AsWritten(p) = Front(p)
      BY <2>1, <2>3 DEF AsWritten
    <3>2. /\ Front(p) \in Path /\ Route(Front(p)) = Route(p)
          /\ Len(Inner(p)) = 1 => IsRoot(Front(p))
          /\ Len(Inner(p)) # 1 => ~IsRoot(Front(p)) /\ Inner(Front(p)) = Front(Inner(p))
      BY <2>1, <3>1, ParentFacts
    <3>3. Len(Inner(p)) # 1 => Front(Inner(p)) \in spaces[Route(p)]
      BY <1>2 DEF HasParent
    <3> QED BY <3>1, <3>2, <3>3 DEF Spaces
  <2> QED BY <2>2, <2>3
<1>7. Catalog!AbsCreateNamespace(p)
  BY <1>2, <1>4, <1>5, <1>6 DEF Catalog!AbsCreateNamespace, Spaces, Merged
<1>8. StoresInv'
  BY <1>2, <1>3 DEF StoresInv, StoreTypes, KnownWritten, StagingsKnown, NoneAtRoots
<1> QED BY <1>7, <1>8

\* The index of names has no end the scans stop at (redb.rs:516 has one).
WholeScans == PastEnd = {}

LEMMA SpaceDropped ==
  ASSUME StoresInv, WholeScans, NEW p \in Path, ~IsRoot(p), DropSpaceIn(Route(p), Inner(p))
  PROVE  Catalog!AbsDropNamespace(p) /\ StoresInv'
<1>1. Route(p) \in Store /\ Inner(p) \in OwnPath
  BY RouteFacts, OwnFacts
<1>2. /\ spaces \in [Store -> SUBSET OwnPath]
      /\ Inner(p) \in spaces[Route(p)]
      /\ \A i \in OwnIdent : i[1] = Inner(p) => Free(Route(p), i)
      /\ \A q \in spaces[Route(p)] : Len(q) > 1 => Front(q) # Inner(p)
      /\ spaces' = [spaces EXCEPT ![Route(p)] = @ \ {Inner(p)}]
      /\ staged' = [staged EXCEPT ![Route(p)] =
           [i \in OwnIdent |-> IF i[1] = Inner(p) THEN None ELSE staged[Route(p)][i]]]
      /\ UNCHANGED <<tables, views, known, writes>>
  BY DEF DropSpaceIn, StoresInv, StoreTypes, WholeScans, InScan
<1>3. /\ spaces' \in [Store -> SUBSET OwnPath]
      /\ \A s \in Store : spaces'[s] = IF s = Route(p) THEN spaces[s] \ {Inner(p)} ELSE spaces[s]
  BY <1>1, <1>2
<1>4. /\ staged' \in Pointers
      /\ \A s \in Store, i \in OwnIdent :
           staged'[s][i] = IF s = Route(p) /\ i[1] = Inner(p) THEN None ELSE staged[s][i]
  BY <1>1, <1>2 DEF StoresInv, StoreTypes, Pointers
<1>5. Spaces(spaces') = Spaces(spaces) \ {p} /\ p \in Spaces(spaces)
  <2>1. ASSUME NEW q \in Path PROVE q \in Spaces(spaces') <=> q \in Spaces(spaces) /\ q # p
    <3>1. Route(q) \in Store /\ (Route(q) = Route(p) /\ Inner(q) = Inner(p) => q = p)
      BY RouteFacts, SamePath
    <3> QED BY <1>3, <3>1 DEF Spaces
  <2> QED BY <1>2, <2>1 DEF Spaces
<1>6. ASSUME NEW t \in Ident, t[1] = p PROVE Merged(tables)[t] = None /\ Merged(views)[t] = None
  <2>1. InnerIdent(t) \in OwnIdent /\ InnerIdent(t)[1] = Inner(p)
    BY <1>6, IdentFacts
  <2>2. tables[Route(p)][InnerIdent(t)] = None /\ views[Route(p)][InnerIdent(t)] = None
    BY <1>2, <2>1 DEF Free
  <2> QED BY <1>6, <2>2, MergedFacts
<1>7. ASSUME NEW q \in Spaces(spaces), AsWritten(q) = p PROVE FALSE
  <2>1. q \in Path /\ p # None
    BY FederationAssumption DEF Spaces
  <2>2. PICK n \in Nat \ {0} : Len(q) = n
    BY <2>1, RouteFacts
  <2>3. n > 1 /\ Front(q) = p
    BY <1>7, <2>1, <2>2 DEF AsWritten
  <2>4. ~IsRoot(q)
    <3>1. Route(Front(q)) = Route(q)
      BY <2>1, <2>2, <2>3, RouteOfFront
    <3>2. ASSUME IsRoot(q) PROVE FALSE
      <4>1. Route(q) # Native /\ Inner(q) = Rest(q) /\ Inner(q) = <<>> /\ q \in Seq(Nat)
        BY <2>1, <3>2, RouteFacts DEF IsRoot
      <4>2. Len(Rest(q)) = n - 1
        BY <2>2, <4>1, FrontFacts
      <4>3. Len(Rest(q)) = 0
        BY <4>1, EmptySeq
      <4> QED BY <2>3, <4>2, <4>3
    <3> QED BY <3>2
  <2>5. /\ Route(p) = Route(q) /\ (Len(Inner(q)) # 1 => Front(Inner(q)) = Inner(p))
        /\ Len(Inner(q)) = 1 => IsRoot(p)
    BY <2>1, <2>2, <2>3, <2>4, ParentFacts
  <2>6. Inner(q) \in spaces[Route(p)] /\ Inner(q) \in Seq(Nat) /\ Inner(q) # <<>>
    <3>1. Inner(q) \in spaces[Route(p)]
      BY <1>7, <2>4, <2>5 DEF Spaces
    <3>2. Inner(q) \in Seq(Nat)
      <4>1. CASE Route(q) = Native
        BY <2>1, <4>1, RouteFacts
      <4>2. CASE Route(q) # Native
        BY <2>1, <2>2, <4>2, RouteFacts, FrontFacts
      <4> QED BY <4>1, <4>2
    <3>3. Inner(q) # <<>>
      BY <1>1, <1>2, <2>1, <2>4, OwnFacts DEF OwnPath
    <3> QED BY <3>1, <3>2, <3>3
  <2>7. PICK m \in Nat \ {0} : Len(Inner(q)) = m
    BY <2>6, EmptySeq
  <2>8. m > 1
    BY <2>5, <2>7
  <2> QED BY <1>2, <2>5, <2>6, <2>7, <2>8
<1>8. Merged(staged') = [t \in Ident |-> IF t[1] = p THEN None ELSE Merged(staged)[t]]
  <2>1. ASSUME NEW t \in Ident
        PROVE  Merged(staged')[t] = IF t[1] = p THEN None ELSE Merged(staged)[t]
    <3>1. /\ t[1] \in Path /\ Route(t[1]) \in Store /\ InnerIdent(t) \in OwnIdent
          /\ InnerIdent(t)[1] = Inner(t[1])
      BY IdentFacts, RouteFacts
    <3>2. Route(t[1]) = Route(p) /\ Inner(t[1]) = Inner(p) => t[1] = p
      BY <3>1, SamePath
    <3>3. staged'[Route(t[1])][InnerIdent(t)] =
            IF t[1] = p THEN None ELSE staged[Route(t[1])][InnerIdent(t)]
      BY <1>4, <3>1, <3>2
    <3>4. /\ Merged(staged')[t] = IF IsRoot(t[1]) THEN None ELSE staged'[Route(t[1])][InnerIdent(t)]
          /\ Merged(staged)[t] = IF IsRoot(t[1]) THEN None ELSE staged[Route(t[1])][InnerIdent(t)]
      BY MergedFacts
    <3> QED BY <3>3, <3>4
  <2>2. Merged(staged') = [t \in Ident |-> Merged(staged')[t]]
    BY MergedFacts
  <2> QED BY <2>1, <2>2
<1>9. Catalog!AbsDropNamespace(p)
  BY <1>2, <1>5, <1>6, <1>7, <1>8 DEF Catalog!AbsDropNamespace, Catalog!NameFree, Spaces
<1>10. StoresInv'
  BY <1>2, <1>3, <1>4 DEF StoresInv, StoreTypes, KnownWritten, StagingsKnown, NoneAtRoots
<1> QED BY <1>9, <1>10

-----------------------------------------------------------------------------
(* Tables and views                                                        *)

LEMMA NameFacts ==
  ASSUME NEW t \in Ident, ~IsRoot(t[1])
  PROVE  /\ Route(t[1]) \in Store /\ InnerIdent(t) \in OwnIdent /\ InnerIdent(t)[1] # <<>>
         /\ \A at : Merged(at)[t] = at[Route(t[1])][InnerIdent(t)]
  BY IdentFacts, RouteFacts, MergedFacts DEF IsRoot

\* What keeps the invariant where nothing is staged.
LEMMA Kept ==
  ASSUME StoresInv, StoreTypes', KnownWritten', NoneAtRoots', staged' = staged, known \subseteq known'
  PROVE  StoresInv'
  BY DEF StoresInv, StagingsKnown

LEMMA SameSpaces ==
  ASSUME spaces' = spaces
  PROVE  {p \in Path : IsRoot(p) \/ Inner(p) \in spaces[Route(p)]}'
           = {p \in Path : IsRoot(p) \/ Inner(p) \in spaces[Route(p)]}
  BY DEF IsRoot, Inner, Route

\* A file written is one more that has been pointed at, and nobody's before.
LEMMA WrittenFacts ==
  ASSUME StoresInv, NEW kind \in {"table", "view", "staged"}, NEW on \in Pointer, Written(kind, on)
  PROVE  /\ writes' \in Nat /\ KnownWritten' /\ known \subseteq known'
         /\ known' = known \cup {<<kind, NextFile(on)>>}
         /\ known' \subseteq {"table", "view", "staged"} \X Pointer
         /\ NextFile(on) \in Pointer /\ NextFile(on) # None /\ Catalog!Fresh(NextFile(on))
         /\ Catalog!WrittenOn(NextFile(on), on)
<1>1. /\ NextFile(on) \in Pointer /\ NextFile(on) # <<>> /\ NextFile(on) # None
      /\ Len(NextFile(on)) = Len(on) + 1 /\ NextFile(on)[Len(NextFile(on))] = <<writes + 1>>
      /\ SubSeq(NextFile(on), 1, Len(on)) = on
  BY NextFacts DEF StoresInv, StoreTypes
<1>2. Catalog!Fresh(NextFile(on))
  BY NextIsFresh
<1>3. /\ writes \in Nat /\ writes' = writes + 1 /\ known' = known \cup {<<kind, NextFile(on)>>}
  BY DEF Written, StoresInv, StoreTypes
<1>4. ASSUME NEW k \in known'
      PROVE  /\ k[2] # <<>>
             /\ \A n \in Nat : k[2][Len(k[2])] = <<n>> => n <= writes'
  <2>1. CASE k \in known
    BY <1>3, <2>1 DEF StoresInv, KnownWritten
  <2>2. CASE k = <<kind, NextFile(on)>>
    <3>1. k[2] = NextFile(on) /\ k[2][Len(k[2])] = <<writes + 1>>
      BY <1>1, <2>2
    <3>2. ASSUME NEW n \in Nat, k[2][Len(k[2])] = <<n>> PROVE n = writes + 1
      BY <3>1, <3>2
    <3> QED BY <1>1, <1>3, <3>1, <3>2
  <2> QED BY <1>3, <2>1, <2>2
<1>5. KnownWritten'
  BY <1>4 DEF KnownWritten
<1>6. Catalog!WrittenOn(NextFile(on), on)
  BY <1>1 DEF Catalog!WrittenOn
<1>7. known' \subseteq {"table", "view", "staged"} \X Pointer
  BY <1>1, <1>3 DEF StoresInv, StoreTypes
<1> QED BY <1>1, <1>2, <1>3, <1>5, <1>6, <1>7

\* One table's entry changes, and no view's; or the other way around.
LEMMA TableSet ==
  ASSUME StoresInv, NEW t \in Ident, ~IsRoot(t[1]), NEW v \in Pointer \cup {None},
         tables' = EntrySet(tables, t, v), views' = views
  PROVE  /\ Merged(tables)' = [Merged(tables) EXCEPT ![t] = v] /\ Merged(tables)'[t] = v
         /\ tables' \in Pointers /\ NoneAtRoots'
<1>1. PICK at : at = tables'
  OBVIOUS
<1>2. /\ Merged(at) = [Merged(tables) EXCEPT ![t] = v] /\ Merged(at)[t] = v
      /\ at \in Pointers
      /\ \A s \in Store, i \in OwnIdent : at[s][i] # None /\ i[1] = <<>> => tables[s][i] # None
  BY <1>1, MergedSet DEF StoresInv, StoreTypes
<1>3. Merged(tables)' = Merged(at)
  BY <1>1 DEF Merged
<1> QED BY <1>1, <1>2, <1>3 DEF StoresInv, NoneAtRoots

LEMMA ViewSet ==
  ASSUME StoresInv, NEW t \in Ident, ~IsRoot(t[1]), NEW v \in Pointer \cup {None},
         views' = EntrySet(views, t, v), tables' = tables
  PROVE  /\ Merged(views)' = [Merged(views) EXCEPT ![t] = v] /\ Merged(views)'[t] = v
         /\ views' \in Pointers /\ NoneAtRoots'
<1>1. PICK at : at = views'
  OBVIOUS
<1>2. /\ Merged(at) = [Merged(views) EXCEPT ![t] = v] /\ Merged(at)[t] = v
      /\ at \in Pointers
      /\ \A s \in Store, i \in OwnIdent : at[s][i] # None /\ i[1] = <<>> => views[s][i] # None
  BY <1>1, MergedSet DEF StoresInv, StoreTypes
<1>3. Merged(views)' = Merged(at)
  BY <1>1 DEF Merged
<1> QED BY <1>1, <1>2, <1>3 DEF StoresInv, NoneAtRoots

\* What is not touched is as it was by the names clients give.
LEMMA SameRest ==
  /\ tables' = tables => Merged(tables)' = Merged(tables)
  /\ views' = views => Merged(views)' = Merged(views)
  /\ staged' = staged => Merged(staged)' = Merged(staged)
  BY DEF Merged

LEMMA FreeName ==
  ASSUME NEW t \in Ident, ~IsRoot(t[1]), Free(Route(t[1]), InnerIdent(t))
  PROVE  Catalog!NameFree(t)
  BY NameFacts DEF Free, Catalog!NameFree

LEMMA TableCreated ==
  ASSUME StoresInv, NEW t \in Ident, ~IsRoot(t[1]), CreateTableIn(Route(t[1]), InnerIdent(t))
  PROVE  Catalog!AbsCreateTable(t, Merged(tables)'[t]) /\ StoresInv'
<1> DEFINE f == NextFile(<<>>)
<1>1. /\ Free(Route(t[1]), InnerIdent(t)) /\ Written("table", <<>>)
      /\ tables' = EntrySet(tables, t, f) /\ UNCHANGED <<spaces, views, staged>>
  BY DEF CreateTableIn, EntrySet
<1>2. <<>> \in Pointer
  BY EmptySeq DEF Pointer
<1>3. /\ writes' \in Nat /\ KnownWritten' /\ known \subseteq known'
      /\ known' \subseteq {"table", "view", "staged"} \X Pointer
      /\ known' = known \cup {<<"table", f>>} /\ f \in Pointer /\ f # None /\ Catalog!Fresh(f)
  BY <1>1, <1>2, WrittenFacts
<1> HIDE DEF f
<1>4. /\ Merged(tables)' = [Merged(tables) EXCEPT ![t] = f] /\ Merged(tables)'[t] = f
      /\ tables' \in Pointers /\ NoneAtRoots'
  BY <1>1, <1>3, TableSet
<1>5. Catalog!AbsCreateTable(t, Merged(tables)'[t])
  BY <1>1, <1>3, <1>4, FreeName, SameSpaces, SameRest DEF Catalog!AbsCreateTable
<1>6. StoreTypes'
  BY <1>1, <1>3, <1>4 DEF StoresInv, StoreTypes
<1> QED BY <1>1, <1>3, <1>4, <1>5, <1>6, Kept

LEMMA TableRegistered ==
  ASSUME StoresInv, NEW t \in Ident, RegisterTable(t)
  PROVE  Catalog!AbsCreateTable(t, Merged(tables)'[t]) /\ StoresInv'
<1>1. /\ ~IsRoot(t[1]) /\ Free(Route(t[1]), InnerIdent(t))
      /\ UNCHANGED <<spaces, views, staged, known, writes>>
  BY DEF RegisterTable
<1>2. PICK k \in known : k[1] = "table" /\ tables' = EntrySet(tables, t, k[2])
  BY DEF RegisterTable, EntrySet
<1>3. k[2] \in Pointer /\ k[2] # None /\ <<"table", k[2]>> \in known
  BY <1>2, PointerAssumption DEF StoresInv, StoreTypes
<1>4. /\ Merged(tables)' = [Merged(tables) EXCEPT ![t] = k[2]] /\ Merged(tables)'[t] = k[2]
      /\ tables' \in Pointers /\ NoneAtRoots'
  BY <1>1, <1>2, <1>3, TableSet
<1>5. known' = known \cup {<<"table", k[2]>>}
  BY <1>1, <1>3
<1>6. Catalog!AbsCreateTable(t, Merged(tables)'[t])
  BY <1>1, <1>3, <1>4, <1>5, FreeName, SameSpaces, SameRest DEF Catalog!AbsCreateTable
<1>7. StoreTypes' /\ KnownWritten'
  BY <1>1, <1>4 DEF StoresInv, StoreTypes, KnownWritten
<1> QED BY <1>1, <1>4, <1>6, <1>7, Kept

LEMMA TableDropped ==
  ASSUME StoresInv, NEW t \in Ident, ~IsRoot(t[1]), DropTableIn(Route(t[1]), InnerIdent(t))
  PROVE  Catalog!AbsDropTable(t) /\ StoresInv'
<1>1. /\ Merged(tables)[t] # None /\ tables' = EntrySet(tables, t, None)
      /\ UNCHANGED <<spaces, views, staged, known, writes>>
  BY NameFacts DEF DropTableIn, EntrySet
<1>2. /\ Merged(tables)' = [Merged(tables) EXCEPT ![t] = None]
      /\ tables' \in Pointers /\ NoneAtRoots'
  BY <1>1, TableSet
<1>3. Catalog!AbsDropTable(t)
  BY <1>1, <1>2, SameSpaces, SameRest DEF Catalog!AbsDropTable
<1>4. StoreTypes' /\ KnownWritten'
  BY <1>1, <1>2 DEF StoresInv, StoreTypes, KnownWritten
<1> QED BY <1>1, <1>2, <1>3, <1>4, Kept

\* A table and a view are renamed alike: one entry is set, then another.
Moved(at, t, u, v) == EntrySet(EntrySet(at, u, v), t, None)

Renaming(at, t, u, v) == [at EXCEPT ![u] = v, ![t] = None]

LEMMA Renamed ==
  ASSUME NEW at \in Pointers, NEW t \in Ident, NEW u \in Ident, ~IsRoot(t[1]), ~IsRoot(u[1]),
         NEW v, v = Merged(at)[t]
  PROVE  /\ Merged(Moved(at, t, u, v)) = Renaming(Merged(at), t, u, v)
         /\ Moved(at, t, u, v) \in Pointers
         /\ \A s \in Store, i \in OwnIdent :
              Moved(at, t, u, v)[s][i] # None /\ i[1] = <<>> => at[s][i] # None
<1>1. v \in Pointer \cup {None} /\ None \in Pointer \cup {None}
  <2>1. v = at[Route(t[1])][InnerIdent(t)]
    BY NameFacts
  <2> QED BY <2>1, NameFacts DEF Pointers
<1>2. PICK at2 \in Pointers :
        /\ at2 = EntrySet(at, u, v) /\ Merged(at2) = [Merged(at) EXCEPT ![u] = v]
        /\ \A s \in Store, i \in OwnIdent : at2[s][i] # None /\ i[1] = <<>> => at[s][i] # None
  <2>1. PICK w \in Pointer \cup {None} : w = v
    BY <1>1
  <2>2. /\ Merged(EntrySet(at, u, w)) = [Merged(at) EXCEPT ![u] = w]
        /\ EntrySet(at, u, w) \in Pointers
        /\ \A s \in Store, i \in OwnIdent :
             EntrySet(at, u, w)[s][i] # None /\ i[1] = <<>> => at[s][i] # None
    BY ONLY at \in Pointers, u \in Ident, ~IsRoot(u[1]), w \in Pointer \cup {None}, MergedSet
  <2> QED BY <2>1, <2>2
<1>3. PICK nil \in Pointer \cup {None} : nil = None
  BY <1>1
<1>4. /\ Merged(EntrySet(at2, t, nil)) = [Merged(at2) EXCEPT ![t] = nil]
      /\ EntrySet(at2, t, nil) \in Pointers
      /\ \A s \in Store, i \in OwnIdent :
           EntrySet(at2, t, nil)[s][i] # None /\ i[1] = <<>> => at2[s][i] # None
  BY ONLY t \in Ident, ~IsRoot(t[1]), at2 \in Pointers, nil \in Pointer \cup {None}, MergedSet
<1>5. PICK at3 \in Pointers :
        /\ at3 = EntrySet(at2, t, nil) /\ Merged(at3) = [Merged(at2) EXCEPT ![t] = nil]
        /\ \A s \in Store, i \in OwnIdent : at3[s][i] # None /\ i[1] = <<>> => at2[s][i] # None
  BY <1>4
<1>6. at3 = Moved(at, t, u, v)
  BY <1>2, <1>3, <1>5 DEF Moved
<1>7. Merged(at3) = Renaming(Merged(at), t, u, v)
  BY <1>2, <1>3, <1>5 DEF Renaming
<1>8. \A s \in Store, i \in OwnIdent : at3[s][i] # None /\ i[1] = <<>> => at[s][i] # None
  BY <1>2, <1>5
<1> QED BY <1>5, <1>6, <1>7, <1>8

LEMMA TableRenamed ==
  ASSUME StoresInv, NEW t \in Ident, NEW u \in Ident, RenameTable(t, u)
  PROVE  Catalog!AbsRenameTable(t, u) /\ StoresInv'
<1> DEFINE v == Merged(tables)[t]
<1>1. /\ ~IsRoot(t[1]) /\ ~IsRoot(u[1]) /\ Route(u[1]) = Route(t[1])
      /\ Free(Route(u[1]), InnerIdent(u)) /\ tables[Route(t[1])][InnerIdent(t)] # None
      /\ tables' = [tables EXCEPT ![Route(t[1])][InnerIdent(u)] = tables[Route(t[1])][InnerIdent(t)],
                                  ![Route(t[1])][InnerIdent(t)] = None]
      /\ UNCHANGED <<spaces, views, staged, known, writes>>
  BY DEF RenameTable, SameCatalog
<1>2. v # None /\ tables[Route(t[1])][InnerIdent(t)] = v
  BY <1>1, NameFacts
<1> HIDE DEF v
<1>3. tables' = Moved(tables, t, u, v)
  BY <1>1, <1>2 DEF EntrySet, Moved
<1>4. /\ Merged(Moved(tables, t, u, v)) = Renaming(Merged(tables), t, u, v)
      /\ Moved(tables, t, u, v) \in Pointers
      /\ \A s \in Store, i \in OwnIdent :
           Moved(tables, t, u, v)[s][i] # None /\ i[1] = <<>> => tables[s][i] # None
  <2>1. v = Merged(tables)[t] /\ tables \in Pointers
    BY DEF v, StoresInv, StoreTypes
  <2>2. ~IsRoot(t[1]) /\ ~IsRoot(u[1])
    BY <1>1
  <2> QED BY ONLY <2>1, <2>2, t \in Ident, u \in Ident, Renamed
<1>5. PICK at : at = tables'
  OBVIOUS
<1>6. Merged(at) = Renaming(Merged(tables), t, u, v) /\ at \in Pointers
      /\ \A s \in Store, i \in OwnIdent : at[s][i] # None /\ i[1] = <<>> => tables[s][i] # None
  BY <1>3, <1>4, <1>5
<1>7. Merged(tables)' = Renaming(Merged(tables), t, u, v)
  BY <1>5, <1>6 DEF Merged
<1>8. Catalog!AbsRenameTable(t, u)
  BY <1>1, <1>2, <1>7, FreeName, SameSpaces, SameRest DEF Catalog!AbsRenameTable, Renaming, v
<1>9. StoreTypes' /\ KnownWritten' /\ NoneAtRoots'
  BY <1>1, <1>5, <1>6 DEF StoresInv, StoreTypes, KnownWritten, NoneAtRoots
<1> QED BY <1>1, <1>8, <1>9, Kept

\* One name's entry of a store changes and no other.
LEMMA EntryIs ==
  ASSUME NEW at \in Pointers, NEW v \in Pointer \cup {None}, NEW t \in Ident, ~IsRoot(t[1])
  PROVE  \A s \in Store, i \in OwnIdent : EntrySet(at, t, v)[s][i] =
           IF s = Route(t[1]) /\ i = InnerIdent(t) THEN v ELSE at[s][i]
<1>1. Route(t[1]) \in Store /\ InnerIdent(t) \in OwnIdent
  BY NameFacts
<1> QED BY <1>1 DEF EntrySet, Pointers

LEMMA TableStaged ==
  ASSUME StoresInv, NEW t \in Ident, StageCreateTable(t)
  PROVE  Catalog!AbsStage(t, Merged(staged)'[t]) /\ StoresInv'
<1> DEFINE f == NextFile(<<>>)
<1>1. /\ ~IsRoot(t[1]) /\ Written("staged", <<>>)
      /\ staged' = EntrySet(staged, t, f) /\ UNCHANGED <<spaces, tables, views>>
  BY DEF StageCreateTable, EntrySet
<1>2. <<>> \in Pointer
  BY EmptySeq DEF Pointer
<1>3. /\ writes' \in Nat /\ KnownWritten' /\ known \subseteq known'
      /\ known' \subseteq {"table", "view", "staged"} \X Pointer
      /\ known' = known \cup {<<"staged", f>>} /\ f \in Pointer /\ f # None /\ Catalog!Fresh(f)
  BY <1>1, <1>2, WrittenFacts
<1> HIDE DEF f
<1>4. PICK at \in Pointers :
        /\ at = EntrySet(staged, t, f) /\ Merged(at) = [Merged(staged) EXCEPT ![t] = f]
        /\ Merged(at)[t] = f
  <2>1. staged \in Pointers /\ f \in Pointer \cup {None} /\ ~IsRoot(t[1])
    BY <1>1, <1>3 DEF StoresInv, StoreTypes
  <2>2. /\ Merged(EntrySet(staged, t, f)) = [Merged(staged) EXCEPT ![t] = f]
        /\ EntrySet(staged, t, f) \in Pointers /\ Merged(EntrySet(staged, t, f))[t] = f
    BY ONLY <2>1, t \in Ident, MergedSet
  <2> QED BY <2>2
<1>5. \A s \in Store, i \in OwnIdent :
        at[s][i] = IF s = Route(t[1]) /\ i = InnerIdent(t) THEN f ELSE staged[s][i]
  <2>1. staged \in Pointers /\ f \in Pointer \cup {None} /\ ~IsRoot(t[1])
    BY <1>1, <1>3 DEF StoresInv, StoreTypes
  <2> QED BY <1>4, <2>1, EntryIs
<1>6. Merged(staged)' = [Merged(staged) EXCEPT ![t] = f] /\ Merged(staged)'[t] = f
  BY <1>1, <1>4 DEF Merged
<1>7. Catalog!AbsStage(t, Merged(staged)'[t])
  BY <1>1, <1>3, <1>6, SameSpaces, SameRest DEF Catalog!AbsStage
<1>8. StagingsKnown'
  <2>1. ASSUME NEW s \in Store, NEW i \in OwnIdent, at[s][i] # None
        PROVE  \E k \in known' : k[1] = "staged" /\ k[2] = at[s][i]
    <3>1. CASE at[s][i] = f
      <4>1. <<"staged", f>> \in known'
        BY <1>3
      <4> QED BY <3>1, <4>1
    <3>2. CASE at[s][i] = staged[s][i]
      BY <1>3, <2>1, <3>2 DEF StoresInv, StagingsKnown
    <3> QED BY <1>5, <3>1, <3>2
  <2>2. staged' = at
    BY <1>1, <1>4
  <2> QED BY <2>1, <2>2 DEF StagingsKnown
<1>9. StoreTypes' /\ NoneAtRoots'
  <2>1. UNCHANGED <<spaces, tables, views>> /\ staged' \in Pointers
    BY <1>1, <1>4
  <2>2. NoneAtRoots'
    BY <2>1 DEF StoresInv, NoneAtRoots
  <2>3. StoreTypes'
    BY <1>3, <2>1 DEF StoresInv, StoreTypes
  <2> QED BY <2>2, <2>3
<1> QED BY <1>3, <1>7, <1>8, <1>9 DEF StoresInv

-----------------------------------------------------------------------------
(* A transaction                                                           *)

\* What a commit of a table is made on.
BaseOf(s, i) == IF tables[s][i] # None THEN tables[s][i] ELSE staged[s][i]

InnerIdents(T) == {InnerIdent(t) : t \in T}

LEMMA CommitFacts ==
  ASSUME StoresInv, NEW s \in Store, NEW I \in SUBSET OwnIdent, CommitIn(s, I)
  PROVE  /\ \A i \in I : /\ BaseOf(s, i) \in Pointer /\ views[s][i] = None
                         /\ tables[s][i] = None => i[1] \in spaces[s]
         /\ writes' = writes + 1
         /\ known' = known \cup {<<"table", NextFile(BaseOf(s, i))>> : i \in I}
         /\ \A r \in Store, i \in OwnIdent :
              /\ tables'[r][i] = IF r = s /\ i \in I THEN NextFile(BaseOf(s, i)) ELSE tables[r][i]
              /\ staged'[r][i] = IF r = s /\ i \in I /\ tables[s][i] = None THEN None ELSE staged[r][i]
         /\ tables' \in Pointers /\ staged' \in Pointers
         /\ UNCHANGED <<spaces, views>>
<1> DEFINE base == [i \in I |-> IF tables[s][i] # None THEN tables[s][i] ELSE staged[s][i]]
<1>1. /\ \A i \in I : /\ base[i] # None /\ views[s][i] = None
                      /\ tables[s][i] = None => i[1] \in spaces[s]
      /\ writes' = writes + 1
      /\ known' = known \cup {<<"table", NextFile(base[i])>> : i \in I}
      /\ tables' = [tables EXCEPT ![s] =
           [i \in OwnIdent |-> IF i \in I THEN NextFile(base[i]) ELSE @[i]]]
      /\ staged' = [staged EXCEPT ![s] =
           [i \in OwnIdent |-> IF i \in I /\ tables[s][i] = None THEN None ELSE @[i]]]
      /\ UNCHANGED <<spaces, views>>
  BY DEF CommitIn
<1>2. \A i \in I : base[i] = BaseOf(s, i)
  BY DEF BaseOf
<1> HIDE DEF base
<1>3. /\ tables \in Pointers /\ staged \in Pointers /\ writes \in Nat
  BY DEF StoresInv, StoreTypes
<1>4. \A i \in I : BaseOf(s, i) \in Pointer \cup {None}
  BY <1>3 DEF BaseOf, Pointers
<1>5. \A i \in I : BaseOf(s, i) \in Pointer /\ NextFile(BaseOf(s, i)) \in Pointer
  BY <1>1, <1>2, <1>3, <1>4, NextFacts
<1>6. /\ known' = known \cup {<<"table", NextFile(BaseOf(s, i))>> : i \in I}
      /\ tables' = [tables EXCEPT ![s] =
           [i \in OwnIdent |-> IF i \in I THEN NextFile(BaseOf(s, i)) ELSE tables[s][i]]]
      /\ staged' = [staged EXCEPT ![s] =
           [i \in OwnIdent |-> IF i \in I /\ tables[s][i] = None THEN None ELSE staged[s][i]]]
  BY <1>1, <1>2
<1>7. /\ \A r \in Store, i \in OwnIdent :
           tables'[r][i] = IF r = s /\ i \in I THEN NextFile(BaseOf(s, i)) ELSE tables[r][i]
      /\ tables' \in Pointers
  BY <1>3, <1>5, <1>6 DEF Pointers
<1>8. /\ \A r \in Store, i \in OwnIdent :
           staged'[r][i] = IF r = s /\ i \in I /\ tables[s][i] = None THEN None ELSE staged[r][i]
      /\ staged' \in Pointers
  BY <1>3, <1>6 DEF Pointers
<1> QED BY <1>1, <1>5, <1>6, <1>7, <1>8

LEMMA Committed ==
  ASSUME StoresInv, NEW s \in Store, NEW T \in SUBSET Ident, T # {},
         \A t \in T : Route(t[1]) = s /\ ~IsRoot(t[1]),
         CommitIn(s, InnerIdents(T))
  PROVE  Catalog!AbsCommit(T) /\ StoresInv'
<1> DEFINE I == InnerIdents(T)
           file(i) == NextFile(BaseOf(s, i))
<1>1. I \in SUBSET OwnIdent /\ \A i \in I : i[1] # <<>>
  BY NameFacts DEF InnerIdents
<1>2. /\ \A i \in I : /\ BaseOf(s, i) \in Pointer /\ views[s][i] = None
                      /\ tables[s][i] = None => i[1] \in spaces[s]
      /\ writes' = writes + 1
      /\ known' = known \cup {<<"table", file(i)>> : i \in I}
      /\ \A r \in Store, i \in OwnIdent :
           /\ tables'[r][i] = IF r = s /\ i \in I THEN file(i) ELSE tables[r][i]
           /\ staged'[r][i] = IF r = s /\ i \in I /\ tables[s][i] = None THEN None ELSE staged[r][i]
      /\ tables' \in Pointers /\ staged' \in Pointers
      /\ UNCHANGED <<spaces, views>>
  BY <1>1, CommitFacts
<1>3. ASSUME NEW i \in I
      PROVE  /\ file(i) \in Pointer /\ file(i) # None /\ file(i) # <<>>
             /\ file(i)[Len(file(i))] = <<writes + 1>>
             /\ Catalog!Fresh(file(i)) /\ Catalog!WrittenOn(file(i), BaseOf(s, i))
  <2>1. BaseOf(s, i) \in Pointer /\ writes \in Nat
    BY <1>2 DEF StoresInv, StoreTypes
  <2>2. /\ file(i) \in Pointer /\ file(i) # <<>> /\ file(i) # None
        /\ Len(file(i)) = Len(BaseOf(s, i)) + 1 /\ file(i)[Len(file(i))] = <<writes + 1>>
        /\ SubSeq(file(i), 1, Len(BaseOf(s, i))) = BaseOf(s, i)
    BY <2>1, NextFacts
  <2>3. Catalog!Fresh(file(i))
    BY <2>1, NextIsFresh
  <2> QED BY <2>2, <2>3 DEF Catalog!WrittenOn
<1>4. \A t \in T : InnerIdent(t) \in I
  BY DEF InnerIdents
<1>5. ASSUME NEW u \in Ident, Route(u[1]) = s, InnerIdent(u) \in I PROVE u \in T
  <2>1. PICK t \in T : InnerIdent(u) = InnerIdent(t)
    BY <1>5 DEF InnerIdents
  <2>2. t \in Ident /\ Route(t[1]) = Route(u[1])
    BY <1>5, <2>1
  <2> QED BY <2>1, <2>2, SameIdent
<1> HIDE DEF I, file
<1>6. PICK at \in Pointers, st \in Pointers : at = tables' /\ st = staged'
  BY <1>2
<1>7. ASSUME NEW u \in Ident
      PROVE  /\ Merged(at)[u] = IF u \in T THEN file(InnerIdent(u)) ELSE Merged(tables)[u]
             /\ Merged(st)[u] = IF u \in T /\ Merged(tables)[u] = None THEN None ELSE Merged(staged)[u]
  <2>1. Route(u[1]) \in Store /\ InnerIdent(u) \in OwnIdent
    BY IdentFacts, RouteFacts
  <2>2. u \in T => Route(u[1]) = s /\ ~IsRoot(u[1]) /\ InnerIdent(u) \in I
    BY <1>4
  <2>3. Route(u[1]) = s /\ InnerIdent(u) \in I <=> u \in T
    BY <1>5, <2>2
  <2>4. /\ at[Route(u[1])][InnerIdent(u)] =
             IF u \in T THEN file(InnerIdent(u)) ELSE tables[Route(u[1])][InnerIdent(u)]
        /\ st[Route(u[1])][InnerIdent(u)] =
             IF u \in T /\ tables[Route(u[1])][InnerIdent(u)] = None THEN None
             ELSE staged[Route(u[1])][InnerIdent(u)]
    BY <1>2, <1>6, <2>1, <2>2, <2>3
  <2>5. \A x : Merged(x)[u] = IF IsRoot(u[1]) THEN None ELSE x[Route(u[1])][InnerIdent(u)]
    BY MergedFacts
  <2> QED BY <2>2, <2>4, <2>5
<1>8. /\ Merged(tables)' = Merged(at) /\ Merged(staged)' = Merged(st)
      /\ Merged(views)' = Merged(views)
  BY <1>2, <1>6 DEF Merged
<1>9. DOMAIN Merged(at) = Ident /\ DOMAIN Merged(st) = Ident
  BY MergedFacts
<1>10. ASSUME NEW t \in T
       PROVE  /\ Merged(at)[t] # None /\ Catalog!Fresh(Merged(at)[t])
              /\ Merged(tables)[t] # None => Catalog!WrittenOn(Merged(at)[t], Merged(tables)[t])
              /\ Merged(tables)[t] = None =>
                   /\ Merged(views)[t] = None
                   /\ t[1] \in Path /\ Inner(t[1]) \in spaces[Route(t[1])]
                   /\ \E k \in known : k[1] = "staged" /\ Catalog!WrittenOn(Merged(at)[t], k[2])
  <2>1. /\ t \in Ident /\ t[1] \in Path /\ Route(t[1]) = s /\ ~IsRoot(t[1])
        /\ InnerIdent(t) \in I /\ InnerIdent(t) \in OwnIdent /\ InnerIdent(t)[1] = Inner(t[1])
    BY <1>4, IdentFacts
  <2>2. \A x : Merged(x)[t] = x[s][InnerIdent(t)]
    BY <2>1, NameFacts
  <2>3. Merged(at)[t] = file(InnerIdent(t))
    BY <1>7, <2>1
  <2>4. /\ file(InnerIdent(t)) # None /\ Catalog!Fresh(file(InnerIdent(t)))
        /\ Catalog!WrittenOn(file(InnerIdent(t)), BaseOf(s, InnerIdent(t)))
    BY <1>3, <2>1
  <2>5. /\ Merged(tables)[t] # None => BaseOf(s, InnerIdent(t)) = Merged(tables)[t]
        /\ Merged(tables)[t] = None => BaseOf(s, InnerIdent(t)) = staged[s][InnerIdent(t)]
    BY <2>2 DEF BaseOf
  <2>6. ASSUME Merged(tables)[t] = None
        PROVE  \E k \in known : k[1] = "staged" /\ Catalog!WrittenOn(Merged(at)[t], k[2])
    <3>1. BaseOf(s, InnerIdent(t)) \in Pointer
      BY <1>2, <2>1
    <3>2. staged[s][InnerIdent(t)] # None
      BY <2>5, <2>6, <3>1, PointerAssumption
    <3>3. PICK k \in known : k[1] = "staged" /\ k[2] = staged[s][InnerIdent(t)]
      BY <2>1, <3>2 DEF StoresInv, StagingsKnown
    <3> QED BY <2>3, <2>4, <2>5, <2>6, <3>3
  <2> QED BY <1>2, <2>1, <2>2, <2>3, <2>4, <2>5, <2>6
<1>11. known' = known \cup {<<"table", Merged(at)[t]>> : t \in T}
  <2>1. \A t \in T : t \in Ident /\ Merged(at)[t] = file(InnerIdent(t))
    BY <1>7
  <2>2. {<<"table", file(i)>> : i \in I} = {<<"table", Merged(at)[t]>> : t \in T}
    BY <2>1 DEF I, InnerIdents
  <2> QED BY <1>2, <2>2
<1>12. Catalog!AbsCommit(T)
  <2>1. \A t \in Ident \ T : Merged(at)[t] = Merged(tables)[t]
    BY <1>7
  <2>2. \A t \in Ident : \/ Merged(st)[t] = Merged(staged)[t]
                         \/ t \in T /\ Merged(tables)[t] = None /\ Merged(st)[t] = None
    BY <1>7
  <2> QED BY <1>2, <1>8, <1>9, <1>10, <1>11, <2>1, <2>2, SameSpaces, IdentFacts DEF Catalog!AbsCommit

<1>13. StoreTypes'
  <2>1. known' \subseteq {"table", "view", "staged"} \X Pointer
    BY <1>2, <1>3 DEF StoresInv, StoreTypes
  <2> QED BY <1>2, <2>1 DEF StoresInv, StoreTypes
<1>14. KnownWritten'
  <2>1. ASSUME NEW k \in known'
        PROVE  k[2] # <<>> /\ \A n \in Nat : k[2][Len(k[2])] = <<n>> => n <= writes'
    <3>1. CASE k \in known
      BY <1>2, <3>1 DEF StoresInv, StoreTypes, KnownWritten
    <3>2. ASSUME NEW i \in I, k = <<"table", file(i)>>
          PROVE  k[2] # <<>> /\ \A n \in Nat : k[2][Len(k[2])] = <<n>> => n <= writes'
      <4>1. k[2] = file(i) /\ k[2] # <<>> /\ k[2][Len(k[2])] = <<writes + 1>>
        BY <1>3, <3>2
      <4>2. ASSUME NEW n \in Nat, k[2][Len(k[2])] = <<n>> PROVE n = writes + 1
        BY <4>1, <4>2
      <4>3. writes \in Nat
        BY DEF StoresInv, StoreTypes
      <4> QED BY <1>2, <4>1, <4>2, <4>3
    <3> QED BY <1>2, <3>1, <3>2
  <2> QED BY <2>1 DEF KnownWritten
<1>15. StagingsKnown' /\ NoneAtRoots'
  <2>1. \A r \in Store, i \in OwnIdent : staged'[r][i] # None => staged'[r][i] = staged[r][i]
    BY <1>2
  <2>2. \A r \in Store, i \in OwnIdent :
          tables'[r][i] # None => tables[r][i] # None \/ i \in I
    BY <1>2
  <2> QED BY <1>1, <1>2, <2>1, <2>2 DEF StoresInv, StagingsKnown, NoneAtRoots
<1> QED BY <1>12, <1>13, <1>14, <1>15 DEF StoresInv

-----------------------------------------------------------------------------
(* Views                                                                   *)

LEMMA ViewCreated ==
  ASSUME StoresInv, NEW t \in Ident, CreateView(t)
  PROVE  Catalog!AbsCreateView(t, Merged(views)'[t]) /\ StoresInv'
<1> DEFINE f == NextFile(<<>>)
<1>1. /\ ~IsRoot(t[1]) /\ Free(Route(t[1]), InnerIdent(t)) /\ Written("view", <<>>)
      /\ views' = EntrySet(views, t, f) /\ UNCHANGED <<spaces, tables, staged>>
  BY DEF CreateView, ChangeView, EntrySet
<1>2. <<>> \in Pointer
  BY EmptySeq DEF Pointer
<1>3. /\ writes' \in Nat /\ KnownWritten' /\ known \subseteq known'
      /\ known' \subseteq {"table", "view", "staged"} \X Pointer
      /\ known' = known \cup {<<"view", f>>} /\ f \in Pointer /\ f # None /\ Catalog!Fresh(f)
  BY <1>1, <1>2, WrittenFacts
<1> HIDE DEF f
<1>4. /\ Merged(views)' = [Merged(views) EXCEPT ![t] = f] /\ Merged(views)'[t] = f
      /\ views' \in Pointers /\ NoneAtRoots'
  BY <1>1, <1>3, ViewSet
<1>5. Catalog!AbsCreateView(t, Merged(views)'[t])
  BY <1>1, <1>3, <1>4, FreeName, SameSpaces, SameRest DEF Catalog!AbsCreateView
<1>6. StoreTypes'
  BY <1>1, <1>3, <1>4 DEF StoresInv, StoreTypes
<1> QED BY <1>1, <1>3, <1>4, <1>5, <1>6, Kept

LEMMA ViewRegistered ==
  ASSUME StoresInv, NEW t \in Ident, RegisterView(t)
  PROVE  Catalog!AbsCreateView(t, Merged(views)'[t]) /\ StoresInv'
<1>1. /\ ~IsRoot(t[1]) /\ Free(Route(t[1]), InnerIdent(t))
      /\ UNCHANGED <<spaces, tables, staged, known, writes>>
  BY DEF RegisterView, ChangeView
<1>2. PICK k \in known : k[1] = "view" /\ views' = EntrySet(views, t, k[2])
  BY DEF RegisterView, ChangeView, EntrySet
<1>3. k[2] \in Pointer /\ k[2] # None /\ <<"view", k[2]>> \in known
  BY <1>2, PointerAssumption DEF StoresInv, StoreTypes
<1>4. /\ Merged(views)' = [Merged(views) EXCEPT ![t] = k[2]] /\ Merged(views)'[t] = k[2]
      /\ views' \in Pointers /\ NoneAtRoots'
  BY <1>1, <1>2, <1>3, ViewSet
<1>5. known' = known \cup {<<"view", k[2]>>}
  BY <1>1, <1>3
<1>6. Catalog!AbsCreateView(t, Merged(views)'[t])
  BY <1>1, <1>3, <1>4, <1>5, FreeName, SameSpaces, SameRest DEF Catalog!AbsCreateView
<1>7. StoreTypes' /\ KnownWritten'
  BY <1>1, <1>4 DEF StoresInv, StoreTypes, KnownWritten
<1> QED BY <1>1, <1>4, <1>6, <1>7, Kept

LEMMA ViewUpdated ==
  ASSUME StoresInv, NEW t \in Ident, UpdateView(t)
  PROVE  Catalog!AbsUpdateView(t, Merged(views)'[t]) /\ StoresInv'
<1> DEFINE old == Merged(views)[t]
           f == NextFile(old)
<1>1. /\ ~IsRoot(t[1]) /\ views[Route(t[1])][InnerIdent(t)] # None
      /\ Written("view", views[Route(t[1])][InnerIdent(t)])
      /\ views' = [views EXCEPT ![Route(t[1])][InnerIdent(t)] =
                     NextFile(views[Route(t[1])][InnerIdent(t)])]
      /\ UNCHANGED <<spaces, tables, staged>>
  BY DEF UpdateView, ChangeView
<1>2. views[Route(t[1])][InnerIdent(t)] = old
  BY <1>1, NameFacts
<1>3. old # None /\ Written("view", old) /\ views' = EntrySet(views, t, f)
  BY <1>1, <1>2 DEF EntrySet
<1>4. old \in Pointer
  <2>1. Route(t[1]) \in Store /\ InnerIdent(t) \in OwnIdent /\ views \in Pointers
    BY <1>1, NameFacts DEF StoresInv, StoreTypes
  <2> QED BY <1>2, <1>3, <2>1 DEF Pointers
<1> HIDE DEF old
<1>5. /\ writes' \in Nat /\ KnownWritten' /\ known \subseteq known'
      /\ known' \subseteq {"table", "view", "staged"} \X Pointer
      /\ known' = known \cup {<<"view", f>>} /\ f \in Pointer /\ f # None /\ Catalog!Fresh(f)
      /\ Catalog!WrittenOn(f, old)
  BY <1>3, <1>4, WrittenFacts
<1> HIDE DEF f
<1>6. /\ Merged(views)' = [Merged(views) EXCEPT ![t] = f] /\ Merged(views)'[t] = f
      /\ views' \in Pointers /\ NoneAtRoots'
  BY <1>1, <1>3, <1>5, ViewSet
<1>7. Catalog!AbsUpdateView(t, Merged(views)'[t])
  BY <1>1, <1>3, <1>5, <1>6, SameSpaces, SameRest DEF Catalog!AbsUpdateView, old
<1>8. StoreTypes'
  BY <1>1, <1>5, <1>6 DEF StoresInv, StoreTypes
<1> QED BY <1>1, <1>5, <1>6, <1>7, <1>8, Kept

LEMMA ViewDropped ==
  ASSUME StoresInv, NEW t \in Ident, DropView(t)
  PROVE  Catalog!AbsDropView(t) /\ StoresInv'
<1>1. /\ ~IsRoot(t[1]) /\ views[Route(t[1])][InnerIdent(t)] # None
      /\ views' = EntrySet(views, t, None) /\ UNCHANGED <<spaces, tables, staged, known, writes>>
  BY DEF DropView, ChangeView, EntrySet
<1>2. Merged(views)[t] # None
  BY <1>1, NameFacts
<1>3. /\ Merged(views)' = [Merged(views) EXCEPT ![t] = None]
      /\ views' \in Pointers /\ NoneAtRoots'
  BY <1>1, ViewSet
<1>4. Catalog!AbsDropView(t)
  BY <1>1, <1>2, <1>3, SameSpaces, SameRest DEF Catalog!AbsDropView
<1>5. StoreTypes' /\ KnownWritten'
  BY <1>1, <1>3 DEF StoresInv, StoreTypes, KnownWritten
<1> QED BY <1>1, <1>3, <1>4, <1>5, Kept

LEMMA ViewRenamed ==
  ASSUME StoresInv, NEW t \in Ident, NEW u \in Ident, RenameView(t, u)
  PROVE  Catalog!AbsRenameView(t, u) /\ StoresInv'
<1> DEFINE v == Merged(views)[t]
<1>1. /\ ~IsRoot(t[1]) /\ ~IsRoot(u[1]) /\ Route(u[1]) = Route(t[1])
      /\ Free(Route(u[1]), InnerIdent(u)) /\ views[Route(t[1])][InnerIdent(t)] # None
      /\ views' = [views EXCEPT ![Route(t[1])][InnerIdent(u)] = views[Route(t[1])][InnerIdent(t)],
                                ![Route(t[1])][InnerIdent(t)] = None]
      /\ UNCHANGED <<spaces, tables, staged, known, writes>>
  BY DEF RenameView, ChangeView, SameCatalog
<1>2. v # None /\ views[Route(t[1])][InnerIdent(t)] = v
  BY <1>1, NameFacts
<1> HIDE DEF v
<1>3. views' = Moved(views, t, u, v)
  BY <1>1, <1>2 DEF EntrySet, Moved
<1>4. /\ Merged(Moved(views, t, u, v)) = Renaming(Merged(views), t, u, v)
      /\ Moved(views, t, u, v) \in Pointers
      /\ \A s \in Store, i \in OwnIdent :
           Moved(views, t, u, v)[s][i] # None /\ i[1] = <<>> => views[s][i] # None
  <2>1. v = Merged(views)[t] /\ views \in Pointers
    BY DEF v, StoresInv, StoreTypes
  <2>2. ~IsRoot(t[1]) /\ ~IsRoot(u[1])
    BY <1>1
  <2> QED BY ONLY <2>1, <2>2, t \in Ident, u \in Ident, Renamed
<1>5. PICK at : at = views'
  OBVIOUS
<1>6. Merged(at) = Renaming(Merged(views), t, u, v) /\ at \in Pointers
      /\ \A s \in Store, i \in OwnIdent : at[s][i] # None /\ i[1] = <<>> => views[s][i] # None
  BY <1>3, <1>4, <1>5
<1>7. Merged(views)' = Renaming(Merged(views), t, u, v)
  BY <1>5, <1>6 DEF Merged
<1>8. Catalog!AbsRenameView(t, u)
  BY <1>1, <1>2, <1>7, FreeName, SameSpaces, SameRest DEF Catalog!AbsRenameView, Renaming, v
<1>9. StoreTypes' /\ KnownWritten' /\ NoneAtRoots'
  BY <1>1, <1>5, <1>6 DEF StoresInv, StoreTypes, KnownWritten, NoneAtRoots
<1> QED BY <1>1, <1>8, <1>9, Kept

-----------------------------------------------------------------------------
(* What a remote catalog's own clients do                                  *)

LEMMA OwnSeq ==
  ASSUME NEW q \in OwnPath
  PROVE  q \in Seq(Nat) /\ q # <<>>
<1>1. PICK p \in Path : q = Inner(p) /\ q # <<>>
  BY DEF OwnPath
<1>2. PICK n \in Nat \ {0} : Len(p) = n
  BY RouteFacts
<1>3. CASE Route(p) = Native
  BY <1>1, <1>3, RouteFacts
<1>4. CASE Route(p) # Native
  BY <1>1, <1>2, <1>4, RouteFacts, FrontFacts
<1> QED BY <1>1, <1>3, <1>4

\* What a mount's store calls a namespace is what it is asked for by its name outside.
LEMMA BehindNames ==
  ASSUME NEW s \in Remote, NEW q \in OwnPath, Prefixed(s, q) \in Path
  PROVE  /\ Route(Prefixed(s, q)) = s /\ Inner(Prefixed(s, q)) = q
         /\ ~IsRoot(Prefixed(s, q))
<1>1. s \in Mount /\ s # Native /\ q \in Seq(Nat) /\ q # <<>>
  BY OwnSeq, FederationAssumption
<1>2. PICK p \in Path : p = Prefixed(s, q)
  OBVIOUS
<1>3. PICK n \in Nat : Len(q) = n
  BY <1>1, LenProperties
<1> DEFINE S == Nat \cup {s}
<1>4. /\ Len(p) = n + 1 /\ p[1] = s /\ \A i \in 1..n : p[i + 1] = q[i]
  <2>1. p = <<s>> \o q
    BY <1>1, <1>2 DEF Prefixed
  <2>2. PICK h : h = <<s>>
    OBVIOUS
  <2>3. h \in Seq(S) /\ Len(h) = 1 /\ h[1] = s /\ q \in Seq(S)
    <3>1. \A i \in 1..Len(q) : q[i] \in S
      BY <1>1, ElementOfSeq
    <3> QED BY <1>1, <1>3, <2>2, <3>1
  <2> HIDE DEF S
  <2>4. /\ Len(h \o q) = Len(h) + Len(q)
        /\ \A i \in 1..(Len(h) + Len(q)) :
             (h \o q)[i] = IF i <= Len(h) THEN h[i] ELSE q[i - Len(h)]
    BY ONLY <2>3, ConcatProperties
  <2>5. PICK c : c = h \o q
    OBVIOUS
  <2>6. /\ Len(c) = 1 + n
        /\ \A i \in 1..(1 + n) : c[i] = IF i <= 1 THEN h[i] ELSE q[i - 1]
    BY <1>3, <2>3, <2>4, <2>5
  <2>7. p = c
    BY <2>1, <2>2, <2>5
  <2>8. ASSUME NEW i \in 1..n PROVE p[i + 1] = q[i]
    <3>1. i + 1 \in 1..(1 + n) /\ ~(i + 1 <= 1) /\ (i + 1) - 1 = i
      OBVIOUS
    <3> QED BY <2>6, <2>7, <3>1
  <2> QED BY <2>3, <2>6, <2>7, <2>8
<1>5. Route(p) = s
  BY <1>1, <1>4, RouteFacts DEF Route
<1>6. Inner(p) = q
  <2>1. Inner(p) = Rest(p) /\ p \in Seq(Nat) /\ n + 1 \in Nat \ {0} /\ (n + 1) - 1 = n
    BY <1>1, <1>5, RouteFacts
  <2>2. /\ Rest(p) \in Seq(Nat) /\ Len(Rest(p)) = n
        /\ \A i \in 1..n : Rest(p)[i] = p[i + 1]
    BY <1>4, <2>1, FrontFacts
  <2>3. PICK r \in Seq(Nat) : r = Rest(p)
    BY <2>2
  <2>4. Len(r) = Len(q) /\ \A i \in 1..Len(r) : r[i] = q[i]
    BY <1>3, <1>4, <2>2, <2>3
  <2> QED BY <1>1, <2>1, <2>3, <2>4, SeqEqual
<1> QED BY <1>1, <1>2, <1>5, <1>6 DEF IsRoot

LEMMA BehindIdents ==
  ASSUME NEW s \in Remote, NEW i \in OwnIdent, i[1] \in OwnPath,
         <<Prefixed(s, i[1]), i[2]>> \in Ident
  PROVE  \E t \in Ident : /\ t = <<Prefixed(s, i[1]), i[2]>>
                          /\ ~IsRoot(t[1]) /\ Route(t[1]) = s /\ InnerIdent(t) = i
<1>1. PICK t \in Ident : t = <<Prefixed(s, i[1]), i[2]>>
  OBVIOUS
<1>2. t[1] = Prefixed(s, i[1]) /\ t[2] = i[2] /\ t[1] \in Path
  BY <1>1, IdentFacts
<1>3. ~IsRoot(t[1]) /\ Route(t[1]) = s /\ Inner(t[1]) = i[1]
  BY <1>2, BehindNames
<1>4. i = <<i[1], i[2]>>
  BY IdentFacts DEF OwnIdent, InnerIdent
<1> QED BY <1>1, <1>2, <1>3, <1>4 DEF InnerIdent

-----------------------------------------------------------------------------
(* The theorem                                                             *)

\* Stores begin with namespaces of their own, and tables in those.
LEMMA StoresBegin == StoresInit => StoresInv
<1> SUFFICES ASSUME StoresInit PROVE StoresInv
  OBVIOUS
<1> DEFINE holds(s, i) == \E t \in InitTables : Route(t[1]) = s /\ InnerIdent(t) = i
           first(s, i) == CHOOSE t \in InitTables : Route(t[1]) = s /\ InnerIdent(t) = i
<1>1. /\ spaces = [s \in Store |-> {Inner(p) : p \in {q \in InitSpaces : Route(q) = s /\ ~IsRoot(q)}}]
      /\ tables = [s \in Store |-> [i \in OwnIdent |->
           IF holds(s, i) THEN <<first(s, i)>> ELSE None]]
      /\ views = [s \in Store |-> [i \in OwnIdent |-> None]]
      /\ staged = [s \in Store |-> [i \in OwnIdent |-> None]]
      /\ known = {<<"table", <<t>>>> : t \in InitTables}
      /\ writes = 0
  BY DEF StoresInit
<1>2. \A s \in Store, i \in OwnIdent : holds(s, i) =>
        first(s, i) \in InitTables /\ Route(first(s, i)[1]) = s /\ InnerIdent(first(s, i)) = i
  OBVIOUS
<1> HIDE DEF holds, first
<1>3. \A t \in InitTables : /\ t \in Ident /\ t[1] \in InitSpaces /\ t[1] \in Path
                            /\ t[1] \notin {<<m>> : m \in Mount}
  BY FederationAssumption
<1>4. ASSUME NEW t \in InitTables
      PROVE  /\ <<t>> \in Pointer /\ <<t>> # <<>> /\ \A n \in Nat : <<t>>[Len(<<t>>)] # <<n>>
  <2>1. t \in Ident /\ t = <<t[1], t[2]>>
    BY <1>3, IdentFacts
  <2>2. \A n \in Nat : t # <<n>>
    <3>1. Len(t) = 2
      BY <2>1
    <3> QED BY <3>1
  <2>3. <<t>> \in Pointer
    <3>1. PICK w \in Ident \cup Seq(Nat) : w = t
      BY <2>1
    <3>2. <<w>> \in Seq(Ident \cup Seq(Nat))
      OBVIOUS
    <3> QED BY <3>1, <3>2 DEF Pointer
  <2> QED BY <2>2, <2>3
<1>5. ASSUME NEW t \in InitTables PROVE InnerIdent(t)[1] # <<>>
  <2>1. t \in Ident /\ t[1] \in Path /\ InnerIdent(t)[1] = Inner(t[1])
    BY <1>3, IdentFacts
  <2>2. PICK n \in Nat \ {0} : Len(t[1]) = n
    BY <2>1, RouteFacts
  <2>3. CASE Route(t[1]) = Native
    BY <2>1, <2>3, RouteFacts
  <2>4. ASSUME Route(t[1]) # Native, Rest(t[1]) = <<>> PROVE FALSE
    <3>1. t[1] \in Seq(Nat) /\ t[1][1] \in Mount
      BY <2>1, <2>4, RouteFacts DEF Store
    <3>2. Len(Rest(t[1])) = n - 1 /\ Len(Rest(t[1])) = 0
      BY <2>2, <2>4, <3>1, FrontFacts
    <3>3. PICK p \in Seq(Nat) : p = t[1] /\ Len(p) = 1
      <4>1. n = 1
        BY <3>2
      <4> QED BY <2>2, <3>1, <4>1
    <3>4. p = <<p[1]>>
      BY <3>3
    <3> QED BY <1>3, <3>1, <3>3, <3>4
  <2> QED BY <2>1, <2>3, <2>4, RouteFacts
<1>6. StoreTypes
  <2>1. spaces \in [Store -> SUBSET OwnPath]
    <3>1. \A q \in InitSpaces : q \in Path
      BY FederationAssumption
    <3> QED BY <1>1, <3>1, OwnFacts
  <2>2. tables \in Pointers
    BY <1>1, <1>2, <1>4 DEF Pointers
  <2>3. views \in Pointers /\ staged \in Pointers
    BY <1>1 DEF Pointers
  <2>4. known \subseteq {"table", "view", "staged"} \X Pointer
    BY <1>1, <1>4
  <2> QED BY <1>1, <2>1, <2>2, <2>3, <2>4 DEF StoreTypes
<1>7. KnownWritten
  <2>1. \A k \in known : \E t \in InitTables : k[2] = <<t>>
    BY <1>1
  <2> QED BY <1>4, <2>1 DEF KnownWritten
<1>8. StagingsKnown
  BY <1>1 DEF StagingsKnown
<1>9. NoneAtRoots
  <2>1. ASSUME NEW s \in Store, NEW i \in OwnIdent, tables[s][i] # None PROVE i[1] # <<>>
    <3>1. holds(s, i)
      BY <1>1, <2>1
    <3> QED BY <1>2, <1>5, <3>1
  <2> QED BY <1>1, <2>1 DEF NoneAtRoots
<1> QED BY <1>6, <1>7, <1>8, <1>9 DEF StoresInv

\* What each call promises, by its name.
LEMMA PromisedFacts ==
  ASSUME NEW x
  PROVE  /\ Promised("create_namespace", x) <=> Catalog!AbsCreateNamespace(x[1])
         /\ Promised("drop_namespace", x) <=> Catalog!AbsDropNamespace(x[1])
         /\ Promised("create_table", x) <=> Catalog!AbsCreateTable(x[1], Merged(tables)'[x[1]])
         /\ Promised("stage_create_table", x) <=> Catalog!AbsStage(x[1], Merged(staged)'[x[1]])
         /\ Promised("commit", x) <=> Catalog!AbsCommit(x)
         /\ Promised("drop_table", x) <=> Catalog!AbsDropTable(x[1])
         /\ Promised("rename_table", x) <=> Catalog!AbsRenameTable(x[1], x[2])
         /\ Promised("create_view", x) <=> Catalog!AbsCreateView(x[1], Merged(views)'[x[1]])
         /\ Promised("update_view", x) <=> Catalog!AbsUpdateView(x[1], Merged(views)'[x[1]])
         /\ Promised("drop_view", x) <=> Catalog!AbsDropView(x[1])
         /\ Promised("rename_view", x) <=> Catalog!AbsRenameView(x[1], x[2])
  BY DEF Promised

LEMMA NamespaceStep ==
  ASSUME StoresInv, WholeScans, NamespaceCall
  PROVE  StoresInv' /\ Promised(call'.op, call'.names)
<1>1. PICK p \in Path : \/ Calls("create_namespace", <<p>>, CreateNamespace(p))
                        \/ Calls("drop_namespace", <<p>>, DropNamespace(p))
  BY DEF NamespaceCall
<1>2. CASE Calls("create_namespace", <<p>>, CreateNamespace(p))
  <2>1. ~IsRoot(p) /\ CreateSpaceIn(Route(p), Inner(p))
    BY <1>2 DEF Calls, CreateNamespace
  <2>2. call'.op = "create_namespace" /\ call'.names = <<p>>
    BY <1>2 DEF Calls
  <2> QED BY <2>1, <2>2, SpaceCreated, PromisedFacts
<1>3. CASE Calls("drop_namespace", <<p>>, DropNamespace(p))
  <2>1. ~IsRoot(p) /\ DropSpaceIn(Route(p), Inner(p))
    BY <1>3 DEF Calls, DropNamespace
  <2>2. call'.op = "drop_namespace" /\ call'.names = <<p>>
    BY <1>3 DEF Calls
  <2> QED BY <2>1, <2>2, SpaceDropped, PromisedFacts
<1> QED BY <1>1, <1>2, <1>3

LEMMA TableStep ==
  ASSUME StoresInv, NEW t \in Ident,
         \/ Calls("create_table", <<t>>, CreateTable(t) \/ RegisterTable(t))
         \/ Calls("stage_create_table", <<t>>, StageCreateTable(t))
         \/ Calls("commit", {t}, CommitTable(t))
         \/ Calls("drop_table", <<t>>, DropTable(t) \/ PurgeTable(t))
  PROVE  StoresInv' /\ Promised(call'.op, call'.names)
<1>1. CASE Calls("create_table", <<t>>, CreateTable(t) \/ RegisterTable(t))
  <2>1. Catalog!AbsCreateTable(t, Merged(tables)'[t]) /\ StoresInv'
    <3>1. CASE CreateTable(t)
      <4>1. ~IsRoot(t[1]) /\ CreateTableIn(Route(t[1]), InnerIdent(t))
        BY <3>1 DEF CreateTable
      <4> QED BY <4>1, TableCreated
    <3>2. CASE RegisterTable(t)
      BY <3>2, TableRegistered
    <3> QED BY <1>1, <3>1, <3>2 DEF Calls
  <2>2. call'.op = "create_table" /\ call'.names = <<t>>
    BY <1>1 DEF Calls
  <2> QED BY <2>1, <2>2, PromisedFacts
<1>2. CASE Calls("stage_create_table", <<t>>, StageCreateTable(t))
  <2>1. call'.op = "stage_create_table" /\ call'.names = <<t>> /\ StageCreateTable(t)
    BY <1>2 DEF Calls
  <2> QED BY <2>1, TableStaged, PromisedFacts
<1>3. CASE Calls("commit", {t}, CommitTable(t))
  <2>1. call'.op = "commit" /\ call'.names = {t} /\ CommitTable(t)
    BY <1>3 DEF Calls
  <2>2. /\ Route(t[1]) \in Store /\ ~IsRoot(t[1]) /\ InnerIdents({t}) = {InnerIdent(t)}
        /\ CommitIn(Route(t[1]), InnerIdents({t}))
    BY <2>1, NameFacts DEF CommitTable, InnerIdents
  <2> QED BY <2>1, <2>2, Committed, PromisedFacts
<1>4. CASE Calls("drop_table", <<t>>, DropTable(t) \/ PurgeTable(t))
  <2>1. call'.op = "drop_table" /\ call'.names = <<t>>
    BY <1>4 DEF Calls
  <2>2. ~IsRoot(t[1]) /\ DropTableIn(Route(t[1]), InnerIdent(t))
    BY <1>4 DEF Calls, DropTable, PurgeTable
  <2> QED BY <2>1, <2>2, TableDropped, PromisedFacts
<1> QED BY <1>1, <1>2, <1>3, <1>4

LEMMA ViewStep ==
  ASSUME StoresInv, NEW t \in Ident,
         \/ Calls("create_view", <<t>>, CreateView(t) \/ RegisterView(t))
         \/ Calls("update_view", <<t>>, UpdateView(t))
         \/ Calls("drop_view", <<t>>, DropView(t))
  PROVE  StoresInv' /\ Promised(call'.op, call'.names)
<1>1. CASE Calls("create_view", <<t>>, CreateView(t) \/ RegisterView(t))
  <2>1. call'.op = "create_view" /\ call'.names = <<t>> /\ (CreateView(t) \/ RegisterView(t))
    BY <1>1 DEF Calls
  <2> QED BY <2>1, ViewCreated, ViewRegistered, PromisedFacts
<1>2. CASE Calls("update_view", <<t>>, UpdateView(t))
  <2>1. call'.op = "update_view" /\ call'.names = <<t>> /\ UpdateView(t)
    BY <1>2 DEF Calls
  <2> QED BY <2>1, ViewUpdated, PromisedFacts
<1>3. CASE Calls("drop_view", <<t>>, DropView(t))
  <2>1. call'.op = "drop_view" /\ call'.names = <<t>> /\ DropView(t)
    BY <1>3 DEF Calls
  <2> QED BY <2>1, ViewDropped, PromisedFacts
<1> QED BY <1>1, <1>2, <1>3

LEMMA ManyStep ==
  ASSUME StoresInv, NEW T \in SUBSET Ident, Calls("commit", T, CommitTablesAtomic(T))
  PROVE  StoresInv' /\ Promised(call'.op, call'.names)
<1>1. call'.op = "commit" /\ call'.names = T /\ CommitTablesAtomic(T)
  BY DEF Calls
<1>2. PICK s \in Store : /\ Targets(T) = {s} /\ \A t \in T : ~IsRoot(t[1])
                         /\ CommitIn(s, InnerIdents(T))
  BY <1>1 DEF CommitTablesAtomic, InnerIdents
<1>3. T # {} /\ \A t \in T : Route(t[1]) = s
  BY <1>2 DEF Targets
<1> QED BY <1>1, <1>2, <1>3, Committed, PromisedFacts

LEMMA RenameStep ==
  ASSUME StoresInv, NEW t \in Ident, NEW u \in Ident,
         \/ Calls("rename_table", <<t, u>>, RenameTable(t, u))
         \/ Calls("rename_view", <<t, u>>, RenameView(t, u))
  PROVE  StoresInv' /\ Promised(call'.op, call'.names)
<1>1. CASE Calls("rename_table", <<t, u>>, RenameTable(t, u))
  <2>1. call'.op = "rename_table" /\ call'.names = <<t, u>> /\ RenameTable(t, u)
    BY <1>1 DEF Calls
  <2> QED BY <2>1, TableRenamed, PromisedFacts
<1>2. CASE Calls("rename_view", <<t, u>>, RenameView(t, u))
  <2>1. call'.op = "rename_view" /\ call'.names = <<t, u>> /\ RenameView(t, u)
    BY <1>2 DEF Calls
  <2> QED BY <2>1, ViewRenamed, PromisedFacts
<1> QED BY <1>1, <1>2

LEMMA BehindStep ==
  ASSUME StoresInv, WholeScans, NEW s \in Remote, Behind(s)
  PROVE  StoresInv' /\ Promised(call'.op, call'.names)
<1>0. s \in Store
  BY FederationAssumption DEF Store
<1>1. ASSUME NEW p \in OwnPath, NEW q \in Path, q = Prefixed(s, p),
             \/ Calls("create_namespace", <<q>>, CreateSpaceIn(s, p))
             \/ Calls("drop_namespace", <<q>>, DropSpaceIn(s, p))
      PROVE  StoresInv' /\ Promised(call'.op, call'.names)
  <2>1. Route(q) = s /\ Inner(q) = p /\ ~IsRoot(q)
    BY <1>1, BehindNames
  <2>2. CASE Calls("create_namespace", <<q>>, CreateSpaceIn(s, p))
    <3>1. call'.op = "create_namespace" /\ call'.names = <<q>> /\ CreateSpaceIn(Route(q), Inner(q))
      BY <2>1, <2>2 DEF Calls
    <3> QED BY <2>1, <3>1, SpaceCreated, PromisedFacts
  <2>3. CASE Calls("drop_namespace", <<q>>, DropSpaceIn(s, p))
    <3>1. call'.op = "drop_namespace" /\ call'.names = <<q>> /\ DropSpaceIn(Route(q), Inner(q))
      BY <2>1, <2>3 DEF Calls
    <3> QED BY <2>1, <3>1, SpaceDropped, PromisedFacts
  <2> QED BY <1>1, <2>2, <2>3
<1>2. ASSUME NEW i \in OwnIdent, NEW t \in Ident, t = <<Prefixed(s, i[1]), i[2]>>,
             \/ Calls("create_table", <<t>>, CreateTableIn(s, i))
             \/ Calls("drop_table", <<t>>, DropTableIn(s, i))
      PROVE  StoresInv' /\ Promised(call'.op, call'.names)
  <2>1. i[1] \in OwnPath
    <3>1. CASE CreateTableIn(s, i)
      BY <1>0, <3>1 DEF CreateTableIn, StoresInv, StoreTypes
    <3>2. CASE DropTableIn(s, i)
      <4>1. i[1] # <<>>
        BY <1>0, <3>2 DEF DropTableIn, StoresInv, NoneAtRoots
      <4>2. PICK u \in Ident : i = InnerIdent(u)
        BY DEF OwnIdent
      <4>3. u[1] \in Path /\ i[1] = Inner(u[1])
        BY <4>2, IdentFacts
      <4> QED BY <4>1, <4>3 DEF OwnPath
    <3> QED BY <1>2, <3>1, <3>2 DEF Calls
  <2>2. ~IsRoot(t[1]) /\ Route(t[1]) = s /\ InnerIdent(t) = i
    BY <1>2, <2>1, BehindIdents
  <2>3. CASE Calls("create_table", <<t>>, CreateTableIn(s, i))
    <3>1. /\ call'.op = "create_table" /\ call'.names = <<t>>
          /\ CreateTableIn(Route(t[1]), InnerIdent(t))
      BY <2>2, <2>3 DEF Calls
    <3> QED BY <2>2, <3>1, TableCreated, PromisedFacts
  <2>4. CASE Calls("drop_table", <<t>>, DropTableIn(s, i))
    <3>1. /\ call'.op = "drop_table" /\ call'.names = <<t>>
          /\ DropTableIn(Route(t[1]), InnerIdent(t))
      BY <2>2, <2>4 DEF Calls
    <3> QED BY <2>2, <3>1, TableDropped, PromisedFacts
  <2> QED BY <1>2, <2>3, <2>4
<1> QED BY <1>1, <1>2 DEF Behind

LEMMA StoresStep ==
  ASSUME StoresInv, WholeScans, [Next]_vars
  PROVE  StoresInv' /\ (stores' # stores => Promised(call'.op, call'.names))
<1>1. CASE UNCHANGED stores
  BY <1>1 DEF stores, StoresInv, StoreTypes, KnownWritten, StagingsKnown, NoneAtRoots
<1>2. CASE Change
  <2>1. \/ NamespaceCall \/ ObjectCall \/ \E s \in Remote : Behind(s)
    BY <1>2 DEF Change
  <2>2. ASSUME ObjectCall PROVE StoresInv' /\ Promised(call'.op, call'.names)
    <3>1. \/ \E t \in Ident :
               \/ Calls("create_table", <<t>>, CreateTable(t) \/ RegisterTable(t))
               \/ Calls("stage_create_table", <<t>>, StageCreateTable(t))
               \/ Calls("commit", {t}, CommitTable(t))
               \/ Calls("drop_table", <<t>>, DropTable(t) \/ PurgeTable(t))
          \/ \E t \in Ident :
               \/ Calls("create_view", <<t>>, CreateView(t) \/ RegisterView(t))
               \/ Calls("update_view", <<t>>, UpdateView(t))
               \/ Calls("drop_view", <<t>>, DropView(t))
          \/ \E T \in SUBSET Ident : Calls("commit", T, CommitTablesAtomic(T))
          \/ \E t, u \in Ident :
               \/ Calls("rename_table", <<t, u>>, RenameTable(t, u))
               \/ Calls("rename_view", <<t, u>>, RenameView(t, u))
      BY <2>2, Zenon DEF ObjectCall
    <3> QED BY <3>1, TableStep, ViewStep, ManyStep, RenameStep
  <2> QED BY <2>1, <2>2, NamespaceStep, BehindStep
<1>3. UNCHANGED stores \/ Change
  BY DEF Next, Ask, Fetch, Examine, EndBatch, FetchFails, vars
<1> QED BY <1>1, <1>2, <1>3

\* Every call routed does, to the names the client gave, what CatalogSpec says of it, all of
\* it or nothing (federated.rs), for any mounts and any names that a scan does not miss:
\* redb.rs:516 ends one at U+FFFF.
THEOREM CallsAsPromisedHolds == ASSUME WholeScans PROVE Spec => CallsAsPromised
<1>1. Init => StoresInv
  BY StoresBegin DEF Init
<1>2. StoresInv /\ [Next]_vars => StoresInv'
  BY StoresStep
<1>3. StoresInv /\ [Next]_vars => [stores' # stores => Promised(call'.op, call'.names)]_vars
  BY StoresStep
<1> QED BY <1>1, <1>2, <1>3, PTL DEF Spec, CallsAsPromised

-----------------------------------------------------------------------------
(* Where a listing is                                                      *)

\* Every name there may be.
Name == 1..LastName

\* How many of a set of names come up to one.
Rank(S, n) == Cardinality({m \in S : m <= n})

\* Where the rows of a listing come from.
Source(what) ==
  IF what.of = <<>> THEN "root" ELSE IF Route(what.of) \in Remote THEN "remote" ELSE "store"

Position(src) ==
  IF src = "root" THEN [phase : {"mounts", "native"}, after : Name]
  ELSE IF src = "remote" THEN [token : Nat \cup {None}, skip : Nat] ELSE Name

\* An entry of a page.
Entry(src) == [item : Name, cursor : Position(src)]

\* The names a position is past: in a remote listing it counts rows, so that what it is past
\* depends on the rows there are.
Passed(src, rows, at) ==
  IF at = None THEN {}
  ELSE IF src = "root"
       THEN IF at.phase = "mounts" THEN Mount \ After(at.after)
            ELSE Mount \cup (Name \ After(at.after))
  ELSE IF src = "remote"
       THEN {n \in Name : n \in After(at.token) => Rank(After(at.token) \cap rows, n) <= at.skip}
  ELSE Name \ After(at)

\* A remote that divides its rows serves more than a position skips of a page, or the page
\* would be served again; one that does not has just the one page.
Resumable(src, manner, rows, at) ==
  src = "remote" /\ at # None =>
    /\ manner = "pages" =>
         \/ at.skip = 0
         \/ /\ at.skip < Cardinality(After(at.token) \cap rows)
            /\ at.skip < MaxPageSize /\ at.skip < RemoteCap
    /\ manner = "whole" =>
         at.token = None /\ (at.skip = 0 \/ at.skip < Cardinality(After(None) \cap rows))

\* The items of a page up to one.
Items(entries, k) == {entries[j].item : j \in 1..k}

\* A page from a position on leaves no row out.
Complete(src, rows, from, page) ==
  /\ \A k \in 1..Len(page.entries) :
       rows \cap Passed(src, rows, page.entries[k].cursor)
         \subseteq Passed(src, rows, from) \cup Items(page.entries, k)
  /\ page.next = None => rows \subseteq Passed(src, rows, from) \cup Items(page.entries, Len(page.entries))
  /\ page.entries = <<>> /\ page.next # None =>
       page.next # from /\ rows \cap Passed(src, rows, page.next) \subseteq Passed(src, rows, from)

\* What a page holds, each of its positions is past and none before it was.
InTurn(src, rows, from, page) ==
  /\ \A k \in 1..Len(page.entries) :
       LET entry == page.entries[k]
       IN /\ entry.item \notin Passed(src, rows, from)
          /\ Passed(src, rows, from) \cup Items(page.entries, k) \subseteq Passed(src, rows, entry.cursor)
          /\ \A j \in 1..(k - 1) : entry.item \notin Passed(src, rows, page.entries[j].cursor)

\* What a page still holds comes after what has been shown or is kept.
Follows(src, rows, done, entries) ==
  \A k \in 1..Len(entries) :
    /\ entries[k].item \notin done
    /\ done \cup Items(entries, k) \subseteq Passed(src, rows, entries[k].cursor)
    /\ \A j \in 1..(k - 1) : entries[k].item \notin Passed(src, rows, entries[j].cursor)

\* What is asked for again of a page is what can be.
GoesOn(src, manner, rows, page) ==
  /\ \A k \in 1..Len(page.entries) : k < Len(page.entries) \/ page.next # None =>
       Resumable(src, manner, rows, page.entries[k].cursor)
  /\ page.next # None => Resumable(src, manner, rows, page.next)

-----------------------------------------------------------------------------
(* What is true of every listing                                           *)

\* While a request is under way, and while its listing is.
Under == {"fetch", "rows"}
Open == Under \cup {"more"}

\* A request, by its parts.
Formed(q) ==
  /\ q = [phase |-> q.phase, what |-> q.what, limit |-> q.limit, after |-> q.after,
          cursor |-> q.cursor, batch |-> q.batch, bare |-> q.bare, kept |-> q.kept,
          scanned |-> q.scanned, fetches |-> q.fetches]
  /\ q.batch = [entries |-> q.batch.entries, next |-> q.batch.next]

\* What a request is at each point of its way, next to what its listing has shown.
Asked(q, seen) ==
  /\ Formed(q) /\ seen \in Seq(Name)
  /\ q.phase \in Open \cup {"none", "ended", "refused"}
  /\ IF q.phase = "none" THEN q = NoRequest /\ seen = <<>> ELSE q.what \in What
  /\ q.phase \in Open => q.after \in Position(Source(q.what)) \cup {None}
  /\ q.phase = "more" => q.after # None
  /\ q.phase \in Open /\ q.after = None => seen = <<>>
  /\ q.phase \in Under =>
       /\ q.cursor \in Position(Source(q.what)) \cup {None}
       /\ q.limit \in 1..MaxPageSize /\ q.kept \in Seq(Name)
  /\ q.phase = "rows" =>
       /\ q.batch.entries \in Seq(Entry(Source(q.what)))
       /\ q.batch.next \in Position(Source(q.what)) \cup {None}
       /\ q.bare \in BOOLEAN
       /\ q.bare => q.batch.entries = <<>>
       /\ q.batch.entries = <<>> /\ ~q.bare => q.cursor # None

\* A remote that names pages without rows never shows any.
Idle(q, manner, seen) ==
  q.phase # "none" /\ Source(q.what) = "remote" /\ manner \in {"stuck", "endless"} =>
    /\ seen = <<>>
    /\ q.phase \in Under => q.kept = <<>>
    /\ q.phase = "rows" => q.batch.entries = <<>>

\* What is wanted and passed has been shown or is kept for the page.
NoneLost(q, rows, seen, wanted) ==
  LET src  == Source(q.what)
      done == Range(seen) \cup Range(q.kept)
      all  == Len(q.batch.entries)
  IN /\ q.phase \in Open => wanted \cap Passed(src, rows, q.after) \subseteq Range(seen)
     /\ q.phase \in Under => wanted \cap Passed(src, rows, q.cursor) \subseteq done
     /\ q.phase = "rows" =>
          /\ \A k \in 1..all : wanted \cap Passed(src, rows, q.batch.entries[k].cursor)
                                 \subseteq done \cup Items(q.batch.entries, k)
          /\ q.batch.next = None => wanted \subseteq done \cup Items(q.batch.entries, all)
          /\ q.bare /\ q.batch.next # None =>
               /\ q.batch.next # q.cursor
               /\ wanted \cap Passed(src, rows, q.batch.next) \subseteq done
     /\ q.phase = "ended" => wanted \subseteq Range(seen)

\* What has been shown or is kept is passed, and what comes is not.
NoneTwice(q, rows, manner, seen) ==
  LET src  == Source(q.what)
      done == Range(seen) \cup Range(q.kept)
  IN /\ IsInjective(seen)
     /\ q.phase \in Open => /\ Range(seen) \subseteq Passed(src, rows, q.after)
                            /\ Resumable(src, manner, rows, q.after)
     /\ q.phase \in Under => /\ done \subseteq Passed(src, rows, q.cursor)
                             /\ IsInjective(q.kept) /\ Range(seen) \cap Range(q.kept) = {}
     /\ q.phase = "fetch" => Resumable(src, manner, rows, q.cursor)
     /\ q.phase = "rows" =>
          /\ Follows(src, rows, done, q.batch.entries) /\ GoesOn(src, manner, rows, q.batch)
          /\ q.batch.next # None /\ q.batch.entries = <<>> =>
               IF q.bare THEN done \subseteq Passed(src, rows, q.batch.next)
               ELSE Resumable(src, manner, rows, q.cursor)

\* One client's listing, on rows as they are: what was there when it began and still is, and
\* what has become of the others since.
Followed(q, rows, seen, since, fate, manner, hidden) ==
  /\ Asked(q, seen) /\ Idle(q, manner, seen)
  /\ q.phase # "none" =>
       /\ since \subseteq rows
       /\ (Source(q.what) = "remote" => manner = "pages" /\ "dropped" \notin fate) =>
            NoneLost(q, rows, seen, since \ hidden)
       /\ (Source(q.what) = "remote" => fate = {}) => NoneTwice(q, rows, manner, seen)

\* No remote has a view.
NoRemoteViews == \A s \in Remote, i \in OwnIdent : views[s][i] = None

\* A scenario, and what is left of it.
Given == scenario \in [what : SUBSET What, limits : SUBSET (1..MaxPageSize), manner : Manner,
                       hidden : SUBSET Name, events : SUBSET {"namespaces", "objects", "remote"},
                       changes : Nat, faults : Nat]

\* One client's listing, as it is.
Following(c) ==
  Followed(asking[c], Shown(asking[c].what), got[c], there[c], disturbed[c],
           scenario.manner, scenario.hidden)

\* The listings of all clients, and what they list.
ListingInv ==
  /\ StoresInv /\ NoRemoteViews /\ Given
  /\ asking = [c \in Client |-> asking[c]] /\ got = [c \in Client |-> got[c]]
  /\ there = [c \in Client |-> there[c]] /\ disturbed = [c \in Client |-> disturbed[c]]
  /\ \A c \in Client : Following(c)

-----------------------------------------------------------------------------
(* Names in order                                                          *)

\* The order of the numbers.
Earlier == {p \in Nat \X Nat : p[1] < p[2]}

\* A set of numbers has a least one.
LEMMA Smallest ==
  ASSUME NEW Q, Q \subseteq Nat, Q # {}
  PROVE  \E m \in Q : \A n \in Q : m <= n
<1>1. IsWellFoundedOn(Earlier, Nat)
  BY NatLessThanWellFounded DEF OpToRel, Earlier
<1>2. PICK m \in Q : \A n \in Q : <<n, m>> \notin Earlier
  BY <1>1, WFMin
<1>3. ASSUME NEW n \in Q PROVE m <= n
  <2>1. m \in Nat /\ n \in Nat
    OBVIOUS
  <2>2. ~(n < m)
    BY <1>2, <2>1 DEF Earlier
  <2> QED BY <2>1, <2>2
<1> QED BY <1>3

\* Names are numbers.
LEMMA NameIs == Name \subseteq Nat \ {0} /\ \A n \in Name : n <= LastName
  BY PagingAssumption DEF Name

\* There are finitely many of them.
LEMMA FewNames ==
  ASSUME NEW S \in SUBSET Name
  PROVE  IsFiniteSet(S) /\ Cardinality(S) \in Nat
<1>1. IsFiniteSet(Name)
  BY PagingAssumption, FS_Interval DEF Name
<1> QED BY <1>1, FS_Subset, FS_CardinalityType

\* Of names, those up to one: more of them further on, and of more names.
LEMMA RankFacts ==
  ASSUME NEW S \in SUBSET Name, NEW m \in Name
  PROVE  /\ Rank(S, m) \in 0..Cardinality(S)
         /\ m \in S => Rank(S, m) >= 1
         /\ \A n \in Name : m <= n => Rank(S, m) <= Rank(S, n)
         /\ \A n \in S : m < n => Rank(S, m) < Rank(S, n)
         /\ \A T \in SUBSET S : Rank(T, m) <= Rank(S, m)
<1> DEFINE Up(T, n) == {k \in T : k <= n}
<1>1. S \subseteq Nat /\ m \in Nat /\ \A n \in Name : n \in Nat
  BY NameIs
<1>2. \A T \in SUBSET S, n \in Name : Up(T, n) \in SUBSET S /\ Up(T, n) \in SUBSET Name
  OBVIOUS
<1>3. \A T \in SUBSET S, n \in Name : Rank(T, n) = Cardinality(Up(T, n)) /\ Rank(T, n) \in Nat
                                      /\ IsFiniteSet(Up(T, n))
  BY <1>2, FewNames DEF Rank
<1>4. Rank(S, m) \in 0..Cardinality(S)
  <2>1. Cardinality(Up(S, m)) <= Cardinality(S)
    BY <1>2, FewNames, FS_Subset
  <2>2. Cardinality(S) \in Nat
    BY FewNames
  <2> HIDE DEF Up
  <2> QED BY <1>3, <2>1, <2>2
<1>5. ASSUME m \in S PROVE Rank(S, m) >= 1
  <2>1. Up(S, m) # {}
    BY <1>1, <1>5
  <2>2. Cardinality(Up(S, m)) # 0
    BY <1>3, <2>1, FS_EmptySet
  <2> HIDE DEF Up
  <2> QED BY <1>3, <2>2
<1>6. ASSUME NEW n \in Name, m <= n PROVE Rank(S, m) <= Rank(S, n)
  <2>1. Up(S, m) \in SUBSET Up(S, n)
    <3>1. ASSUME NEW k \in S, k <= m PROVE k <= n
      <4>1. k \in Nat /\ m \in Nat /\ n \in Nat
        BY <1>1
      <4> QED BY <1>6, <3>1, <4>1
    <3> QED BY <3>1
  <2>2. Cardinality(Up(S, m)) <= Cardinality(Up(S, n))
    BY <1>3, <2>1, FS_Subset
  <2> HIDE DEF Up
  <2> QED BY <1>3, <2>2
<1>7. ASSUME NEW n \in S, m < n PROVE Rank(S, m) < Rank(S, n)
  <2>0. n \in Name /\ m <= n
    BY <1>1, <1>7
  <2>1. Up(S, m) \in SUBSET Up(S, n) /\ n \in Up(S, n) /\ n \notin Up(S, m)
    <3>1. ASSUME NEW k \in S, k <= m PROVE k <= n
      <4>1. k \in Nat /\ m \in Nat /\ n \in Nat
        BY <1>1
      <4> QED BY <1>7, <3>1, <4>1
    <3>2. m \in Nat /\ n \in Nat
      BY <1>1
    <3>3. n <= n /\ ~(n <= m)
      BY <1>7, <3>2
    <3> QED BY <3>1, <3>3
  <2>2. Cardinality(Up(S, m)) # Cardinality(Up(S, n))
    BY <1>3, <2>0, <2>1, FS_Subset
  <2> HIDE DEF Up
  <2> QED BY <1>3, <1>6, <2>0, <2>2
<1>8. ASSUME NEW T \in SUBSET S PROVE Rank(T, m) <= Rank(S, m)
  <2>1. Up(T, m) \in SUBSET Up(S, m)
    OBVIOUS
  <2>2. Cardinality(Up(T, m)) <= Cardinality(Up(S, m))
    BY <1>3, <2>1, FS_Subset
  <2> HIDE DEF Up
  <2> QED BY <1>3, <2>2
<1> HIDE DEF Up
<1> QED BY <1>4, <1>5, <1>6, <1>7, <1>8

\* There is a name at every place.
LEMMA Ranked ==
  ASSUME NEW S \in SUBSET Name, NEW k \in 1..Cardinality(S)
  PROVE  \E n \in S : Rank(S, n) = k
<1> DEFINE Bare == {i \in 1..Cardinality(S) : \A n \in S : Rank(S, n) # i}
<1>0. Cardinality(S) \in Nat /\ IsFiniteSet(S) /\ S \subseteq Nat /\ \A n \in S : n \in Name
  BY FewNames, NameIs
<1>1. SUFFICES ASSUME Bare # {} PROVE FALSE
  OBVIOUS
<1>2. PICK i \in Bare : \A j \in Bare : i <= j
  <2>1. Bare \subseteq Nat
    BY <1>0
  <2> HIDE DEF Bare
  <2> QED BY <1>1, <2>1, Smallest
<1>3. i \in 1..Cardinality(S) /\ i \in Nat /\ i >= 1 /\ \A n \in S : Rank(S, n) # i
  BY <1>0, <1>2
<1>4. \A j \in 1..Cardinality(S) : j < i => \E n \in S : Rank(S, n) = j
  BY <1>0, <1>2, <1>3
<1> HIDE DEF Bare
<1>5. CASE i = 1
  <2>1. S # {}
    BY <1>0, <1>3, FS_EmptySet
  <2>2. PICK n \in S : \A l \in S : n <= l
    BY <1>0, <2>1, Smallest
  <2>3. {l \in S : l <= n} = {n}
    <3>1. ASSUME NEW l \in S PROVE l <= n <=> l = n
      <4>1. l \in Nat /\ n \in Nat /\ n <= l
        BY <1>0, <2>2
      <4> QED BY <4>1
    <3> QED BY <3>1
  <2>4. Rank(S, n) = 1
    BY <2>3, FS_Singleton DEF Rank
  <2> QED BY <1>3, <1>5, <2>4
<1>6. CASE i # 1
  <2>1. i - 1 \in 1..Cardinality(S) /\ i - 1 < i /\ i - 1 < Cardinality(S)
    BY <1>0, <1>3, <1>6
  <2>2. PICK n \in S : Rank(S, n) = i - 1
    BY <1>4, <2>1
  <2> DEFINE up == {l \in S : l <= n}
             over == {l \in S : n < l}
  <2>3. over # {}
    <3>1. SUFFICES ASSUME over = {} PROVE FALSE
      OBVIOUS
    <3>2. up = S
      <4>1. ASSUME NEW l \in S PROVE l <= n
        <5>1. l \in Nat /\ n \in Nat /\ ~(n < l)
          BY <1>0, <3>1
        <5> QED BY <5>1
      <4> QED BY <4>1
    <3>3. Rank(S, n) = Cardinality(S)
      BY <3>2 DEF Rank
    <3> QED BY <1>0, <2>1, <2>2, <3>3
  <2>4. PICK m \in over : \A l \in over : m <= l
    BY <1>0, <2>3, Smallest
  <2>5. {l \in S : l <= m} = up \cup {m} /\ m \notin up /\ m \in S
    <3>1. m \in S /\ n < m /\ m \in Nat /\ n \in Nat
      BY <1>0, <2>4
    <3>2. ~(m <= n) /\ m <= m
      BY <3>1
    <3>3. ASSUME NEW l \in S PROVE l <= m <=> l <= n \/ l = m
      <4>1. l \in Nat /\ (n < l => m <= l)
        BY <1>0, <2>4
      <4> QED BY <3>1, <4>1
    <3> QED BY <3>1, <3>2, <3>3
  <2>6. IsFiniteSet(up) /\ Cardinality(up) = i - 1
    <3>1. up \in SUBSET Name
      OBVIOUS
    <3> QED BY <2>2, <3>1, FewNames DEF Rank
  <2> HIDE DEF up, over
  <2>7. Cardinality(up \cup {m}) = (i - 1) + 1
    BY <2>5, <2>6, FS_AddElement
  <2>8. Rank(S, m) = i
    BY <1>3, <2>5, <2>7 DEF Rank
  <2> QED BY <1>3, <2>5, <2>8
<1> QED BY <1>5, <1>6

\* No two names of a set have one rank.
LEMMA SameRank ==
  ASSUME NEW S \in SUBSET Name, NEW m \in S, NEW n \in S, Rank(S, m) = Rank(S, n)
  PROVE  m = n
<1>1. m \in Nat /\ n \in Nat /\ m \in Name /\ n \in Name
  BY NameIs
<1>2. Rank(S, m) \in Nat /\ Rank(S, n) \in Nat
  <2>1. Cardinality(S) \in Nat
    BY FewNames
  <2> QED BY <1>1, <2>1, RankFacts
<1>3. ~(m < n) /\ ~(n < m)
  BY <1>1, <1>2, RankFacts
<1> QED BY <1>1, <1>3

\* Names in order: each is at its rank.
LEMMA InOrderIs ==
  ASSUME NEW S \in SUBSET Name
  PROVE  /\ InOrder[S] \in Seq(S) /\ InOrder[S] \in Seq(Name)
         /\ Len(InOrder[S]) = Cardinality(S) /\ Cardinality(S) \in Nat
         /\ DOMAIN InOrder[S] = 1..Cardinality(S)
         /\ \A k \in 1..Cardinality(S) : InOrder[S][k] \in S /\ Rank(S, InOrder[S][k]) = k
         /\ \A n \in S : Rank(S, n) \in 1..Cardinality(S) /\ InOrder[S][Rank(S, n)] = n
<1>1. InOrder[S] = [k \in 1..Cardinality(S) |-> CHOOSE n \in S : Rank(S, n) = k]
  BY DEF InOrder, Name, Rank
<1>2. \A k \in 1..Cardinality(S) : InOrder[S][k] \in S /\ Rank(S, InOrder[S][k]) = k
  <2> TAKE k \in 1..Cardinality(S)
  <2>1. \E n \in S : Rank(S, n) = k
    BY Ranked
  <2>2. (CHOOSE n \in S : Rank(S, n) = k) \in S /\ Rank(S, CHOOSE n \in S : Rank(S, n) = k) = k
    BY <2>1, Zenon
  <2> QED BY <1>1, <2>2
<1>3. Cardinality(S) \in Nat
  BY FewNames
<1>4. InOrder[S] \in [1..Cardinality(S) -> S]
  BY <1>1, <1>2
<1>5. InOrder[S] \in Seq(S) /\ Len(InOrder[S]) = Cardinality(S)
  BY ONLY <1>3, <1>4
<1>6. InOrder[S] \in Seq(Name)
  BY <1>3, <1>4
<1>7. \A n \in S : Rank(S, n) \in 1..Cardinality(S) /\ InOrder[S][Rank(S, n)] = n
  <2> TAKE n \in S
  <2>1. Rank(S, n) \in 1..Cardinality(S)
    <3>1. n \in Name
      OBVIOUS
    <3> QED BY <1>3, <3>1, RankFacts
  <2> QED BY <1>2, <2>1, SameRank
<1> QED BY <1>1, <1>2, <1>3, <1>5, <1>6, <1>7

\* What is in order rises.
LEMMA OrderOf ==
  ASSUME NEW S \in SUBSET Name, NEW j \in 1..Cardinality(S), NEW k \in 1..Cardinality(S)
  PROVE  j < k <=> InOrder[S][j] < InOrder[S][k]
<1> DEFINE m == InOrder[S][j]
           n == InOrder[S][k]
<1>1. m \in S /\ n \in S /\ Rank(S, m) = j /\ Rank(S, n) = k
  BY InOrderIs
<1>2. m \in Name /\ n \in Name /\ m \in Nat /\ n \in Nat /\ Cardinality(S) \in Nat
  BY <1>1, NameIs, FewNames
<1> HIDE DEF m, n
<1>3. m < n => j < k
  BY <1>1, <1>2, RankFacts
<1>4. ~(m < n) => k <= j
  BY <1>1, <1>2, RankFacts
<1> QED BY <1>2, <1>3, <1>4 DEF m, n

\* What is after a name is greater.
LEMMA AfterIs ==
  ASSUME NEW a \in Nat \cup {None}
  PROVE  /\ After(a) \subseteq Name
         /\ \A n \in Name : n \in After(a) <=> a = None \/ n > a
  BY PagingAssumption, NamesAssumption DEF After, Name

-----------------------------------------------------------------------------
(* A page                                                                  *)

\* The smaller of two numbers is one of them.
LEMMA LeastIs ==
  ASSUME NEW m \in Nat, NEW n \in Nat
  PROVE  /\ Least(m, n) \in Nat /\ Least(m, n) <= m /\ Least(m, n) <= n
         /\ Least(m, n) = m \/ Least(m, n) = n
  BY DEF Least

\* The rows after a name are those in the interval after it.
LEMMA NextRows ==
  ASSUME NEW rows \in SUBSET Name, NEW a \in Nat \cup {None}
  PROVE  /\ RowsAfter(rows, a) = InOrder[After(a) \cap rows] /\ After(a) \cap rows \in SUBSET Name
         /\ RowsAfter(rows, a) \in Seq(Name)
         /\ Len(RowsAfter(rows, a)) = Cardinality(After(a) \cap rows)
         /\ Cardinality(After(a) \cap rows) \in Nat
  BY InOrderIs DEF RowsAfter

\* The rows after a name, up to the k-th.
LEMMA Slice ==
  ASSUME NEW rows \in SUBSET Name, NEW a \in Nat \cup {None},
         NEW k \in 1..Cardinality(After(a) \cap rows)
  PROVE  LET s == InOrder[After(a) \cap rows]
         IN /\ s[k] \in rows /\ s[k] \in After(a) /\ s[k] \in Name
            /\ \A n \in rows : n \in After(a) /\ n \notin After(s[k]) => \E j \in 1..k : s[j] = n
            /\ After(s[k]) \subseteq After(a)
            /\ \A j \in 1..k : s[j] \notin After(s[k]) /\ s[j] \in Name
            /\ \A j \in 1..(k - 1) : s[k] \in After(s[j])
<1> DEFINE B == After(a) \cap rows
           s == InOrder[B]
<1>1. B \in SUBSET Name /\ Cardinality(B) \in Nat /\ k \in 1..Cardinality(B)
  BY FewNames
<1>2. /\ \A j \in 1..Cardinality(B) : s[j] \in B /\ Rank(B, s[j]) = j
      /\ \A n \in B : Rank(B, n) \in 1..Cardinality(B) /\ s[Rank(B, n)] = n
  BY <1>1, InOrderIs
<1>3. \A i, j \in 1..Cardinality(B) : i < j <=> s[i] < s[j]
  BY <1>1, OrderOf
<1>4. \A n \in B : n \in rows /\ n \in After(a) /\ n \in Name /\ n \in Nat
  BY <1>1, NameIs
<1> HIDE DEF s
<1>5. \A j \in 1..k : j \in 1..Cardinality(B) /\ j \in Nat
  BY <1>1
<1>6. \A n \in Name : n \in Nat /\ n \in Nat \cup {None} /\ n # None
  BY NameIs, NamesAssumption
<1>7. \A m, n \in Name : n \in After(m) <=> n > m
  BY <1>6, AfterIs
<1>8. \A j \in 1..Cardinality(B) : s[j] \in Name /\ s[j] \in Nat /\ s[j] \in B
  BY <1>2, <1>4
<1>9. \A n \in rows : n \in After(a) /\ n \notin After(s[k]) => \E j \in 1..k : s[j] = n
  <2> SUFFICES ASSUME NEW n \in rows, n \in After(a), n \notin After(s[k])
               PROVE  \E j \in 1..k : s[j] = n
    OBVIOUS
  <2>1. n \in B
    OBVIOUS
  <2>2. PICK j \in 1..Cardinality(B) : s[j] = n
    BY <1>2, <2>1
  <2>3. ~(n > s[k])
    BY <1>1, <1>4, <1>7, <1>8, <2>1
  <2>4. n \in Nat /\ s[k] \in Nat
    BY <1>1, <1>4, <1>8, <2>1
  <2>5. ~(k < j)
    BY <1>1, <1>3, <2>2, <2>3, <2>4
  <2>6. j \in 1..k
    BY <1>1, <2>5
  <2> QED BY <2>2, <2>6
<1>10. After(s[k]) \subseteq After(a)
  <2>1. s[k] \in Name /\ s[k] \in Nat /\ s[k] \in After(a)
    BY <1>1, <1>4, <1>8
  <2>2. a = None \/ s[k] > a
    BY <2>1, AfterIs
  <2>3. \A n \in After(s[k]) : n \in Name /\ n > s[k] /\ n \in Nat
    BY <1>6, <2>1, AfterIs
  <2>4. \A n \in After(s[k]) : a = None \/ n > a
    BY <2>1, <2>2, <2>3
  <2> QED BY <2>3, <2>4, AfterIs
<1>11. \A j \in 1..k : s[j] \notin After(s[k]) /\ s[j] \in Name
  <2> TAKE j \in 1..k
  <2>1. ~(k < j) /\ j \in 1..Cardinality(B)
    BY <1>1
  <2>2. ~(s[k] < s[j])
    BY <1>1, <1>3, <2>1
  <2> QED BY <1>1, <1>7, <1>8, <2>1, <2>2
<1>12. \A j \in 1..(k - 1) : s[k] \in After(s[j])
  <2> TAKE j \in 1..(k - 1)
  <2>1. j < k /\ j \in 1..Cardinality(B)
    BY <1>1
  <2>2. s[j] < s[k]
    BY <1>1, <1>3, <2>1
  <2> QED BY <1>1, <1>7, <1>8, <2>1, <2>2
<1>13. s[k] \in rows /\ s[k] \in After(a) /\ s[k] \in Name
  BY <1>1, <1>4, <1>8
<1> QED BY <1>9, <1>10, <1>11, <1>12, <1>13 DEF s

\* A page of a store's index.
LEMMA StorePageIs ==
  ASSUME WholeScans, NEW rows \in SUBSET Name, NEW a \in Nat \cup {None}, NEW limit \in Nat \ {0}
  PROVE  LET B    == After(a) \cap rows
             s    == InOrder[B]
             page == StorePage(rows, a, limit)
             n    == Least(Cardinality(B), limit)
         IN /\ page = [entries |-> [k \in 1..n |-> [item |-> s[k], cursor |-> s[k]]],
                       next    |-> IF Cardinality(B) > limit THEN s[limit] ELSE None]
            /\ n \in Nat /\ n <= Cardinality(B) /\ n <= limit /\ Cardinality(B) \in Nat
<1>1. {r \in rows : InScan(r)} = rows
  BY DEF InScan, WholeScans
<1>2. Len(InOrder[After(a) \cap rows]) = Cardinality(After(a) \cap rows)
  BY NextRows
<1>3. Cardinality(After(a) \cap rows) \in Nat
  BY NextRows
<1>4. StorePage(rows, a, limit) = FromProbe(InOrder[After(a) \cap rows], limit)
  BY <1>1 DEF StorePage, RowsAfter
<1> QED BY <1>2, <1>3, <1>4, LeastIs DEF FromProbe

\* Of a store, a page leaves nothing out and comes in turn.
LEMMA StorePages ==
  ASSUME WholeScans, NEW rows \in SUBSET Name, NEW at \in Name \cup {None}, NEW limit \in Nat \ {0}
  PROVE  LET page == StorePage(rows, at, limit)
         IN /\ page.entries \in Seq(Entry("store")) /\ page.next \in Position("store") \cup {None}
            /\ page = [entries |-> page.entries, next |-> page.next]
            /\ Complete("store", rows, at, page) /\ InTurn("store", rows, at, page)
            /\ page.entries = <<>> => page.next = None
<1> DEFINE B == After(at) \cap rows
           s == InOrder[B]
           page == StorePage(rows, at, limit)
           n == Least(Cardinality(B), limit)
<1>1. at \in Nat \cup {None} /\ (\A m \in Name : m \in Nat /\ m # None)
  BY NameIs, NamesAssumption
<1>2. /\ page = [entries |-> [k \in 1..n |-> [item |-> s[k], cursor |-> s[k]]],
                 next    |-> IF Cardinality(B) > limit THEN s[limit] ELSE None]
      /\ n \in Nat /\ n <= Cardinality(B) /\ n <= limit /\ Cardinality(B) \in Nat
  BY <1>1, StorePageIs
<1>3. n = Cardinality(B) \/ n = limit
  BY <1>2, LeastIs
<1>4. \A k \in 1..n : k \in 1..Cardinality(B) /\ k \in Nat
  BY <1>2
<1>5. ASSUME NEW k \in 1..Cardinality(B)
      PROVE  /\ s[k] \in rows /\ s[k] \in After(at) /\ s[k] \in Name
             /\ \A m \in rows : m \in After(at) /\ m \notin After(s[k]) => \E j \in 1..k : s[j] = m
             /\ After(s[k]) \subseteq After(at)
             /\ \A j \in 1..k : s[j] \notin After(s[k]) /\ s[j] \in Name
             /\ \A j \in 1..(k - 1) : s[k] \in After(s[j])
  BY <1>1, Slice
<1>6. \A m \in B : \E j \in 1..Cardinality(B) : s[j] = m
  BY <1>1, NextRows, InOrderIs
<1>7. Passed("store", rows, at) = IF at = None THEN {} ELSE Name \ After(at)
  BY DEF Passed
<1>8. \A m \in Name : Passed("store", rows, m) = Name \ After(m)
  BY <1>1 DEF Passed
<1>9. at = None => After(at) = Name
  BY DEF After, Name
<1> HIDE DEF B, s, n
<1>10. /\ Len(page.entries) = n /\ DOMAIN page.entries = 1..n
       /\ \A k \in 1..n : page.entries[k] = [item |-> s[k], cursor |-> s[k]]
       /\ page.next = IF Cardinality(B) > limit THEN s[limit] ELSE None
       /\ page = [entries |-> page.entries, next |-> page.next]
  BY <1>2
<1>16. ASSUME NEW k \in 1..n
       PROVE  /\ page.entries[k].item = s[k] /\ page.entries[k].cursor = s[k]
              /\ page.entries[k] = [item |-> s[k], cursor |-> s[k]]
              /\ s[k] \in Name /\ s[k] \in After(at) /\ s[k] \in rows
  <2>1. page.entries[k] = [item |-> s[k], cursor |-> s[k]]
    BY <1>10
  <2>2. s[k] \in Name /\ s[k] \in After(at) /\ s[k] \in rows
    BY <1>4, <1>5
  <2> QED BY <2>1, <2>2
<1>11. /\ page.entries \in Seq(Entry("store")) /\ page.next \in Position("store") \cup {None}
  <2>1. Entry("store") = [item : Name, cursor : Name] /\ Position("store") = Name
    BY DEF Entry, Position
  <2>2. \A k \in 1..n : page.entries[k] \in Entry("store")
    BY <1>16, <2>1
  <2>3. page.entries \in Seq(Entry("store"))
    BY <1>2, <2>2
  <2>4. Cardinality(B) > limit => limit \in 1..Cardinality(B)
    BY <1>2
  <2> QED BY <1>5, <1>10, <2>1, <2>3, <2>4
<1> HIDE DEF page
<1>12. \A k \in 1..n : Items(page.entries, k) = {s[j] : j \in 1..k}
  <2> TAKE k \in 1..n
  <2>1. \A j \in 1..k : page.entries[j].item = s[j]
    BY <1>2, <1>10
  <2> QED BY <2>1 DEF Items
<1>13. Complete("store", rows, at, page)
  <2>1. ASSUME NEW k \in 1..n
        PROVE  rows \cap Passed("store", rows, page.entries[k].cursor)
                 \subseteq Passed("store", rows, at) \cup Items(page.entries, k)
    <3>1. page.entries[k].cursor = s[k] /\ s[k] \in Name
      BY <1>16
    <3>2. Passed("store", rows, page.entries[k].cursor) = Name \ After(s[k])
      BY <1>8, <3>1
    <3>3. \A m \in rows : m \in After(at) /\ m \notin After(s[k]) => m \in Items(page.entries, k)
      BY <1>4, <1>5, <1>12
    <3>4. \A m \in Name : m \notin After(at) => m \in Passed("store", rows, at)
      BY <1>7, <1>9
    <3> QED BY <3>2, <3>3, <3>4
  <2>2. ASSUME page.next = None
        PROVE  rows \subseteq Passed("store", rows, at) \cup Items(page.entries, n)
    <3>1. n = Cardinality(B)
      <4>1. ~(Cardinality(B) > limit)
        <5>1. Cardinality(B) > limit => limit \in 1..Cardinality(B)
          BY <1>2
        <5> QED BY <1>1, <1>5, <1>10, <2>2, <5>1
      <4> QED BY <1>2, <1>3, <4>1
    <3>2. \A m \in B : m \in Items(page.entries, n)
      <4>1. CASE n = 0
        BY <1>6, <3>1, <4>1
      <4>2. CASE n # 0
        <5>1. n \in 1..n
          BY <1>2, <4>2
        <5> QED BY <1>6, <1>12, <3>1, <5>1
      <4> QED BY <4>1, <4>2
    <3>3. \A m \in Name : m \notin After(at) => m \in Passed("store", rows, at)
      BY <1>7, <1>9
    <3> QED BY <3>2, <3>3 DEF B
  <2>3. page.entries = <<>> => page.next = None
    <3>1. SUFFICES ASSUME page.entries = <<>> PROVE page.next = None
      OBVIOUS
    <3>2. n = 0
      BY <1>10, <3>1
    <3> QED BY <1>2, <1>3, <1>10, <3>2
  <2> QED BY <1>10, <2>1, <2>2, <2>3 DEF Complete
<1>14. InTurn("store", rows, at, page)
  <2>1. ASSUME NEW k \in 1..n
        PROVE  /\ page.entries[k].item \notin Passed("store", rows, at)
               /\ Passed("store", rows, at) \cup Items(page.entries, k)
                    \subseteq Passed("store", rows, page.entries[k].cursor)
               /\ \A j \in 1..(k - 1) :
                    page.entries[k].item \notin Passed("store", rows, page.entries[j].cursor)
    <3>1. /\ page.entries[k].cursor = s[k] /\ page.entries[k].item = s[k]
          /\ s[k] \in Name /\ s[k] \in After(at)
      BY <1>16
    <3>2. Passed("store", rows, page.entries[k].cursor) = Name \ After(s[k])
      BY <1>8, <3>1
    <3>3. Passed("store", rows, at) \subseteq Name \ After(s[k])
      BY <1>4, <1>5, <1>7
    <3>4. Items(page.entries, k) \subseteq Name \ After(s[k])
      BY <1>4, <1>5, <1>12
    <3>5. \A j \in 1..(k - 1) : s[k] \in After(s[j]) /\ s[j] \in Name /\ j \in 1..n
                                /\ Passed("store", rows, page.entries[j].cursor) = Name \ After(s[j])
      <4> TAKE j \in 1..(k - 1)
      <4>1. j \in 1..n /\ j \in 1..k
        BY <1>2
      <4>2. page.entries[j].cursor = s[j]
        BY <1>16, <4>1
      <4>3. s[k] \in After(s[j]) /\ s[j] \in Name
        <5>1. k \in 1..Cardinality(B) /\ j \in 1..(k - 1)
          BY <1>4
        <5>2. s[k] \in After(s[j])
          BY <1>5, <5>1
        <5> QED BY <1>16, <4>1, <5>2
      <4> QED BY <1>8, <4>1, <4>2, <4>3
    <3> QED BY <1>7, <3>1, <3>2, <3>3, <3>4, <3>5
  <2> QED BY <1>10, <2>1 DEF InTurn
<1>15. page.entries = <<>> => page.next = None
  <2>1. SUFFICES ASSUME page.entries = <<>> PROVE page.next = None
    OBVIOUS
  <2>2. n = 0
    BY <1>10, <2>1
  <2> QED BY <1>2, <1>3, <1>10, <2>2
<1> QED BY <1>10, <1>11, <1>13, <1>14, <1>15 DEF page

\* A name in order is after those before it, and before all that are after it.
LEMMA Sorted ==
  ASSUME NEW S \in SUBSET Name, NEW k \in 1..Cardinality(S)
  PROVE  LET s == InOrder[S]
         IN /\ s[k] \in S /\ s[k] \in Name
            /\ \A n \in S : n \notin After(s[k]) => \E j \in 1..k : s[j] = n
            /\ \A j \in 1..k : s[j] \notin After(s[k])
            /\ \A j \in 1..(k - 1) : s[k] \in After(s[j])
<1>1. After(None) = Name
  BY DEF After, Name
<1>2. After(None) \cap S = S
  BY <1>1
<1>3. S \in SUBSET Name /\ None \in Nat \cup {None} /\ k \in 1..Cardinality(After(None) \cap S)
  BY <1>2
<1>4. LET s == InOrder[After(None) \cap S]
      IN /\ s[k] \in S /\ s[k] \in After(None) /\ s[k] \in Name
         /\ \A n \in S : n \in After(None) /\ n \notin After(s[k]) => \E j \in 1..k : s[j] = n
         /\ After(s[k]) \subseteq After(None)
         /\ \A j \in 1..k : s[j] \notin After(s[k]) /\ s[j] \in Name
         /\ \A j \in 1..(k - 1) : s[k] \in After(s[j])
  BY ONLY <1>3, Slice
<1> QED BY <1>1, <1>2, <1>4

\* What is after a name is after every name before it.
LEMMA AfterAfter ==
  ASSUME NEW a \in Name \cup {None}, NEW n \in Name
  PROVE  /\ n \in Nat /\ n # None /\ a \in Nat \cup {None}
         /\ n \in After(a) => After(n) \subseteq After(a)
         /\ n \notin After(n)
<1>1. n \in Nat /\ n # None /\ a \in Nat \cup {None} /\ \A m \in Name : m \in Nat
  BY NameIs, NamesAssumption
<1>2. n \notin After(n)
  BY <1>1, AfterIs
<1>3. ASSUME n \in After(a), NEW m \in After(n) PROVE m \in After(a)
  <2>1. m \in Name /\ m \in Nat /\ m > n
    BY <1>1, <1>3, AfterIs
  <2>2. a = None \/ n > a
    BY <1>1, <1>3, AfterIs
  <2>3. a = None \/ m > a
    BY <1>1, <2>1, <2>2
  <2> QED BY <1>1, <2>1, <2>3, AfterIs
<1> QED BY <1>1, <1>2, <1>3

\* Positions in the root, and its entries.
MountAt(m) == [phase |-> "mounts", after |-> m]
NativeAt(n) == [phase |-> "native", after |-> n]

\* What a position in the root is past.
LEMMA RootPassed ==
  ASSUME NEW rows, NEW n \in Name
  PROVE  /\ Passed("root", rows, None) = {}
         /\ MountAt(n) \in Position("root") /\ NativeAt(n) \in Position("root")
         /\ MountAt(n) # None /\ NativeAt(n) # None
         /\ Passed("root", rows, MountAt(n)) = Mount \ After(n)
         /\ Passed("root", rows, NativeAt(n)) = Mount \cup (Name \ After(n))
<1>1. MountAt(n) \in Position("root") /\ NativeAt(n) \in Position("root")
  BY DEF MountAt, NativeAt, Position
<1>2. Position("root") \subseteq [phase : {"mounts", "native"}, after : Nat]
  BY NameIs DEF Position
<1>3. MountAt(n) # None /\ NativeAt(n) # None
  BY <1>1, <1>2, NamesAssumption
<1> QED BY <1>1, <1>3 DEF Passed, MountAt, NativeAt

\* Rows after a name that no mount hides, up to the position a listing goes on at.
Unhides(rows, b, H, next) ==
  /\ H \in SUBSET Name /\ H \subseteq rows \cap After(b) /\ H \cap Mount = {}
  /\ next \in Name \cup {None}
  /\ \A x \in H : \A n \in rows \ Mount : n \in After(b) /\ n \notin After(x) => n \in H
  /\ next = None => (rows \cap After(b)) \ Mount \subseteq H
  /\ next # None =>
       /\ next \in After(b)
       /\ \A n \in rows \ Mount : n \in After(b) /\ n \notin After(next) => n \in H

\* A page of the native catalog has them.
LEMMA Unhidden ==
  ASSUME WholeScans, NEW rows \in SUBSET Name, NEW b \in Name \cup {None}, NEW limit \in Nat \ {0}
  PROVE  LET page == StorePage(rows, b, limit)
             H    == {e.item : e \in Range(page.entries)} \ Mount
         IN Unhides(rows, b, H, page.next)
<1> DEFINE B == After(b) \cap rows
           s == InOrder[B]
           page == StorePage(rows, b, limit)
           n == Least(Cardinality(B), limit)
           H == {e.item : e \in Range(page.entries)} \ Mount
<1>1. b \in Nat \cup {None} /\ (\A m \in Name : m # None)
  BY NameIs, NamesAssumption
<1>2. /\ page = [entries |-> [k \in 1..n |-> [item |-> s[k], cursor |-> s[k]]],
                 next    |-> IF Cardinality(B) > limit THEN s[limit] ELSE None]
      /\ n \in Nat /\ n <= Cardinality(B) /\ n <= limit /\ Cardinality(B) \in Nat
  BY <1>1, StorePageIs
<1>3. n = Cardinality(B) \/ n = limit
  BY <1>2, LeastIs
<1>4. ASSUME NEW k \in 1..Cardinality(B)
      PROVE  /\ s[k] \in rows /\ s[k] \in After(b) /\ s[k] \in Name
             /\ \A m \in rows : m \in After(b) /\ m \notin After(s[k]) => \E j \in 1..k : s[j] = m
  <2>1. /\ s[k] \in rows /\ s[k] \in After(b) /\ s[k] \in Name
        /\ \A m \in rows : m \in After(b) /\ m \notin After(s[k]) => \E j \in 1..k : s[j] = m
        /\ After(s[k]) \subseteq After(b)
        /\ \A j \in 1..k : s[j] \notin After(s[k]) /\ s[j] \in Name
        /\ \A j \in 1..(k - 1) : s[k] \in After(s[j])
    BY <1>1, Slice
  <2> HIDE DEF s
  <2> QED BY <2>1
<1>5. \A m \in B : \E j \in 1..Cardinality(B) : s[j] = m
  <2>1. B \in SUBSET Name
    OBVIOUS
  <2> HIDE DEF B
  <2> QED BY <2>1, InOrderIs
<1> HIDE DEF B, s, n
<1>6. page.next = IF Cardinality(B) > limit THEN s[limit] ELSE None
  BY <1>2
<1>7. H = {s[k] : k \in 1..n} \ Mount
  <2>1. PICK f : f = page.entries
    OBVIOUS
  <2>2. DOMAIN f = 1..n /\ \A k \in 1..n : f[k] = [item |-> s[k], cursor |-> s[k]]
    BY <1>2, <2>1
  <2>3. \A k \in 1..n : f[k].item = s[k]
    BY <2>2
  <2>4. H = {e.item : e \in Range(f)} \ Mount
    BY <2>1
  <2> HIDE DEF page, H
  <2>5. {e.item : e \in Range(f)} = {f[k].item : k \in 1..n}
    BY <2>2, Zenon DEF Range
  <2> QED BY <2>3, <2>4, <2>5
<1> HIDE DEF page, H
<1>8. \A k \in 1..n : k \in 1..Cardinality(B)
  BY <1>2
<1>9. H \in SUBSET Name /\ H \subseteq rows \cap After(b) /\ H \cap Mount = {}
  BY <1>4, <1>7, <1>8
<1>10. ASSUME NEW k \in 1..n, NEW m \in rows \ Mount, m \in After(b), m \notin After(s[k])
       PROVE  m \in H
  <2>1. PICK j \in 1..k : s[j] = m
    BY <1>4, <1>8, <1>10
  <2>2. j \in 1..n
    BY <1>2, <2>1
  <2> QED BY <1>7, <2>1, <2>2
<1>11. \A x \in H : \A m \in rows \ Mount : m \in After(b) /\ m \notin After(x) => m \in H
  BY <1>7, <1>10
<1>12. ASSUME page.next = None PROVE (rows \cap After(b)) \ Mount \subseteq H
  <2>1. Cardinality(B) > limit => limit \in 1..Cardinality(B)
    BY <1>2
  <2>2. ~(Cardinality(B) > limit)
    BY <1>1, <1>4, <1>6, <1>12, <2>1
  <2>3. n = Cardinality(B)
    BY <1>2, <1>3, <2>2
  <2> QED BY <1>5, <1>7, <2>3 DEF B
<1>13. ASSUME page.next # None
       PROVE  /\ page.next \in After(b) /\ page.next \in Name
              /\ \A m \in rows \ Mount : m \in After(b) /\ m \notin After(page.next) => m \in H
  <2>1. Cardinality(B) > limit /\ page.next = s[limit]
    BY <1>6, <1>13
  <2>2. n = limit /\ n \in 1..n /\ n \in 1..Cardinality(B)
    BY <1>2, <1>3, <2>1
  <2> QED BY <1>4, <1>10, <2>1, <2>2
<1> QED BY <1>9, <1>11, <1>12, <1>13 DEF page, H, Unhides

MountEntry(m) == [item |-> m, cursor |-> MountAt(m)]
NativeEntry(n) == [item |-> n, cursor |-> NativeAt(n)]

\* Mounts in order, then native rows in order.
RootEntries(D, H) ==
  [k \in 1..Cardinality(D) |-> MountEntry(InOrder[D][k])]
    \o [k \in 1..Cardinality(H) |-> NativeEntry(InOrder[H][k])]

\* The entries of a page of the root, mounts and then namespaces.
LEMMA RootEntriesAre ==
  ASSUME NEW D \in SUBSET Name, NEW H \in SUBSET Name
  PROVE  LET e == RootEntries(D, H)
             d == Cardinality(D)
             h == Cardinality(H)
         IN /\ d \in Nat /\ h \in Nat /\ e \in Seq(Entry("root")) /\ Len(e) = d + h
            /\ \A k \in 1..d : e[k] = MountEntry(InOrder[D][k])
            /\ \A k \in 1..h : e[d + k] = NativeEntry(InOrder[H][k])
<1> DEFINE d == Cardinality(D)
           h == Cardinality(H)
           s == [k \in 1..d |-> MountEntry(InOrder[D][k])]
           t == [k \in 1..h |-> NativeEntry(InOrder[H][k])]
<1>1. d \in Nat /\ h \in Nat /\ (\A k \in 1..d : InOrder[D][k] \in Name)
      /\ (\A k \in 1..h : InOrder[H][k] \in Name)
  BY InOrderIs
<1>2. \A n \in Name : MountEntry(n) \in Entry("root") /\ NativeEntry(n) \in Entry("root")
  BY RootPassed DEF MountEntry, NativeEntry, Entry
<1> HIDE DEF d, h
<1>3. /\ DOMAIN s = 1..d /\ \A k \in 1..d : s[k] \in Entry("root") /\ s[k] = MountEntry(InOrder[D][k])
      /\ DOMAIN t = 1..h /\ \A k \in 1..h : t[k] \in Entry("root") /\ t[k] = NativeEntry(InOrder[H][k])
  BY <1>1, <1>2
<1>4. s \in [1..d -> Entry("root")] /\ t \in [1..h -> Entry("root")]
  BY <1>1, <1>2
<1> HIDE DEF s, t
<1>5. s \in Seq(Entry("root")) /\ Len(s) = d /\ t \in Seq(Entry("root")) /\ Len(t) = h
  BY ONLY <1>1, <1>4
<1>6. /\ s \o t \in Seq(Entry("root")) /\ Len(s \o t) = d + h
      /\ \A k \in 1..(d + h) : (s \o t)[k] = IF k <= d THEN s[k] ELSE t[k - d]
  BY ONLY <1>5, ConcatProperties
<1>7. \A k \in 1..d : (s \o t)[k] = s[k]
  BY <1>1, <1>6
<1>8. \A k \in 1..h : (s \o t)[d + k] = t[k]
  <2> TAKE k \in 1..h
  <2>1. d + k \in 1..(d + h) /\ ~(d + k <= d) /\ (d + k) - d = k
    BY <1>1
  <2> QED BY <1>6, <2>1
<1>9. RootEntries(D, H) = s \o t
  BY DEF RootEntries, s, t, d, h
<1> QED BY <1>1, <1>3, <1>6, <1>7, <1>8, <1>9 DEF d, h

\* A page of the root that gets to the native catalog: the mounts that are left, and rows
\* that no mount hides.
Joins(native, at, b, y, D, H, page) ==
  LET P == Passed("root", Mount \cup native, at)
  IN /\ native \in SUBSET Name /\ at \in Position("root") \cup {None} /\ b \in Name \cup {None}
     /\ at # None /\ at.phase = "native" => at = NativeAt(b)
     /\ D = Mount \ P
     /\ native \ After(b) \subseteq P
     /\ P \subseteq Mount \cup (Name \ After(b))
     /\ \A m \in D : P \subseteq Mount \ After(m)
     /\ Unhides(native, b, H, y)
     /\ page = [entries |-> RootEntries(D, H), next |-> IF y = None THEN None ELSE NativeAt(y)]

\* A page is one from a position on: it leaves no row out and has them in turn.
Fits(src, rows, at, page) ==
  /\ page.entries \in Seq(Entry(src)) /\ page.next \in Position(src) \cup {None}
  /\ page = [entries |-> page.entries, next |-> page.next]
  /\ Complete(src, rows, at, page) /\ InTurn(src, rows, at, page)
  /\ page.entries = <<>> /\ page.next # None => Passed(src, rows, at) \subseteq Passed(src, rows, page.next)

\* A page of the root that comes to the native catalog.
LEMMA RootJoin ==
  ASSUME NEW native, NEW at, NEW b, NEW y, NEW D, NEW H, NEW page,
         Joins(native, at, b, y, D, H, page)
  PROVE  Fits("root", Mount \cup native, at, page)
<1> DEFINE rows == Mount \cup native
<1>20. /\ native \in SUBSET Name /\ at \in Position("root") \cup {None}
       /\ b \in Name \cup {None} /\ y \in Name \cup {None} /\ H \in SUBSET Name
       /\ at # None /\ at.phase = "native" => at = NativeAt(b)
       /\ H \subseteq native \cap After(b) /\ H \cap Mount = {}
       /\ \A x \in H : \A n \in native \ Mount : n \in After(b) /\ n \notin After(x) => n \in H
       /\ y = None => (native \cap After(b)) \ Mount \subseteq H
       /\ y # None => /\ y \in After(b)
                      /\ \A n \in native \ Mount : n \in After(b) /\ n \notin After(y) => n \in H
  BY DEF Joins, Unhides
<1>21. /\ D = Mount \ Passed("root", rows, at)
       /\ native \ After(b) \subseteq Passed("root", rows, at)
       /\ Passed("root", rows, at) \subseteq Mount \cup (Name \ After(b))
       /\ \A m \in D : Passed("root", rows, at) \subseteq Mount \ After(m)
       /\ page = [entries |-> RootEntries(D, H), next |-> IF y = None THEN None ELSE NativeAt(y)]
  BY DEF Joins
<1>22. rows = Mount \cup native
  OBVIOUS
<1> HIDE DEF rows
<1> DEFINE P == Passed("root", rows, at)
           d == Cardinality(D)
           h == Cardinality(H)
           f == InOrder[D]
           g == InOrder[H]
           e == page.entries
<1>0. Mount \subseteq Name
  BY NamesAssumption DEF Name
<1>1. D \in SUBSET Name /\ D \subseteq Mount /\ H \in SUBSET Name
  BY <1>0, <1>20, <1>21
<1>2. /\ d \in Nat /\ h \in Nat /\ e \in Seq(Entry("root")) /\ Len(e) = d + h
      /\ \A k \in 1..d : e[k] = MountEntry(f[k])
      /\ \A k \in 1..h : e[d + k] = NativeEntry(g[k])
  <2>1. e = RootEntries(D, H)
    BY <1>21
  <2>2. /\ d \in Nat /\ h \in Nat /\ RootEntries(D, H) \in Seq(Entry("root"))
        /\ Len(RootEntries(D, H)) = d + h
        /\ \A k \in 1..d : RootEntries(D, H)[k] = MountEntry(f[k])
        /\ \A k \in 1..h : RootEntries(D, H)[d + k] = NativeEntry(g[k])
    BY ONLY <1>1, RootEntriesAre
  <2> HIDE DEF e, d, h, f, g
  <2> QED BY <2>1, <2>2
<1>3. page.next = (IF y = None THEN None ELSE NativeAt(y)) /\ page = [entries |-> e, next |-> page.next]
  BY <1>21
<1>4. ASSUME NEW k \in 1..d
      PROVE  /\ f[k] \in D /\ f[k] \in Name
             /\ \A n \in D : n \notin After(f[k]) => \E j \in 1..k : f[j] = n
             /\ \A j \in 1..k : f[j] \notin After(f[k])
             /\ \A j \in 1..(k - 1) : f[k] \in After(f[j])
  BY <1>1, Sorted
<1>5. ASSUME NEW k \in 1..h
      PROVE  /\ g[k] \in H /\ g[k] \in Name
             /\ \A n \in H : n \notin After(g[k]) => \E j \in 1..k : g[j] = n
             /\ \A j \in 1..k : g[j] \notin After(g[k])
             /\ \A j \in 1..(k - 1) : g[k] \in After(g[j])
  BY <1>1, Sorted
<1>6. (\A m \in D : \E j \in 1..d : f[j] = m) /\ (\A x \in H : \E j \in 1..h : g[j] = x)
  <2>1. \A m \in D : Rank(D, m) \in 1..d /\ f[Rank(D, m)] = m
    BY <1>1, InOrderIs
  <2>2. \A x \in H : Rank(H, x) \in 1..h /\ g[Rank(H, x)] = x
    BY <1>1, InOrderIs
  <2> HIDE DEF d, h, f, g
  <2> QED BY <2>1, <2>2
<1>7. \A n \in Name : /\ MountAt(n) \in Position("root") /\ NativeAt(n) \in Position("root")
                      /\ MountAt(n) # None /\ NativeAt(n) # None
                      /\ Passed("root", rows, MountAt(n)) = Mount \ After(n)
                      /\ Passed("root", rows, NativeAt(n)) = Mount \cup (Name \ After(n))
  BY RootPassed
<1> HIDE DEF P, d, h, f, g, e
<1>19. \A n : /\ MountEntry(n).item = n /\ MountEntry(n).cursor = MountAt(n)
              /\ NativeEntry(n).item = n /\ NativeEntry(n).cursor = NativeAt(n)
  BY DEF MountEntry, NativeEntry
<1>8. \A k \in 1..d : e[k].item = f[k] /\ e[k].cursor = MountAt(f[k])
  BY <1>2, <1>19
<1>9. \A k \in 1..h : e[d + k].item = g[k] /\ e[d + k].cursor = NativeAt(g[k])
  BY <1>2, <1>19
<1>10. \A k \in 1..(d + h) : k \in 1..d \/ \E i \in 1..h : k = d + i
  <2> TAKE k \in 1..(d + h)
  <2>1. CASE k <= d
    BY <1>2, <2>1
  <2>2. CASE ~(k <= d)
    <3>1. k - d \in 1..h /\ k = d + (k - d)
      BY <1>2, <2>2
    <3> QED BY <3>1
  <2> QED BY <2>1, <2>2
<1>11. \A k \in 1..d : Items(e, k) = {f[j] : j \in 1..k}
  <2> TAKE k \in 1..d
  <2>1. \A j \in 1..k : e[j].item = f[j]
    BY <1>2, <1>8
  <2> QED BY <2>1 DEF Items
<1>12. \A i \in 0..h : \A n : n \in Items(e, d + i) <=> n \in D \/ \E j \in 1..i : g[j] = n
  <2> TAKE i \in 0..h
  <2> TAKE n
  <2>1. ASSUME n \in Items(e, d + i) PROVE n \in D \/ \E j \in 1..i : g[j] = n
    <3>1. PICK k \in 1..(d + i) : e[k].item = n
      BY <2>1 DEF Items
    <3>2. CASE k <= d
      <4>1. k \in 1..d
        BY <1>2, <3>2
      <4> QED BY <1>4, <1>8, <3>1, <4>1
    <3>3. CASE ~(k <= d)
      <4>1. k - d \in 1..i /\ k - d \in 1..h /\ k = d + (k - d)
        BY <1>2, <3>3
      <4> QED BY <1>9, <3>1, <4>1
    <3> QED BY <3>2, <3>3
  <2>2. ASSUME n \in D PROVE n \in Items(e, d + i)
    <3>1. PICK j \in 1..d : f[j] = n
      BY <1>6, <2>2
    <3>2. j \in 1..(d + i)
      BY <1>2
    <3> QED BY <1>8, <3>1, <3>2 DEF Items
  <2>3. ASSUME NEW j \in 1..i, g[j] = n PROVE n \in Items(e, d + i)
    <3>1. d + j \in 1..(d + i) /\ j \in 1..h
      BY <1>2
    <3> QED BY <1>9, <2>3, <3>1 DEF Items
  <2> QED BY <2>1, <2>2, <2>3
<1>13. Mount \subseteq P \cup D /\ P \cap D = {} /\ P \cap H = {}
  BY <1>1, <1>20, <1>21 DEF P
<1>14. ASSUME NEW n \in native, n \notin Mount, n \notin After(b) PROVE n \in P
  BY <1>14, <1>21 DEF P
<1>15. Complete("root", rows, at, page)
  <2>1. ASSUME NEW k \in 1..d PROVE rows \cap Passed("root", rows, e[k].cursor) \subseteq P \cup Items(e, k)
    <3>1. Passed("root", rows, e[k].cursor) = Mount \ After(f[k])
      BY <1>4, <1>7, <1>8
    <3>2. ASSUME NEW m \in D, m \notin After(f[k]) PROVE m \in Items(e, k)
      <4>1. PICK j \in 1..k : f[j] = m
        BY <1>4, <3>2
      <4>2. f[j] \in {f[i] : i \in 1..k}
        OBVIOUS
      <4> QED BY <1>11, <4>1, <4>2
    <3> QED BY <1>13, <1>20, <1>22, <3>1, <3>2
  <2>2. ASSUME NEW i \in 1..h
        PROVE  rows \cap Passed("root", rows, e[d + i].cursor) \subseteq P \cup Items(e, d + i)
    <3>1. Passed("root", rows, e[d + i].cursor) = Mount \cup (Name \ After(g[i]))
      BY <1>5, <1>7, <1>9
    <3>2. i \in 0..h
      BY <1>2
    <3>3. ASSUME NEW n \in native, n \notin Mount, n \notin After(g[i])
          PROVE  n \in P \cup Items(e, d + i)
      <4>1. CASE n \notin After(b)
        BY <1>14, <3>3, <4>1
      <4>2. CASE n \in After(b)
        <5>1. n \in H
          BY <1>5, <1>20, <3>3, <4>2
        <5>2. \E j \in 1..i : g[j] = n
          BY <1>5, <3>3, <5>1
        <5> QED BY <1>12, <3>2, <5>2
      <4> QED BY <4>1, <4>2
    <3>4. D \subseteq Items(e, d + i)
      BY <1>12, <3>2
    <3> QED BY <1>13, <1>22, <3>1, <3>3, <3>4
  <2>3. ASSUME page.next = None PROVE rows \subseteq P \cup Items(e, d + h)
    <3>1. y = None
      BY <1>3, <1>7, <1>20, <2>3
    <3>2. h \in 0..h
      BY <1>2
    <3>3. D \cup H \subseteq Items(e, d + h)
      BY <1>6, <1>12, <3>2
    <3>4. ASSUME NEW n \in native, n \notin Mount PROVE n \in P \cup H
      BY <1>14, <1>20, <3>1, <3>4
    <3> QED BY <1>13, <1>22, <3>3, <3>4
  <2>4. ASSUME page.entries = <<>>, page.next # None
        PROVE  page.next # at /\ rows \cap Passed("root", rows, page.next) \subseteq P
    <3>1. y # None /\ page.next = NativeAt(y) /\ y \in Name /\ y \in After(b)
      BY <1>3, <1>20, <2>4
    <3>2. Len(e) = 0
      BY <2>4 DEF e
    <3>3. d = 0 /\ h = 0
      BY <1>2, <3>2
    <3>4. D = {} /\ H = {}
      <4>1. 1..d = {} /\ 1..h = {}
        BY <3>3
      <4> QED BY <1>6, <4>1
    <3>5. page.next # at
      <4>1. SUFFICES ASSUME at = NativeAt(y) PROVE FALSE
        BY <3>1
      <4>2. at # None /\ at.phase = "native" /\ at.after = y
        BY <1>7, <3>1, <4>1 DEF NativeAt
      <4>3. at.after = b
        BY <1>20, <4>2 DEF NativeAt
      <4> QED BY <1>20, <3>1, <4>2, <4>3, AfterAfter
    <3>6. Passed("root", rows, page.next) = Mount \cup (Name \ After(y))
      BY <1>7, <3>1
    <3>7. ASSUME NEW n \in native, n \notin Mount, n \notin After(y) PROVE n \in P
      BY <1>14, <1>20, <3>1, <3>4, <3>7
    <3> QED BY <1>13, <1>22, <3>4, <3>5, <3>6, <3>7
  <2>5. \A k \in 1..(d + h) : rows \cap Passed("root", rows, e[k].cursor) \subseteq P \cup Items(e, k)
    BY <1>10, <2>1, <2>2
  <2> QED BY <1>2, <2>3, <2>4, <2>5 DEF Complete, e, P
<1>16. InTurn("root", rows, at, page)
  <2> DEFINE Fine(k) == /\ e[k].item \notin P
                        /\ P \cup Items(e, k) \subseteq Passed("root", rows, e[k].cursor)
                        /\ \A j \in 1..(k - 1) : e[k].item \notin Passed("root", rows, e[j].cursor)
  <2>1. ASSUME NEW k \in 1..d
        PROVE  Fine(k)
    <3>1. Passed("root", rows, e[k].cursor) = Mount \ After(f[k]) /\ e[k].item = f[k] /\ f[k] \in D
      BY <1>4, <1>7, <1>8
    <3>2. P \subseteq Mount \ After(f[k])
      BY <1>21, <3>1 DEF P
    <3>3. Items(e, k) \subseteq Mount \ After(f[k])
      <4>1. ASSUME NEW j \in 1..k PROVE f[j] \in Mount \ After(f[k])
        <5>1. j \in 1..d
          BY <1>2
        <5>2. f[j] \in D
          BY <1>4, <5>1
        <5>3. f[j] \notin After(f[k])
          BY <1>4
        <5> QED BY <1>1, <5>2, <5>3
      <4> QED BY <1>11, <4>1
    <3>4. ASSUME NEW j \in 1..(k - 1) PROVE f[k] \notin Passed("root", rows, e[j].cursor)
      <4>1. j \in 1..d
        BY <1>2
      <4>2. Passed("root", rows, e[j].cursor) = Mount \ After(f[j])
        BY <1>4, <1>7, <1>8, <4>1
      <4> QED BY <1>4, <4>2
    <3> QED BY <1>13, <3>1, <3>2, <3>3, <3>4
  <2>2. ASSUME NEW i \in 1..h
        PROVE  Fine(d + i)
    <3>1. /\ Passed("root", rows, e[d + i].cursor) = Mount \cup (Name \ After(g[i]))
          /\ e[d + i].item = g[i] /\ g[i] \in H /\ g[i] \in Name /\ g[i] \notin Mount
      BY <1>5, <1>7, <1>9, <1>20
    <3>2. P \subseteq Mount \cup (Name \ After(g[i]))
      <4>1. After(g[i]) \subseteq After(b)
        BY <1>20, <3>1, AfterAfter
      <4> QED BY <1>21, <4>1 DEF P
    <3>3. Items(e, d + i) \subseteq Mount \cup (Name \ After(g[i]))
      <4>1. i \in 0..h
        BY <1>2
      <4>2. \A j \in 1..i : g[j] \in Name /\ g[j] \notin After(g[i])
        BY <1>2, <1>5
      <4> QED BY <1>1, <1>12, <4>1, <4>2
    <3>4. ASSUME NEW j \in 1..((d + i) - 1) PROVE g[i] \notin Passed("root", rows, e[j].cursor)
      <4>1. CASE j <= d
        <5>1. j \in 1..d
          BY <1>2, <4>1
        <5>2. Passed("root", rows, e[j].cursor) = Mount \ After(f[j])
          BY <1>4, <1>7, <1>8, <5>1
        <5> QED BY <3>1, <5>2
      <4>2. CASE ~(j <= d)
        <5>1. j - d \in 1..h /\ j - d \in 1..(i - 1) /\ j = d + (j - d)
          BY <1>2, <4>2
        <5>2. Passed("root", rows, e[j].cursor) = Mount \cup (Name \ After(g[j - d]))
          BY <1>5, <1>7, <1>9, <5>1
        <5>3. g[i] \in After(g[j - d])
          BY <1>5, <5>1
        <5> QED BY <3>1, <5>2, <5>3
      <4> QED BY <4>1, <4>2
    <3>5. /\ e[d + i].item \notin P
          /\ P \cup Items(e, d + i) \subseteq Passed("root", rows, e[d + i].cursor)
          /\ \A j \in 1..((d + i) - 1) : e[d + i].item \notin Passed("root", rows, e[j].cursor)
      BY <1>13, <3>1, <3>2, <3>3, <3>4
    <3> QED BY ONLY <3>5
  <2>3. /\ \A k \in 1..d : Fine(k)
        /\ \A i \in 1..h : Fine(d + i)
    <3> HIDE DEF Fine
    <3> QED BY <2>1, <2>2
  <2>4. ASSUME NEW k \in 1..(d + h) PROVE Fine(k)
    <3> HIDE DEF Fine
    <3>1. CASE k \in 1..d
      BY <2>3, <3>1
    <3>2. CASE k \notin 1..d
      <4>1. PICK i \in 1..h : k = d + i
        BY <1>10, <3>2
      <4> QED BY <2>3, <4>1
    <3> QED BY <3>1, <3>2
  <2> QED BY <1>2, <2>4 DEF InTurn, e, P
<1>17. ASSUME page.entries = <<>>, page.next # None
       PROVE  P \subseteq Passed("root", rows, page.next)
  <2>1. y # None /\ page.next = NativeAt(y) /\ y \in Name /\ y \in After(b)
    BY <1>3, <1>17, <1>20
  <2>2. After(y) \subseteq After(b)
    BY <1>20, <2>1, AfterAfter
  <2>3. P \subseteq Mount \cup (Name \ After(b))
    BY <1>21 DEF P
  <2>4. Passed("root", rows, page.next) = Mount \cup (Name \ After(y))
    BY <1>7, <2>1
  <2> HIDE DEF P
  <2> QED BY <2>2, <2>3, <2>4
<1>18. page.next \in Position("root") \cup {None}
  BY <1>3, <1>7, <1>20
<1> QED BY <1>2, <1>3, <1>15, <1>16, <1>17, <1>18 DEF e, P, Fits, rows

\* A page of the root that mounts alone fill.
Fills(rows, at, a, limit, page) ==
  LET B == After(a) \cap Mount
  IN /\ at \in Position("root") \cup {None} /\ a \in Name \cup {None}
     /\ Passed("root", rows, at) = IF a = None THEN {} ELSE Mount \ After(a)
     /\ limit \in 1..Cardinality(B)
     /\ page = [entries |-> [k \in 1..limit |-> MountEntry(InOrder[B][k])],
                next    |-> MountAt(InOrder[B][limit])]

\* A page of the root filled by mounts alone.
LEMMA RootFull ==
  ASSUME NEW rows, NEW at, NEW a, NEW limit, NEW page, Fills(rows, at, a, limit, page)
  PROVE  Fits("root", rows, at, page)
<1>20. at \in Position("root") \cup {None} /\ a \in Name \cup {None}
       /\ limit \in 1..Cardinality(After(a) \cap Mount)
  BY DEF Fills
<1>21. /\ Passed("root", rows, at) = IF a = None THEN {} ELSE Mount \ After(a)
       /\ page = [entries |-> [k \in 1..limit |-> MountEntry(InOrder[After(a) \cap Mount][k])],
                  next    |-> MountAt(InOrder[After(a) \cap Mount][limit])]
  BY DEF Fills
<1> DEFINE P == Passed("root", rows, at)
           B == After(a) \cap Mount
           f == InOrder[B]
           e == page.entries
<1>0. Mount \in SUBSET Name /\ a \in Nat \cup {None} /\ None \notin Name
  BY <1>20, NamesAssumption, NameIs DEF Name
<1>1. B \in SUBSET Name /\ Cardinality(B) \in Nat
  BY <1>0, FewNames
<1>2. limit \in Nat /\ limit >= 1 /\ \A k \in 1..limit : k \in 1..Cardinality(B) /\ k \in Nat
  BY <1>1, <1>20
<1>3. ASSUME NEW k \in 1..Cardinality(B)
      PROVE  /\ f[k] \in Mount /\ f[k] \in After(a) /\ f[k] \in Name
             /\ \A n \in Mount : n \in After(a) /\ n \notin After(f[k]) => \E j \in 1..k : f[j] = n
             /\ After(f[k]) \subseteq After(a)
             /\ \A j \in 1..k : f[j] \notin After(f[k]) /\ f[j] \in Name
             /\ \A j \in 1..(k - 1) : f[k] \in After(f[j])
  BY <1>0, Slice
<1>4. \A n \in Name : /\ MountAt(n) \in Position("root") /\ MountAt(n) # None
                      /\ MountEntry(n) \in Entry("root")
                      /\ MountEntry(n).item = n /\ MountEntry(n).cursor = MountAt(n)
                      /\ Passed("root", rows, MountAt(n)) = Mount \ After(n)
  BY RootPassed DEF MountEntry, Entry
<1>5. a = None => After(a) = Name
  BY DEF After, Name
<1> HIDE DEF B, f
<1>6. e = [k \in 1..limit |-> MountEntry(f[k])] /\ page.next = MountAt(f[limit])
      /\ page = [entries |-> e, next |-> page.next]
  BY <1>21 DEF B, f
<1> HIDE DEF e, P
<1>7. /\ \A k \in 1..limit : e[k] = MountEntry(f[k]) /\ f[k] \in Name /\ f[k] \in Mount /\ f[k] \in After(a)
      /\ e \in [1..limit -> Entry("root")]
  BY <1>2, <1>3, <1>4, <1>6
<1>8. e \in Seq(Entry("root")) /\ Len(e) = limit
  BY ONLY <1>2, <1>7
<1>9. \A k \in 1..limit : e[k].item = f[k] /\ e[k].cursor = MountAt(f[k])
                          /\ Passed("root", rows, e[k].cursor) = Mount \ After(f[k])
  BY <1>4, <1>7
<1>10. \A k \in 1..limit : Items(e, k) = {f[j] : j \in 1..k}
  <2> TAKE k \in 1..limit
  <2>1. \A j \in 1..k : e[j].item = f[j]
    BY <1>2, <1>9
  <2> QED BY <2>1 DEF Items
<1>11. P = IF a = None THEN {} ELSE Mount \ After(a)
  BY <1>21 DEF P
<1>12. page.next # None
  <2>1. limit \in 1..limit
    BY <1>2
  <2> QED BY <1>4, <1>6, <1>7, <2>1
<1>13. e # <<>>
  <2>1. Len(<<>>) = 0
    BY EmptySeq
  <2> QED BY <1>2, <1>8, <2>1
<1>14. ASSUME NEW k \in 1..limit
       PROVE  rows \cap Passed("root", rows, e[k].cursor) \subseteq P \cup Items(e, k)
  <2> SUFFICES ASSUME NEW m \in Mount, m \notin After(f[k]), m \notin P PROVE m \in Items(e, k)
    BY <1>9
  <2>1. m \in After(a)
    BY <1>0, <1>5, <1>11
  <2>2. PICK j \in 1..k : f[j] = m
    BY <1>2, <1>3, <2>1
  <2>3. f[j] \in {f[i] : i \in 1..k}
    OBVIOUS
  <2> QED BY <1>10, <2>2, <2>3
<1>15. ASSUME NEW k \in 1..limit
       PROVE  /\ e[k].item \notin P
              /\ P \cup Items(e, k) \subseteq Passed("root", rows, e[k].cursor)
              /\ \A j \in 1..(k - 1) : e[k].item \notin Passed("root", rows, e[j].cursor)
  <2>1. e[k].item = f[k] /\ Passed("root", rows, e[k].cursor) = Mount \ After(f[k])
        /\ f[k] \in After(a) /\ k \in 1..Cardinality(B)
    BY <1>2, <1>7, <1>9
  <2>2. P \subseteq Mount \ After(f[k])
    BY <1>3, <1>11, <2>1
  <2>3. Items(e, k) \subseteq Mount \ After(f[k])
    <3>1. ASSUME NEW j \in 1..k PROVE f[j] \in Mount \ After(f[k])
      <4>1. j \in 1..Cardinality(B)
        BY <1>1, <2>1
      <4>2. f[j] \in Mount
        BY <1>3, <4>1
      <4>3. f[j] \notin After(f[k])
        BY <1>3, <2>1
      <4> QED BY <4>2, <4>3
    <3> QED BY <1>10, <3>1
  <2>4. ASSUME NEW j \in 1..(k - 1) PROVE f[k] \notin Passed("root", rows, e[j].cursor)
    <3>1. j \in 1..limit
      BY <1>2
    <3>2. Passed("root", rows, e[j].cursor) = Mount \ After(f[j])
      BY <1>9, <3>1
    <3>3. f[k] \in After(f[j])
      BY <1>3, <2>1
    <3> QED BY <3>2, <3>3
  <2> QED BY <1>11, <2>1, <2>2, <2>3, <2>4
<1>16. Complete("root", rows, at, page)
  BY <1>8, <1>12, <1>13, <1>14 DEF Complete, e, P
<1>17. InTurn("root", rows, at, page)
  BY <1>8, <1>15 DEF InTurn, e, P
<1>18. page.next \in Position("root")
  <2>1. limit \in 1..limit
    BY <1>2
  <2> QED BY <1>4, <1>6, <1>7, <2>1
<1> QED BY <1>6, <1>8, <1>13, <1>16, <1>17, <1>18 DEF e, Fits

\* Every page of the root is of one kind or the other (federated.rs:195).
LEMMA RootPages ==
  ASSUME WholeScans, NEW native \in SUBSET Name, NEW at \in Position("root") \cup {None},
         NEW limit \in Nat \ {0}
  PROVE  Fits("root", Mount \cup native, at, RootPage(Mount, native, at, limit))
<1> DEFINE resume == RootResumed(at)
           due    == IF resume.phase = "mounts" THEN RowsAfter(Mount, resume.after) ELSE <<>>
           n      == Least(limit, Len(due))
           first  == [k \in 1..n |-> MountEntry(due[k])]
           part   == StorePage(native, NativeAfter(resume, due), limit - Len(first))
           H      == {e.item : e \in Range(part.entries)} \ Mount
           page   == RootPage(Mount, native, at, limit)
           rows   == Mount \cup native
<1>0. Mount \in SUBSET Name /\ None \notin Name /\ {} \in SUBSET Name
  BY NamesAssumption, NameIs DEF Name
<1>1. page = IF Len(first) = limit THEN [entries |-> first, next |-> Last(first).cursor]
             ELSE [entries |-> first \o [k \in DOMAIN InOrder[H] |-> NativeEntry(InOrder[H][k])],
                   next    |-> IF part.next = None THEN None ELSE NativeAt(part.next)]
  BY DEF RootPage, MountEntry, NativeEntry, MountAt, NativeAt
<1> HIDE DEF page
<1>2. CASE at = None \/ at.phase = "mounts"
  <2> DEFINE a == IF at = None THEN None ELSE at.after
             B == After(a) \cap Mount
  <2>1. /\ resume.phase = "mounts" /\ resume.after = a
        /\ a \in Name \cup {None} /\ a \in Nat \cup {None} /\ (at # None => a \in Name)
    <3>1. at # None => at.after \in Name
      BY DEF Position
    <3> QED BY <1>2, <3>1, NameIs DEF RootResumed
  <2>2. Passed("root", rows, at) = IF a = None THEN {} ELSE Mount \ After(a)
    BY <1>0, <1>2, <2>1 DEF Passed
  <2> HIDE DEF a, resume
  <2>3. /\ due = InOrder[B] /\ Len(due) = Cardinality(B) /\ Cardinality(B) \in Nat /\ B \in SUBSET Name
        /\ \A k \in 1..Cardinality(B) : InOrder[B][k] \in Name
    <3>1. due = RowsAfter(Mount, a)
      BY <2>1
    <3>2. /\ RowsAfter(Mount, a) = InOrder[B] /\ B \in SUBSET Name
          /\ Len(RowsAfter(Mount, a)) = Cardinality(B) /\ Cardinality(B) \in Nat
      BY <1>0, <2>1, NextRows
    <3> HIDE DEF due, B
    <3> QED BY <3>1, <3>2, InOrderIs
  <2> HIDE DEF due, B
  <2>4. n \in Nat /\ n <= limit /\ n <= Cardinality(B) /\ (n = limit \/ n = Cardinality(B))
    BY <2>3, LeastIs
  <2> HIDE DEF n
  <2>5. Len(first) = n /\ \A k \in 1..n : first[k] = MountEntry(due[k])
    <3>1. \A k \in 1..n : MountEntry(due[k]) \in Entry("root")
      <4> TAKE k \in 1..n
      <4>1. due[k] \in Name
        BY <2>3, <2>4
      <4> QED BY <4>1, RootPassed DEF MountEntry, Entry
    <3>2. first \in [1..n -> Entry("root")]
      BY <3>1
    <3>3. \A k \in 1..n : first[k] = MountEntry(due[k])
      OBVIOUS
    <3> HIDE DEF first
    <3>4. Len(first) = n
      BY ONLY <2>4, <3>2
    <3> QED BY <3>3, <3>4
  <2>6. CASE n = limit
    <3>1. limit \in 1..Cardinality(B) /\ limit \in 1..n
      BY <2>3, <2>4, <2>6
    <3>2. Last(first).cursor = MountAt(InOrder[B][limit])
      <4>1. Last(first) = first[limit]
        BY <2>5, <2>6 DEF Last
      <4>2. first[limit] = MountEntry(InOrder[B][limit])
        BY <2>3, <2>5, <3>1
      <4> QED BY <4>1, <4>2 DEF MountEntry
    <3>3. first = [k \in 1..limit |-> MountEntry(InOrder[B][k])]
      BY <2>3, <2>6
    <3>4. page = [entries |-> [k \in 1..limit |-> MountEntry(InOrder[B][k])],
                  next    |-> MountAt(InOrder[B][limit])]
      BY <1>1, <2>5, <2>6, <3>2, <3>3
    <3>5. Fills(rows, at, a, limit, page)
      BY <2>1, <2>2, <3>1, <3>4 DEF B, Fills
    <3> HIDE DEF rows
    <3>6. Fits("root", rows, at, page)
      BY <3>5, RootFull
    <3> QED BY <3>6 DEF rows, page
  <2>7. CASE n # limit
    <3>1. n = Cardinality(B) /\ limit - n \in Nat \ {0} /\ Len(first) # limit /\ limit - Len(first) = limit - n
      BY <2>4, <2>5, <2>7
    <3>2. part = StorePage(native, None, limit - n)
      BY <2>1, <3>1 DEF NativeAfter
    <3>3. first = [k \in 1..Cardinality(B) |-> MountEntry(InOrder[B][k])]
      BY <2>3, <3>1
    <3> HIDE DEF part, first, rows
    <3>4. Unhides(native, None, H, part.next)
      BY <3>1, <3>2, Unhidden
    <3> HIDE DEF H
    <3>5. DOMAIN InOrder[H] = 1..Cardinality(H)
      BY <3>4, InOrderIs DEF Unhides
    <3>6. page = [entries |-> RootEntries(B, H),
                  next    |-> IF part.next = None THEN None ELSE NativeAt(part.next)]
      BY <1>1, <3>1, <3>3, <3>5 DEF RootEntries
    <3>7. After(None) = Name
      BY DEF After, Name
    <3>8. B = Mount \ Passed("root", rows, at)
      <4>1. a = None => After(a) = Name
        BY <3>7
      <4> QED BY <1>0, <2>2, <4>1 DEF B
    <3>9. native \ After(None) \subseteq Passed("root", rows, at)
          /\ Passed("root", rows, at) \subseteq Mount \cup (Name \ After(None))
      BY <2>2, <3>7
    <3>10. \A m \in B : Passed("root", rows, at) \subseteq Mount \ After(m)
      <4> TAKE m \in B
      <4>1. m \in Name /\ m \in After(a)
        BY <1>0 DEF B
      <4>2. After(m) \subseteq After(a)
        BY <2>1, <4>1, AfterAfter
      <4> QED BY <2>2, <4>2
    <3>11. at # None /\ at.phase = "native" => at = NativeAt(None)
      BY <1>2
    <3>12. Joins(native, at, None, part.next, B, H, page)
      BY <3>4, <3>6, <3>8, <3>9, <3>10, <3>11 DEF Joins, rows
    <3>13. Fits("root", Mount \cup native, at, page)
      BY <3>12, RootJoin
    <3> QED BY <3>13 DEF page
  <2> QED BY <2>6, <2>7
<1>3. CASE at # None /\ at.phase # "mounts"
  <2>1. at = NativeAt(at.after) /\ at.after \in Name /\ at.phase = "native"
    BY <1>3 DEF Position, NativeAt
  <2>2. Passed("root", rows, at) = Mount \cup (Name \ After(at.after))
    BY <1>3, <2>1 DEF Passed
  <2>3. resume = at
    BY <1>3 DEF RootResumed
  <2>4. due = <<>> /\ Len(due) = 0
    BY <1>3, <2>3, EmptySeq
  <2> HIDE DEF resume, due
  <2>5. n = 0
    BY <2>4 DEF Least
  <2>6. first = <<>> /\ Len(first) = 0 /\ limit - Len(first) = limit
    BY <2>5, EmptySeq
  <2>7. part = StorePage(native, at.after, limit)
    BY <1>3, <2>1, <2>3, <2>6 DEF NativeAfter
  <2> HIDE DEF part, rows
  <2>8. Unhides(native, at.after, H, part.next)
    BY <2>1, <2>7, Unhidden
  <2> HIDE DEF H
  <2>9. DOMAIN InOrder[H] = 1..Cardinality(H) /\ Cardinality({}) = 0
    BY <2>8, InOrderIs, FS_EmptySet DEF Unhides
  <2>10. first = [k \in 1..Cardinality({}) |-> MountEntry(InOrder[{}][k])]
    BY <2>5, <2>9
  <2>11. page = [entries |-> RootEntries({}, H),
                 next    |-> IF part.next = None THEN None ELSE NativeAt(part.next)]
    <3> HIDE DEF first
    <3> QED BY <1>1, <2>6, <2>9, <2>10 DEF RootEntries
  <2>12. {} = Mount \ Passed("root", rows, at)
    BY <2>2
  <2>13. native \ After(at.after) \subseteq Passed("root", rows, at)
         /\ Passed("root", rows, at) \subseteq Mount \cup (Name \ After(at.after))
    BY <2>2
  <2> HIDE DEF first, n
  <2>14. Joins(native, at, at.after, part.next, {}, H, page)
    BY <2>1, <2>8, <2>11, <2>12, <2>13 DEF Joins, rows
  <2>15. Fits("root", Mount \cup native, at, page)
    BY <2>14, RootJoin
  <2> QED BY <2>15 DEF page
<1> QED BY <1>2, <1>3

-----------------------------------------------------------------------------
(* A remote's page                                                         *)

\* A position in a remote's listing.
RemoteAt(t, i) == [token |-> t, skip |-> i]

\* What a count of rows after a token is past.
LEMMA CountedPast ==
  ASSUME NEW rows \in SUBSET Name, NEW t \in Nat \cup {None}
  PROVE  LET B     == After(t) \cap rows
             s     == InOrder[B]
             Up(i) == Passed("remote", rows, RemoteAt(t, i))
         IN /\ \A i \in Nat : RemoteAt(t, i) \in Position("remote") /\ RemoteAt(t, i) # None
            /\ \A i, j \in Nat : i <= j => Up(i) \subseteq Up(j)
            /\ \A i \in Nat, x \in Name : x \notin After(t) => x \in Up(i)
            /\ \A k \in 1..Cardinality(B), i \in Nat : s[k] \in Up(i) <=> k <= i
            /\ \A x \in rows : x \in After(t) => \E k \in 1..Cardinality(B) : s[k] = x
            /\ \A k \in 1..Cardinality(B) :
                 /\ s[k] \in Name /\ s[k] \in rows
                 /\ Up(k) \subseteq Passed("remote", rows, RemoteAt(s[k], 0))
                 /\ rows \cap Passed("remote", rows, RemoteAt(s[k], 0)) \subseteq Up(k)
<1> DEFINE B == After(t) \cap rows
           s == InOrder[B]
           Up(i) == Passed("remote", rows, RemoteAt(t, i))
<1>1. B \in SUBSET Name /\ Cardinality(B) \in Nat
  BY FewNames
<1>2. \A u \in Nat \cup {None}, i \in Nat : RemoteAt(u, i) \in Position("remote") /\ RemoteAt(u, i) # None
  BY NamesAssumption DEF RemoteAt, Position
<1>3. \A u \in Nat \cup {None}, i \in Nat : \A x :
        x \in Passed("remote", rows, RemoteAt(u, i)) <=>
          x \in Name /\ (x \in After(u) => Rank(After(u) \cap rows, x) <= i)
  BY <1>2 DEF Passed, RemoteAt
<1>4. \A u \in Nat \cup {None}, x \in Name : Rank(After(u) \cap rows, x) \in Nat
  <2> TAKE u \in Nat \cup {None}, x \in Name
  <2>1. After(u) \cap rows \in SUBSET Name /\ Cardinality(After(u) \cap rows) \in Nat
    BY FewNames
  <2>2. Rank(After(u) \cap rows, x) \in 0..Cardinality(After(u) \cap rows)
    BY <2>1, RankFacts
  <2> QED BY <2>1, <2>2
<1>5. /\ \A k \in 1..Cardinality(B) : s[k] \in B /\ Rank(B, s[k]) = k
      /\ \A x \in B : Rank(B, x) \in 1..Cardinality(B) /\ s[Rank(B, x)] = x
  BY <1>1, InOrderIs
<1> HIDE DEF B, s
<1>6. \A x \in B : x \in rows /\ x \in After(t) /\ x \in Name
  BY <1>1 DEF B
<1>7. \A i \in Nat : \A x : x \in Up(i) <=> x \in Name /\ (x \in After(t) => Rank(B, x) <= i)
  BY <1>3 DEF B
<1>8. \A x \in Name : Rank(B, x) \in Nat
  BY <1>4 DEF B
<1> HIDE DEF Up
<1>9. ASSUME NEW i \in Nat, NEW j \in Nat, i <= j PROVE Up(i) \subseteq Up(j)
  BY <1>7, <1>8, <1>9
<1>10. \A k \in 1..Cardinality(B), i \in Nat : s[k] \in Up(i) <=> k <= i
  BY <1>5, <1>6, <1>7
<1>11. \A x \in rows : x \in After(t) => \E k \in 1..Cardinality(B) : s[k] = x
  <2> SUFFICES ASSUME NEW x \in rows, x \in After(t) PROVE \E k \in 1..Cardinality(B) : s[k] = x
    OBVIOUS
  <2>1. x \in B
    BY DEF B
  <2> QED BY <1>5, <2>1
<1>12. ASSUME NEW k \in 1..Cardinality(B)
       PROVE  /\ s[k] \in Name /\ s[k] \in rows
              /\ Up(k) \subseteq Passed("remote", rows, RemoteAt(s[k], 0))
              /\ rows \cap Passed("remote", rows, RemoteAt(s[k], 0)) \subseteq Up(k)
  <2> DEFINE n == s[k]
             C == After(n) \cap rows
  <2>1. n \in B /\ n \in Name /\ n \in rows /\ n \in After(t) /\ Rank(B, n) = k /\ k \in Nat /\ n \in Nat
    <3>1. n \in B /\ Rank(B, n) = k /\ k \in Nat
      BY <1>1, <1>5
    <3> HIDE DEF n
    <3> QED BY <1>6, <3>1, NameIs
  <2> HIDE DEF n
  <2>2. \A x : x \in Passed("remote", rows, RemoteAt(n, 0)) <=> x \in Name /\ (x \in After(n) => Rank(C, x) <= 0)
    BY <1>3, <2>1
  <2>3. C \in SUBSET Name /\ (\A x \in Name : Rank(C, x) \in Nat)
    BY <1>4, <2>1
  <2>4. \A x \in After(n) : x \in Name /\ x \in Nat /\ n < x
    BY <2>1, AfterIs, NameIs, NamesAssumption
  <2>5. ASSUME NEW x \in Up(k) PROVE x \in Passed("remote", rows, RemoteAt(n, 0))
    <3>1. SUFFICES ASSUME x \in After(n) PROVE Rank(C, x) = 0
      BY <1>7, <2>1, <2>2, <2>5
    <3>2. x \in After(t) /\ x \in Name /\ x \in Nat
      <4>1. n \in Nat /\ (t = None \/ n > t)
        BY <2>1, AfterIs
      <4>2. x \in Name /\ x \in Nat /\ (t = None \/ x > t)
        BY <2>4, <3>1, <4>1
      <4> QED BY <4>2, AfterIs
    <3>3. Rank(B, x) <= k
      BY <1>7, <2>1, <2>5, <3>2
    <3>4. ASSUME NEW y \in C, y <= x PROVE FALSE
      <4>1. y \in rows /\ y \in Name /\ y \in Nat /\ n < y
        BY <2>4
      <4>2. y \in B
        <5>1. t = None \/ y > t
          <6>1. n \in Nat /\ (t = None \/ n > t)
            BY <2>1, AfterIs
          <6> QED BY <4>1, <6>1
        <5>2. y \in After(t)
          BY <4>1, <5>1, AfterIs
        <5> QED BY <4>1, <5>2 DEF B
      <4>3. Rank(B, n) < Rank(B, y)
        BY <1>1, <2>1, <4>1, <4>2, RankFacts
      <4>4. Rank(B, y) <= Rank(B, x)
        BY <1>1, <3>2, <3>4, <4>1, RankFacts
      <4>5. Rank(B, y) \in Nat /\ Rank(B, x) \in Nat
        BY <1>8, <3>2, <4>1
      <4> QED BY <2>1, <3>3, <4>3, <4>4, <4>5
    <3>5. {y \in C : y <= x} = {}
      BY <3>4
    <3> QED BY <3>5, FS_EmptySet DEF Rank
  <2>6. ASSUME NEW x \in rows, x \in Passed("remote", rows, RemoteAt(n, 0)) PROVE x \in Up(k)
    <3>1. x \in Name /\ x \in Nat /\ (x \in After(n) => Rank(C, x) <= 0)
      BY <2>2, <2>6, NameIs
    <3>2. x \notin After(n)
      <4>1. SUFFICES ASSUME x \in After(n) PROVE FALSE
        OBVIOUS
      <4>2. x \in C
        BY <4>1
      <4>3. Rank(C, x) >= 1
        BY <2>3, <3>1, <4>2, RankFacts
      <4> QED BY <2>3, <3>1, <4>1, <4>3
    <3>3. x <= n
      <4>1. ~(x > n)
        BY <2>1, <3>1, <3>2, AfterIs
      <4> QED BY <2>1, <3>1, <4>1
    <3>4. Rank(B, x) <= Rank(B, n)
      BY <1>1, <2>1, <3>1, <3>3, RankFacts
    <3> QED BY <1>7, <2>1, <3>1, <3>4
  <2> QED BY <2>1, <2>5, <2>6 DEF n
<1>13. \A i \in Nat, x \in Name : x \notin After(t) => x \in Up(i)
  BY <1>7
<1> QED BY <1>2, <1>9, <1>10, <1>11, <1>12, <1>13 DEF Up, s, B

\* A page of the rows after a token, some of them skipped.
Divides(rows, t, skipped, total, n, more, page) ==
  LET B == After(t) \cap rows
      s == InOrder[B]
  IN /\ rows \in SUBSET Name /\ t \in Nat \cup {None}
     /\ {skipped, total, n} \subseteq Nat /\ skipped + n <= total /\ total <= Cardinality(B)
     /\ more \in BOOLEAN /\ (more => total >= 1)
     /\ page = [entries |-> [k \in 1..n |->
                  [item   |-> s[skipped + k],
                   cursor |-> IF skipped + k = total /\ more THEN RemoteAt(s[total], 0)
                              ELSE RemoteAt(t, skipped + k)]],
                next |-> IF more THEN RemoteAt(s[total], 0) ELSE None]

\* What there is to say of one.
Divided(rows, t, skipped, total, n, more, page) ==
  LET s     == InOrder[After(t) \cap rows]
      Up(i) == Passed("remote", rows, RemoteAt(t, i))
  IN /\ page.entries \in Seq(Entry("remote")) /\ Len(page.entries) = n
     /\ page.next \in Position("remote") \cup {None} /\ (page.next # None <=> more)
     /\ page = [entries |-> page.entries, next |-> page.next]
     /\ more => page.next = RemoteAt(s[total], 0)
     /\ \A k \in 1..n :
          /\ page.entries[k].item = s[skipped + k] /\ page.entries[k].item \in Name
          /\ skipped + k \in 1..Cardinality(After(t) \cap rows)
          /\ page.entries[k].cursor = IF skipped + k = total /\ more THEN RemoteAt(s[total], 0)
                                     ELSE RemoteAt(t, skipped + k)
          /\ Up(skipped + k) \subseteq Passed("remote", rows, page.entries[k].cursor)
          /\ rows \cap Passed("remote", rows, page.entries[k].cursor) \subseteq Up(skipped + k)

\* The entries of a page cut from a remote's answer, and what each is past.
LEMMA DividedPage ==
  ASSUME NEW rows, NEW t, NEW skipped, NEW total, NEW n, NEW more, NEW page,
         Divides(rows, t, skipped, total, n, more, page)
  PROVE  Divided(rows, t, skipped, total, n, more, page)
<1> DEFINE B == After(t) \cap rows
           s == InOrder[B]
           Up(i) == Passed("remote", rows, RemoteAt(t, i))
           c(k) == IF skipped + k = total /\ more THEN RemoteAt(s[total], 0) ELSE RemoteAt(t, skipped + k)
           e == [k \in 1..n |-> [item |-> s[skipped + k], cursor |-> c(k)]]
<1>1. /\ rows \in SUBSET Name /\ t \in Nat \cup {None} /\ B \in SUBSET Name
      /\ skipped \in Nat /\ total \in Nat /\ n \in Nat /\ skipped + n <= total
      /\ total <= Cardinality(B) /\ Cardinality(B) \in Nat
      /\ more \in BOOLEAN /\ (more => total >= 1)
      /\ page = [entries |-> e, next |-> IF more THEN RemoteAt(s[total], 0) ELSE None]
  BY FewNames DEF Divides
<1>2. /\ \A i \in Nat : RemoteAt(t, i) \in Position("remote") /\ RemoteAt(t, i) # None
      /\ \A k \in 1..Cardinality(B) :
           /\ s[k] \in Name /\ s[k] \in rows
           /\ Up(k) \subseteq Passed("remote", rows, RemoteAt(s[k], 0))
           /\ rows \cap Passed("remote", rows, RemoteAt(s[k], 0)) \subseteq Up(k)
  BY <1>1, CountedPast
<1>3. \A m \in Name : RemoteAt(m, 0) \in Position("remote") /\ RemoteAt(m, 0) # None
  BY NameIs, NamesAssumption DEF RemoteAt, Position
<1> HIDE DEF B, s, Up
<1>4. more => total \in 1..Cardinality(B) /\ s[total] \in Name
  BY <1>1, <1>2
<1>5. \A k \in 1..n : skipped + k \in 1..Cardinality(B) /\ skipped + k \in Nat
  BY <1>1
<1>6. ASSUME NEW k \in 1..n
      PROVE  /\ c(k) \in Position("remote") /\ s[skipped + k] \in Name
             /\ Up(skipped + k) \subseteq Passed("remote", rows, c(k))
             /\ rows \cap Passed("remote", rows, c(k)) \subseteq Up(skipped + k)
  <2>1. CASE skipped + k = total /\ more
    BY <1>2, <1>3, <1>4, <1>5, <2>1
  <2>2. CASE ~(skipped + k = total /\ more)
    BY <1>2, <1>5, <2>2 DEF Up
  <2> QED BY <2>1, <2>2
<1> HIDE DEF c
<1>7. e \in [1..n -> Entry("remote")]
  BY <1>6 DEF Entry
<1>8. \A k \in 1..n : e[k].item = s[skipped + k] /\ e[k].cursor = c(k)
  OBVIOUS
<1> HIDE DEF e
<1>9. e \in Seq(Entry("remote")) /\ Len(e) = n
  BY ONLY <1>1, <1>7
<1>10. page.entries = e /\ page.next = (IF more THEN RemoteAt(s[total], 0) ELSE None)
       /\ page = [entries |-> page.entries, next |-> page.next]
  BY <1>1
<1>11. page.next \in Position("remote") \cup {None} /\ (page.next # None <=> more)
  BY <1>1, <1>3, <1>4, <1>10
<1> HIDE DEF e
<1>12. \A k \in 1..n :
         /\ page.entries[k].item = s[skipped + k] /\ page.entries[k].item \in Name
         /\ skipped + k \in 1..Cardinality(B)
         /\ page.entries[k].cursor = c(k)
         /\ Up(skipped + k) \subseteq Passed("remote", rows, page.entries[k].cursor)
         /\ rows \cap Passed("remote", rows, page.entries[k].cursor) \subseteq Up(skipped + k)
  BY <1>5, <1>6, <1>8, <1>10
<1> QED BY <1>9, <1>10, <1>11, <1>12 DEF c, B, s, Up, Divided

\* They come in turn.
LEMMA DividedTurn ==
  ASSUME NEW rows, NEW at, NEW t, NEW skipped, NEW total, NEW n, NEW more, NEW page,
         Divides(rows, t, skipped, total, n, more, page),
         Passed("remote", rows, at) \subseteq Passed("remote", rows, RemoteAt(t, skipped))
  PROVE  InTurn("remote", rows, at, page)
<1> DEFINE B == After(t) \cap rows
           s == InOrder[B]
           Up(i) == Passed("remote", rows, RemoteAt(t, i))
           F == Passed("remote", rows, at)
           e == page.entries
           C(k) == Passed("remote", rows, e[k].cursor)
<1>1. /\ rows \in SUBSET Name /\ t \in Nat \cup {None}
      /\ skipped \in Nat /\ total \in Nat /\ n \in Nat /\ skipped + n <= total
  BY DEF Divides
<1>2. /\ \A i, j \in Nat : i <= j => Up(i) \subseteq Up(j)
      /\ \A k \in 1..Cardinality(B), i \in Nat : s[k] \in Up(i) <=> k <= i
      /\ \A k \in 1..Cardinality(B) : s[k] \in Name /\ s[k] \in rows
  BY <1>1, CountedPast
<1>3. /\ Len(e) = n
      /\ \A k \in 1..n : /\ e[k].item = s[skipped + k] /\ skipped + k \in 1..Cardinality(B)
                         /\ Up(skipped + k) \subseteq C(k)
                         /\ rows \cap C(k) \subseteq Up(skipped + k)
  <2>1. Divided(rows, t, skipped, total, n, more, page)
    BY DividedPage
  <2> QED BY <2>1 DEF Divided
<1>4. F \subseteq Up(skipped)
  OBVIOUS
<1> HIDE DEF B, s, Up, F, e, C
<1>5. ASSUME NEW k \in 1..n
      PROVE  /\ e[k].item \notin F /\ F \cup Items(e, k) \subseteq C(k)
             /\ \A j \in 1..(k - 1) : e[k].item \notin C(j)
  <2>1. k \in Nat /\ skipped + k \in Nat /\ ~(skipped + k <= skipped) /\ skipped <= skipped + k
    BY <1>1
  <2>2. e[k].item = s[skipped + k] /\ skipped + k \in 1..Cardinality(B) /\ s[skipped + k] \in rows
    BY <1>2, <1>3
  <2>3. e[k].item \notin F
    BY <1>1, <1>2, <1>4, <2>1, <2>2
  <2>4. F \subseteq C(k)
    BY <1>1, <1>2, <1>3, <1>4, <2>1
  <2>5. ASSUME NEW j \in 1..k PROVE e[j].item \in C(k)
    <3>1. j \in 1..n /\ skipped + j <= skipped + k
      BY <1>1
    <3>2. e[j].item = s[skipped + j] /\ skipped + j \in 1..Cardinality(B)
      BY <1>3, <3>1
    <3>3. s[skipped + j] \in Up(skipped + k)
      BY <1>2, <2>1, <3>1, <3>2
    <3> QED BY <1>3, <3>2, <3>3
  <2>6. ASSUME NEW j \in 1..(k - 1) PROVE e[k].item \notin C(j)
    <3>1. j \in 1..n /\ skipped + j \in Nat /\ ~(skipped + k <= skipped + j)
      BY <1>1
    <3>2. s[skipped + k] \notin Up(skipped + j)
      BY <1>2, <2>2, <3>1
    <3> QED BY <1>3, <2>2, <3>1, <3>2
  <2> QED BY <2>3, <2>4, <2>5, <2>6 DEF Items
<1> QED BY <1>3, <1>5 DEF InTurn, e, F, C

\* They leave nothing out.
LEMMA DividedWhole ==
  ASSUME NEW rows, NEW at, NEW t, NEW skipped, NEW total, NEW n, NEW more, NEW page,
         Divides(rows, t, skipped, total, n, more, page),
         rows \cap Passed("remote", rows, RemoteAt(t, skipped)) \subseteq Passed("remote", rows, at),
         more => n >= 1,
         ~more => /\ total = Cardinality(After(t) \cap rows)
                  /\ skipped + n = total \/ rows \subseteq Passed("remote", rows, at)
  PROVE  Complete("remote", rows, at, page)
<1> DEFINE B == After(t) \cap rows
           s == InOrder[B]
           Up(i) == Passed("remote", rows, RemoteAt(t, i))
           F == Passed("remote", rows, at)
           e == page.entries
           C(k) == Passed("remote", rows, e[k].cursor)
<1>1. /\ rows \in SUBSET Name /\ t \in Nat \cup {None}
      /\ skipped \in Nat /\ total \in Nat /\ n \in Nat /\ skipped + n <= total
  BY DEF Divides
<1>2. /\ \A i \in Nat, x \in Name : x \notin After(t) => x \in Up(i)
      /\ \A k \in 1..Cardinality(B), i \in Nat : s[k] \in Up(i) <=> k <= i
      /\ \A x \in rows : x \in After(t) => \E k \in 1..Cardinality(B) : s[k] = x
  BY <1>1, CountedPast
<1>3. /\ Len(e) = n /\ (page.next # None <=> more)
      /\ \A k \in 1..n : /\ e[k].item = s[skipped + k] /\ skipped + k \in 1..Cardinality(B)
                         /\ rows \cap C(k) \subseteq Up(skipped + k)
  <2>1. Divided(rows, t, skipped, total, n, more, page)
    BY DividedPage
  <2> QED BY <2>1 DEF Divided
<1>4. rows \cap Up(skipped) \subseteq F /\ (more => n >= 1)
      /\ (~more => total = Cardinality(B) /\ (skipped + n = total \/ rows \subseteq F))
  OBVIOUS
<1> HIDE DEF B, s, Up, F, e, C
<1>5. ASSUME NEW k \in 0..n, NEW x \in rows, x \in Up(skipped + k) PROVE x \in F \cup Items(e, k)
  <2>1. k \in Nat /\ skipped + k \in Nat /\ x \in Name
    BY <1>1
  <2>2. CASE x \notin After(t)
    BY <1>1, <1>2, <1>4, <2>1, <2>2
  <2>3. CASE x \in After(t)
    <3>1. PICK l \in 1..Cardinality(B) : s[l] = x
      BY <1>2, <2>3
    <3>2. l <= skipped + k /\ l \in Nat
      BY <1>2, <1>5, <2>1, <3>1
    <3>3. CASE l <= skipped
      BY <1>1, <1>2, <1>4, <3>1, <3>3
    <3>4. CASE ~(l <= skipped)
      <4>1. l - skipped \in 1..k /\ l - skipped \in 1..n /\ skipped + (l - skipped) = l
        BY <1>1, <2>1, <3>2, <3>4
      <4>2. e[l - skipped].item = x
        BY <1>3, <3>1, <4>1
      <4> QED BY <4>1, <4>2 DEF Items
    <3> QED BY <3>3, <3>4
  <2> QED BY <2>2, <2>3
<1>6. \A k \in 1..n : rows \cap C(k) \subseteq F \cup Items(e, k)
  <2> TAKE k \in 1..n
  <2>1. k \in 0..n
    BY <1>1
  <2> QED BY <1>3, <1>5, <2>1
<1>7. ASSUME page.next = None PROVE rows \subseteq F \cup Items(e, n)
  <2>1. ~more /\ total = Cardinality(B)
    BY <1>3, <1>4, <1>7
  <2>2. CASE skipped + n = total
    <3>1. \A x \in rows : x \in Up(skipped + n)
      <4> TAKE x \in rows
      <4>1. CASE x \notin After(t)
        BY <1>1, <1>2, <4>1
      <4>2. CASE x \in After(t)
        <5>1. PICK l \in 1..Cardinality(B) : s[l] = x
          BY <1>2, <4>2
        <5>2. l <= skipped + n
          BY <1>1, <2>1, <2>2
        <5> QED BY <1>1, <1>2, <5>1, <5>2
      <4> QED BY <4>1, <4>2
    <3>2. n \in 0..n
      BY <1>1
    <3> QED BY <1>5, <3>1, <3>2
  <2> QED BY <1>4, <2>1, <2>2
<1>8. page.next # None => e # <<>>
  <2>1. Len(<<>>) = 0
    BY EmptySeq
  <2> QED BY <1>1, <1>3, <1>4, <2>1
<1> QED BY <1>3, <1>6, <1>7, <1>8 DEF Complete, e, F, C

\* A page serves a listing that may be of a remote catalog.
Serves(src, manner, rows, at, page) ==
  /\ page.entries \in Seq(Entry(src)) /\ page.next \in Position(src) \cup {None}
  /\ page = [entries |-> page.entries, next |-> page.next]
  /\ (src = "remote" => manner = "pages") => Complete(src, rows, at, page)
  /\ Resumable(src, manner, rows, at) =>
       /\ InTurn(src, rows, at, page) /\ GoesOn(src, manner, rows, page)
       /\ (src = "remote" => manner \notin {"stuck", "endless"}) /\ page.entries = <<>> /\ page.next # None =>
            Passed(src, rows, at) \subseteq Passed(src, rows, page.next)
  /\ src = "remote" /\ manner \in {"stuck", "endless"} => page.entries = <<>>

\* The parts of a remote's answer.
RemotePart(rows, at, limit, resume, rest, most, m) ==
  /\ resume.token \in Nat \cup {None} /\ resume.skip \in Nat
  /\ resume = RemoteAt(resume.token, resume.skip)
  /\ at = None => resume.token = None /\ resume.skip = 0
  /\ at # None => at = RemoteAt(resume.token, resume.skip)
  /\ rest = InOrder[After(resume.token) \cap rows] /\ rest \in Seq(Name)
  /\ Len(rest) = Cardinality(After(resume.token) \cap rows)
  /\ Cardinality(After(resume.token) \cap rows) \in Nat
  /\ most \in Nat \ {0} /\ most <= limit + resume.skip
  /\ m \in Nat /\ m <= Len(rest) /\ m <= most /\ (m = Len(rest) \/ m = most)
  /\ resume.skip < MaxPageSize /\ resume.skip < RemoteCap => resume.skip < most
  /\ SubSeq(rest, 1, m) \in Seq(Name) /\ Len(SubSeq(rest, 1, m)) = m
  /\ \A k \in 1..m : SubSeq(rest, 1, m)[k] = rest[k]

LEMMA RemoteParts ==
  ASSUME NEW rows \in SUBSET Name, NEW at \in Position("remote") \cup {None}, NEW limit \in Nat \ {0}
  PROVE  LET resume == Resumed(at)
             rest   == RowsAfter(rows, resume.token)
             most   == Least(PageQuery(resume, limit), RemoteCap)
         IN RemotePart(rows, at, limit, resume, rest, most, Least(Len(rest), most))
<1> DEFINE resume == Resumed(at)
           t    == resume.token
           rest == RowsAfter(rows, t)
           query == PageQuery(resume, limit)
           most == Least(query, RemoteCap)
           m    == Least(Len(rest), most)
<1>1. /\ t \in Nat \cup {None} /\ resume.skip \in Nat /\ resume = RemoteAt(t, resume.skip)
      /\ (at = None => t = None /\ resume.skip = 0) /\ (at # None => at = RemoteAt(t, resume.skip))
  <2>1. CASE at = None
    BY <2>1 DEF Resumed, StartOf, RemoteAt
  <2>2. CASE at # None
    BY <2>2 DEF Resumed, Position, RemoteAt
  <2> QED BY <2>1, <2>2
<1>2. /\ rest = InOrder[After(t) \cap rows] /\ rest \in Seq(Name)
      /\ Len(rest) = Cardinality(After(t) \cap rows) /\ Cardinality(After(t) \cap rows) \in Nat
  BY <1>1, NextRows
<1>3. query = Least(limit + resume.skip, MaxPageSize)
  BY DEF PageQuery
<1>4. MaxPageSize \in Nat \ {0} /\ RemoteCap \in Nat \ {0}
  BY PagingAssumption
<1> HIDE DEF resume, rest, query
<1>5. query \in Nat /\ query >= 1 /\ query <= limit + resume.skip
      /\ (resume.skip < MaxPageSize => resume.skip < query)
  BY <1>1, <1>3, <1>4 DEF Least
<1>6. /\ most \in Nat \ {0} /\ most <= limit + resume.skip
      /\ (resume.skip < MaxPageSize /\ resume.skip < RemoteCap => resume.skip < most)
  BY <1>1, <1>4, <1>5 DEF Least
<1> HIDE DEF most
<1>7. m \in Nat /\ m <= Len(rest) /\ m <= most /\ (m = Len(rest) \/ m = most)
  BY <1>2, <1>6 DEF Least
<1> HIDE DEF m
<1>8. /\ SubSeq(rest, 1, m) \in Seq(Name) /\ Len(SubSeq(rest, 1, m)) = m
      /\ \A k \in 1..m : SubSeq(rest, 1, m)[k] = rest[k]
  <2>1. m \in Int /\ \A i \in 1..m : rest[i] \in Name
    <3>1. \A i \in 1..m : i \in 1..Len(rest)
      BY <1>2, <1>7
    <3> QED BY <1>2, <1>7, <3>1, ElementOfSeq
  <2>2. /\ SubSeq(rest, 1, m) \in Seq(Name) /\ Len(SubSeq(rest, 1, m)) = IF 1 <= m THEN m - 1 + 1 ELSE 0
        /\ \A i \in 1..(m - 1 + 1) : SubSeq(rest, 1, m)[i] = rest[1 + i - 1]
    BY ONLY <2>1, SubSeqProperties
  <2>3. m - 1 + 1 = m /\ (IF 1 <= m THEN m ELSE 0) = m /\ \A i \in 1..m : 1 + i - 1 = i
    BY <1>7
  <2> QED BY ONLY <2>2, <2>3
<1>9. RemotePart(rows, at, limit, resume, rest, most, m)
  BY <1>1, <1>2, <1>6, <1>7, <1>8 DEF RemotePart
<1> QED BY <1>9 DEF m, most, rest, resume, query

\* What is left of items that a remote gave.
Repaged(items, next, t, skip, limit) ==
  LET total == Len(items)
      sk    == IF skip >= total THEN 0 ELSE skip
      n     == Least(limit, total - sk)
  IN /\ total \in Nat /\ sk \in Nat /\ sk <= total /\ n \in Nat
     /\ n <= limit /\ n <= total - sk /\ (n = limit \/ n = total - sk) /\ sk + n <= total
     /\ Repage([items |-> items, next |-> next], RemoteAt(t, skip), limit)
          = [entries |-> [k \in 1..n |->
               [item   |-> items[sk + k],
                cursor |-> IF sk + k = total /\ next # None THEN RemoteAt(next, 0)
                           ELSE RemoteAt(t, sk + k)]],
             next    |-> IF next = None THEN None ELSE RemoteAt(next, 0)]

\* What repage makes of an answer (rest.rs:443).
LEMMA RepageIs ==
  ASSUME NEW items \in Seq(Name), NEW next \in Name \cup {None}, NEW t \in Nat \cup {None},
         NEW skip \in Nat, NEW limit \in Nat \ {0}
  PROVE  Repaged(items, next, t, skip, limit)
<1> DEFINE total == Len(items)
           sk    == IF skip >= total THEN 0 ELSE skip
           n     == Least(limit, total - sk)
<1>1. total \in Nat
  OBVIOUS
<1>2. sk \in Nat /\ sk <= total /\ total - sk \in Nat
  BY <1>1
<1>3. n \in Nat /\ n <= limit /\ n <= total - sk /\ (n = limit \/ n = total - sk)
  <2> HIDE DEF sk
  <2> QED BY <1>2, LeastIs
<1>4. sk + n <= total
  <2> HIDE DEF sk, n
  <2> QED BY <1>1, <1>2, <1>3
<1>5. /\ RemoteAt(t, skip).skip = skip
      /\ \A i : [RemoteAt(t, skip) EXCEPT !.skip = i] = RemoteAt(t, i)
      /\ StartOf(next) = RemoteAt(next, 0)
  BY DEF RemoteAt, StartOf
<1>6. SkipOf(RemoteAt(t, skip), total) = sk
  BY <1>5 DEF SkipOf
<1> HIDE DEF sk, n
<1>7. Repage([items |-> items, next |-> next], RemoteAt(t, skip), limit)
        = [entries |-> [k \in 1..n |->
             [item   |-> items[sk + k],
              cursor |-> IF sk + k = total /\ next # None THEN RemoteAt(next, 0)
                         ELSE RemoteAt(t, sk + k)]],
           next    |-> IF next = None THEN None ELSE RemoteAt(next, 0)]
  BY <1>5, <1>6 DEF Repage, n
<1> QED BY <1>1, <1>2, <1>3, <1>4, <1>7 DEF sk, n, Repaged

\* A remote that divides its rows.
LEMMA DividingRemote ==
  ASSUME NEW rows \in SUBSET Name, NEW at \in Position("remote") \cup {None}, NEW limit \in Nat \ {0}
  PROVE  Serves("remote", "pages", rows, at, RemotePage("pages", rows, at, limit))
<1> DEFINE resume == Resumed(at)
           t     == resume.token
           skip  == resume.skip
           rest  == RowsAfter(rows, t)
           query == PageQuery(resume, limit)
           most  == Least(query, RemoteCap)
           m     == Least(Len(rest), most)
           items == SubSeq(rest, 1, m)
           more  == Len(rest) > m
           next  == IF more THEN rest[m] ELSE None
           sk    == IF skip >= m THEN 0 ELSE skip
           n     == Least(limit, m - sk)
           page  == RemotePage("pages", rows, at, limit)
<1>1. /\ t \in Nat \cup {None} /\ skip \in Nat /\ resume = RemoteAt(t, skip)
      /\ at = None => t = None /\ skip = 0
      /\ at # None => at = RemoteAt(t, skip)
      /\ rest = InOrder[After(t) \cap rows] /\ rest \in Seq(Name)
      /\ Len(rest) = Cardinality(After(t) \cap rows) /\ Cardinality(After(t) \cap rows) \in Nat
      /\ most \in Nat \ {0} /\ most <= limit + skip
      /\ m \in Nat /\ m <= Len(rest) /\ m <= most /\ (m = Len(rest) \/ m = most)
      /\ skip < MaxPageSize /\ skip < RemoteCap => skip < most
      /\ items \in Seq(Name) /\ Len(items) = m
      /\ \A k \in 1..m : items[k] = rest[k]
  <2>1. RemotePart(rows, at, limit, resume, rest, most, m)
    BY RemoteParts
  <2> HIDE DEF resume, rest, most, m
  <2> QED BY <2>1 DEF RemotePart
<1>2. page = Repage([items |-> items, next |-> next], resume, limit)
  BY DEF RemotePage, RemoteAnswer
<1>25. query \in Nat /\ query <= MaxPageSize /\ MaxPageSize \in Nat /\ RemoteCap \in Nat
  <2>1. MaxPageSize \in Nat /\ RemoteCap \in Nat
    BY PagingAssumption
  <2>2. limit + skip \in Nat
    BY <1>1
  <2>3. query = Least(limit + skip, MaxPageSize)
    BY DEF PageQuery
  <2> HIDE DEF query, skip
  <2> QED BY <2>1, <2>2, <2>3, LeastIs
<1> HIDE DEF resume, rest, query, most, items, page
<1>3. more => m \in 1..Len(rest) /\ rest[m] \in Name
  <2>1. more => m \in 1..Len(rest)
    BY <1>1
  <2> HIDE DEF m
  <2> QED BY <1>1, <2>1, ElementOfSeq
<1> HIDE DEF m
<1>4. next \in Name \cup {None} /\ (next # None <=> more) /\ None \notin Name
  BY <1>3, NameIs, NamesAssumption
<1> HIDE DEF next
<1>5. /\ sk \in Nat /\ sk <= m /\ n \in Nat
      /\ n <= limit /\ n <= m - sk /\ (n = limit \/ n = m - sk) /\ sk + n <= m
      /\ page = [entries |-> [k \in 1..n |->
                   [item   |-> items[sk + k],
                    cursor |-> IF sk + k = m /\ next # None THEN RemoteAt(next, 0)
                               ELSE RemoteAt(t, sk + k)]],
                 next    |-> IF next = None THEN None ELSE RemoteAt(next, 0)]
  <2>1. resume = RemoteAt(t, skip)
    BY <1>1
  <2>2. page = Repage([items |-> items, next |-> next], RemoteAt(t, skip), limit)
    BY <1>2, <2>1
  <2>3. items \in Seq(Name) /\ next \in Name \cup {None} /\ t \in Nat \cup {None} /\ skip \in Nat
        /\ limit \in Nat \ {0} /\ Len(items) = m
    BY <1>1, <1>4
  <2>4. Repaged(items, next, t, skip, limit)
    BY ONLY <2>3, RepageIs
  <2> HIDE DEF t, skip
  <2> QED BY <2>2, <2>3, <2>4 DEF sk, n, Repaged
<1>6. sk = 0 \/ sk = skip
  OBVIOUS
<1>7. skip < m => sk = skip
  BY <1>1
<1>8. skip >= m => sk = 0
  OBVIOUS
<1> HIDE DEF sk, n
<1>20. /\ m \in Nat /\ limit \in Nat /\ limit >= 1 /\ skip \in Nat /\ sk \in Nat /\ n \in Nat
       /\ m <= limit + skip /\ (more => m >= 1) /\ sk <= m /\ n <= m - sk /\ (n = limit \/ n = m - sk)
  <2>1. m <= most /\ most <= limit + skip /\ most \in Nat /\ m \in Nat /\ skip \in Nat /\ limit \in Nat
        /\ limit >= 1
    BY <1>1
  <2>2. m <= limit + skip
    BY <2>1
  <2>3. more => m >= 1
    BY <1>1, <1>3
  <2> QED BY <1>5, <2>1, <2>2, <2>3
<1> HIDE DEF t, skip
<1>21. more => n >= 1
  <2>1. more => sk < m
    BY <1>7, <1>8, <1>20
  <2> QED BY <1>20, <2>1
<1>24. ASSUME skip < m, ~more PROVE sk + n = m
  <2>1. sk = skip /\ m <= limit + sk
    BY <1>7, <1>20, <1>24
  <2> QED BY <1>20, <2>1
<1>9. \A k \in 1..n : sk + k \in 1..m
  BY <1>1, <1>5
<1>10. next = IF more THEN rest[m] ELSE None
  BY DEF next
<1>11. Divides(rows, t, sk, m, n, more, page)
  <2> DEFINE s == InOrder[After(t) \cap rows]
             f == [k \in 1..n |-> [item   |-> s[sk + k],
                                   cursor |-> IF sk + k = m /\ more THEN RemoteAt(s[m], 0)
                                              ELSE RemoteAt(t, sk + k)]]
  <2>1. \A k \in 1..n : items[sk + k] = s[sk + k]
    BY <1>1, <1>9
  <2>2. more => next = s[m]
    BY <1>1, <1>10
  <2> HIDE DEF s, more
  <2>3. page = [entries |-> f, next |-> IF more THEN RemoteAt(s[m], 0) ELSE None]
    BY <1>4, <1>5, <2>1, <2>2
  <2>4. more \in BOOLEAN /\ (more => m >= 1)
    BY <1>1, <1>3 DEF more
  <2>5. {sk, m, n} \subseteq Nat /\ sk + n <= m /\ m <= Cardinality(After(t) \cap rows)
    BY <1>1, <1>5
  <2> QED BY <1>1, <2>3, <2>4, <2>5 DEF Divides, s
<1> DEFINE B == After(t) \cap rows
           Up(i) == Passed("remote", rows, RemoteAt(t, i))
           F == Passed("remote", rows, at)
<1>12. /\ \A i, j \in Nat : i <= j => Up(i) \subseteq Up(j)
       /\ \A k \in 1..Cardinality(B), i \in Nat : InOrder[B][k] \in Up(i) <=> k <= i
       /\ \A i \in Nat, x \in Name : x \notin After(t) => x \in Up(i)
       /\ \A x \in rows : x \in After(t) => \E k \in 1..Cardinality(B) : InOrder[B][k] = x
  BY <1>1, CountedPast
<1>13. at # None => F = Up(skip)
  BY <1>1
<1>14. at = None => F = {} /\ After(t) = Name /\ sk = 0
  BY <1>1, <1>6 DEF Passed, After, Name
<1>23. Len(rest) = Cardinality(B) /\ Cardinality(B) \in Nat
  BY <1>1
<1> HIDE DEF F, B, Up
<1>15. Complete("remote", rows, at, page)
  <2>1. rows \cap Up(sk) \subseteq F
    <3>1. CASE at # None
      BY <1>1, <1>5, <1>6, <1>12, <1>13, <3>1
    <3>2. CASE at = None
      <4>1. \A x \in rows : x \in After(t)
        BY <1>14, <3>2
      <4>2. \A k \in 1..Cardinality(B) : ~(k <= 0)
        BY <1>23
      <4> QED BY <1>12, <1>14, <3>2, <4>1, <4>2
    <3> QED BY <3>1, <3>2
  <2>2. more => n >= 1
    BY <1>21
  <2>3. ~more => m = Cardinality(B)
    BY <1>1, <1>23
  <2>4. CASE skip < m
    <3>1. ~more => sk + n = m
      BY <1>24, <2>4
    <3> QED BY <1>11, <2>1, <2>2, <2>3, <3>1, DividedWhole DEF F, B, Up
  <2>5. CASE ~(skip < m)
    <3>1. ~more => rows \subseteq F
      <4>1. SUFFICES ASSUME ~more, NEW x \in rows PROVE x \in F
        OBVIOUS
      <4>2. CASE at # None
        <5>1. CASE x \notin After(t)
          BY <1>1, <1>12, <1>13, <4>2, <5>1
        <5>2. CASE x \in After(t)
          <6>1. PICK k \in 1..Cardinality(B) : InOrder[B][k] = x
            BY <1>12, <5>2
          <6>2. k <= skip
            BY <1>1, <2>3, <2>5, <4>1
          <6> QED BY <1>1, <1>12, <1>13, <4>2, <6>1, <6>2
        <5> QED BY <5>1, <5>2
      <4>3. CASE at = None
        <5>1. m = 0 /\ Cardinality(B) = 0
          BY <1>1, <2>3, <2>5, <4>1, <4>3
        <5>2. \A k \in 1..Cardinality(B) : FALSE
          BY <5>1
        <5> QED BY <1>12, <1>14, <4>3, <5>2
      <4> QED BY <4>2, <4>3
    <3> QED BY <1>11, <2>1, <2>2, <2>3, <3>1, DividedWhole DEF F, B, Up
  <2> QED BY <2>4, <2>5
<1>16. /\ page.entries \in Seq(Entry("remote")) /\ Len(page.entries) = n
       /\ page.next \in Position("remote") \cup {None} /\ (page.next # None <=> more)
       /\ page = [entries |-> page.entries, next |-> page.next]
       /\ more => page.next = RemoteAt(rest[m], 0)
       /\ \A k \in 1..n : page.entries[k].cursor = IF sk + k = m /\ more THEN RemoteAt(rest[m], 0)
                                                   ELSE RemoteAt(t, sk + k)
  <2>1. Divided(rows, t, sk, m, n, more, page)
    BY <1>11, DividedPage
  <2> QED BY <1>1, <2>1 DEF Divided
<1>17. ASSUME Resumable("remote", "pages", rows, at) PROVE InTurn("remote", rows, at, page)
  <2>1. at # None => \/ skip = 0
                     \/ skip < Cardinality(B) /\ skip < MaxPageSize /\ skip < RemoteCap
    <3>1. at # None => at.skip = skip /\ at.token = t
      BY <1>1 DEF RemoteAt
    <3> QED BY <1>17, <3>1 DEF Resumable, B
  <2>2. sk = skip
    <3>1. CASE skip = 0
      BY <1>6, <3>1
    <3>2. CASE skip # 0
      <4>1. skip < Len(rest) /\ skip < most
        BY <1>1, <1>23, <2>1, <3>2
      <4>2. skip < m
        BY <1>1, <4>1
      <4> QED BY <1>7, <4>2
    <3> QED BY <3>1, <3>2
  <2>3. F \subseteq Up(sk)
    BY <1>13, <1>14, <2>2
  <2> QED BY <1>11, <2>3, DividedTurn DEF F, Up
<1>18. GoesOn("remote", "pages", rows, page)
  <2>1. \A i \in Nat : \A u : Resumable("remote", "pages", rows, RemoteAt(u, i)) <=>
                            (RemoteAt(u, i) # None =>
                               i = 0 \/ (i < Cardinality(After(u) \cap rows) /\ i < MaxPageSize /\ i < RemoteCap))
    <3>1. \A i, u : RemoteAt(u, i).skip = i /\ RemoteAt(u, i).token = u
      BY DEF RemoteAt
    <3> QED BY <3>1 DEF Resumable
  <2>2. m <= MaxPageSize /\ m <= RemoteCap
    <3>1. query \in Nat /\ query <= MaxPageSize /\ MaxPageSize \in Nat /\ RemoteCap \in Nat
      BY <1>25
    <3>2. most <= query /\ most <= RemoteCap
      BY <3>1, LeastIs DEF most
    <3> QED BY <1>1, <3>1, <3>2
  <2>3. ASSUME NEW k \in 1..n, k < n \/ page.next # None
        PROVE  Resumable("remote", "pages", rows, page.entries[k].cursor)
    <3>1. CASE sk + k = m /\ more
      BY <1>16, <2>1, <3>1
    <3>2. CASE ~(sk + k = m /\ more)
      <4>0. sk + k \in Nat
        BY <1>20
      <4>1. page.entries[k].cursor = RemoteAt(t, sk + k)
        <5>1. page.entries[k].cursor = IF sk + k = m /\ more THEN RemoteAt(rest[m], 0)
                                       ELSE RemoteAt(t, sk + k)
          BY <1>16
        <5> HIDE DEF more
        <5> QED BY <3>2, <5>1
      <4>2. sk + k < m
        BY <1>1, <1>5, <1>9, <1>16, <2>3, <3>2, <4>0
      <4>3. sk + k < Cardinality(B) /\ sk + k < MaxPageSize /\ sk + k < RemoteCap
        BY <1>1, <1>23, <2>2, <4>0, <4>2, PagingAssumption
      <4> QED BY <2>1, <4>0, <4>1, <4>3 DEF B
    <3> QED BY <3>1, <3>2
  <2>4. page.next # None => Resumable("remote", "pages", rows, page.next)
    BY <1>16, <2>1
  <2> QED BY <1>16, <2>3, <2>4 DEF GoesOn
<1>19. page.entries = <<>> => page.next = None
  <2>1. page.entries = <<>> => n = 0
    BY <1>16, EmptySeq
  <2>2. more => n >= 1
    BY <1>21
  <2> QED BY <1>5, <1>16, <2>1, <2>2
<1> QED BY <1>15, <1>16, <1>17, <1>18, <1>19 DEF Serves, page

\* A remote that knows nothing of pages answers with all it has.
LEMMA WholeRemote ==
  ASSUME NEW rows \in SUBSET Name, NEW at \in Position("remote") \cup {None}, NEW limit \in Nat \ {0}
  PROVE  Serves("remote", "whole", rows, at, RemotePage("whole", rows, at, limit))
<1> DEFINE t     == Resumed(at).token
           skip  == Resumed(at).skip
           items == RowsAfter(rows, None)
           m     == Len(items)
           sk    == IF skip >= m THEN 0 ELSE skip
           n     == Least(limit, m - sk)
           page  == RemotePage("whole", rows, at, limit)
           e     == page.entries
<1>1. /\ t \in Nat \cup {None} /\ skip \in Nat /\ Resumed(at) = RemoteAt(t, skip)
      /\ at = None => t = None /\ skip = 0
      /\ at # None => at = RemoteAt(t, skip)
  BY RemoteParts DEF RemotePart
<1>2. page = Repage([items |-> items, next |-> None], RemoteAt(t, skip), limit)
  BY <1>1 DEF RemotePage, RemoteAnswer
<1>3. /\ items = InOrder[After(None) \cap rows] /\ items \in Seq(Name)
      /\ m = Cardinality(After(None) \cap rows) /\ m \in Nat /\ After(None) \cap rows = rows
  <2>1. After(None) = Name
    BY DEF After, Name
  <2> QED BY <2>1, NextRows
<1> HIDE DEF items, t, skip, page
<1>4. Repaged(items, None, t, skip, limit)
  BY <1>1, <1>3, RepageIs
<1>5. /\ sk \in Nat /\ sk <= m /\ n \in Nat /\ sk + n <= m
      /\ page = [entries |-> [k \in 1..n |-> [item |-> items[sk + k], cursor |-> RemoteAt(t, sk + k)]],
                 next    |-> None]
  BY <1>2, <1>4 DEF Repaged
<1>6. skip < m => sk = skip
  BY <1>1, <1>3
<1>7. skip = 0 => sk = skip
  OBVIOUS
<1> HIDE DEF m, sk, n
<1>8. \A k \in 1..n : sk + k \in 1..m /\ sk + k \in Nat
  BY <1>3, <1>5
<1>9. e \in Seq(Entry("remote")) /\ Len(e) = n
      /\ (\A k \in 1..n : e[k].cursor = RemoteAt(t, sk + k))
      /\ page.next = None /\ page = [entries |-> e, next |-> page.next]
  <2>1. \A k \in 1..n : [item |-> items[sk + k], cursor |-> RemoteAt(t, sk + k)] \in Entry("remote")
    <3> TAKE k \in 1..n
    <3>1. items[sk + k] \in Name
      BY <1>3, <1>8, ElementOfSeq DEF m
    <3>2. RemoteAt(t, sk + k) \in Position("remote")
      BY <1>1, <1>8, CountedPast
    <3> QED BY <3>1, <3>2 DEF Entry
  <2>2. e \in [1..n -> Entry("remote")]
    BY <1>5, <2>1
  <2>3. page.next = None /\ page = [entries |-> e, next |-> page.next]
        /\ (\A k \in 1..n : e[k].cursor = RemoteAt(t, sk + k))
    BY <1>5
  <2> HIDE DEF e
  <2>4. e \in Seq(Entry("remote")) /\ Len(e) = n
    BY ONLY <1>5, <2>2
  <2> QED BY <2>3, <2>4
<1>10. ASSUME Resumable("remote", "whole", rows, at)
       PROVE  InTurn("remote", rows, at, page) /\ GoesOn("remote", "whole", rows, page)
  <2>1. t = None /\ (skip = 0 \/ skip < m)
    <3>1. at # None => at.skip = skip /\ at.token = t
      BY <1>1 DEF RemoteAt
    <3> QED BY <1>1, <1>3, <1>10, <3>1 DEF Resumable
  <2>2. sk = skip
    BY <1>6, <1>7, <2>1
  <2>3. Divides(rows, t, sk, m, n, FALSE, page)
    <3>1. page = [entries |-> [k \in 1..n |->
                    [item   |-> InOrder[After(t) \cap rows][sk + k],
                     cursor |-> IF sk + k = m /\ FALSE
                                THEN RemoteAt(InOrder[After(t) \cap rows][m], 0)
                                ELSE RemoteAt(t, sk + k)]],
                  next |-> IF FALSE THEN RemoteAt(InOrder[After(t) \cap rows][m], 0) ELSE None]
      BY <1>3, <1>5, <2>1
    <3>2. {sk, m, n} \subseteq Nat /\ sk + n <= m /\ m <= Cardinality(After(t) \cap rows)
      BY <1>3, <1>5, <2>1
    <3> QED BY <1>1, <3>1, <3>2 DEF Divides
  <2>4. Passed("remote", rows, at) \subseteq Passed("remote", rows, RemoteAt(t, sk))
    BY <1>1, <2>2 DEF Passed
  <2>5. InTurn("remote", rows, at, page)
    BY <2>3, <2>4, DividedTurn
  <2>6. ASSUME NEW k \in 1..n, k < n PROVE Resumable("remote", "whole", rows, e[k].cursor)
    <3>1. sk + k < Cardinality(After(None) \cap rows)
      BY <1>3, <1>5, <2>6
    <3>2. e[k].cursor = RemoteAt(t, sk + k)
      BY <1>9
    <3>3. RemoteAt(t, sk + k).token = t /\ RemoteAt(t, sk + k).skip = sk + k
      BY DEF RemoteAt
    <3> HIDE DEF e
    <3> QED BY <2>1, <3>1, <3>2, <3>3 DEF Resumable
  <2>7. GoesOn("remote", "whole", rows, page)
    <3> HIDE DEF e
    <3>1. Len(page.entries) = n /\ page.entries = e
      BY <1>9 DEF e
    <3> QED BY <1>9, <2>6, <3>1 DEF GoesOn
  <2> QED BY <2>5, <2>7
<1> QED BY <1>9, <1>10 DEF Serves, page, e

\* One that shows no rows.
LEMMA IdleRemote ==
  ASSUME NEW rows \in SUBSET Name, NEW at \in Position("remote") \cup {None}, NEW limit \in Nat \ {0},
         NEW manner \in {"stuck", "endless"}
  PROVE  Serves("remote", manner, rows, at, RemotePage(manner, rows, at, limit))
<1> DEFINE t     == Resumed(at).token
           skip  == Resumed(at).skip
           next  == IF manner = "stuck" THEN 1 ELSE IF t = 1 THEN 2 ELSE 1
           page  == RemotePage(manner, rows, at, limit)
<1>1. t \in Nat \cup {None} /\ skip \in Nat /\ Resumed(at) = RemoteAt(t, skip)
  BY RemoteParts DEF RemotePart
<1>2. page = Repage([items |-> <<>>, next |-> next], RemoteAt(t, skip), limit)
  BY <1>1 DEF RemotePage, RemoteAnswer
<1> HIDE DEF t, skip, page
<1>3. next \in Nat /\ next # None
  BY NamesAssumption
<1> HIDE DEF next
<1>4. SkipOf(RemoteAt(t, skip), Len(<<>>)) = 0 /\ Len(<<>>) = 0 /\ Least(limit, 0) = 0
  <2>1. Len(<<>>) = 0
    OBVIOUS
  <2> QED BY <1>1, <2>1 DEF SkipOf, RemoteAt, Least
<1>5. page = [entries |-> <<>>, next |-> RemoteAt(next, 0)]
  <2>1. page.entries = <<>> /\ page.next = RemoteAt(next, 0) /\ page = [entries |-> page.entries, next |-> page.next]
    BY <1>2, <1>3, <1>4 DEF Repage, StartOf, RemoteAt
  <2> QED BY <2>1
<1>6. RemoteAt(next, 0) \in Position("remote")
  BY <1>3 DEF RemoteAt, Position
<1>7. \A at2 : Resumable("remote", manner, rows, at2)
  BY DEF Resumable
<1>8. page.entries = <<>> /\ Len(page.entries) = 0 /\ page.entries \in Seq(Entry("remote"))
      /\ page.next = RemoteAt(next, 0) /\ page = [entries |-> page.entries, next |-> page.next]
  BY <1>5, EmptySeq
<1>9. InTurn("remote", rows, at, page) /\ GoesOn("remote", manner, rows, page)
  BY <1>7, <1>8 DEF InTurn, GoesOn
<1> QED BY <1>6, <1>8, <1>9 DEF Serves, page

\* A remote serves as its manner is.
LEMMA RemoteServes ==
  ASSUME NEW rows \in SUBSET Name, NEW at \in Position("remote") \cup {None}, NEW limit \in Nat \ {0},
         NEW manner \in Manner
  PROVE  Serves("remote", manner, rows, at, RemotePage(manner, rows, at, limit))
<1>1. CASE manner = "pages"
  BY <1>1, DividingRemote
<1>2. CASE manner = "whole"
  BY <1>2, WholeRemote
<1>3. CASE manner \in {"stuck", "endless"}
  BY <1>3, IdleRemote
<1> QED BY <1>1, <1>2, <1>3 DEF Manner

\* What fits a source that is no remote serves it.
LEMMA FitServes ==
  ASSUME NEW src, src # "remote", NEW manner, NEW rows, NEW at, NEW page, Fits(src, rows, at, page)
  PROVE  Serves(src, manner, rows, at, page)
<1>1. \A at2 : Resumable(src, manner, rows, at2)
  BY DEF Resumable
<1> QED BY <1>1 DEF Serves, Fits, GoesOn

\* No rows, no page.
LEMMA NothingServes ==
  ASSUME NEW src, NEW manner, NEW at
  PROVE  Serves(src, manner, {}, at, EmptyPage)
<1>1. /\ EmptyPage.entries = <<>> /\ EmptyPage.next = None /\ Len(<<>>) = 0
      /\ EmptyPage = [entries |-> EmptyPage.entries, next |-> EmptyPage.next]
  BY DEF EmptyPage
<1>2. EmptyPage.entries \in Seq(Entry(src)) /\ Len(EmptyPage.entries) = 0
  BY <1>1, EmptySeq
<1>3. Complete(src, {}, at, EmptyPage)
  BY <1>1, <1>2 DEF Complete
<1>4. InTurn(src, {}, at, EmptyPage) /\ GoesOn(src, manner, {}, EmptyPage)
  BY <1>1, <1>2 DEF InTurn, GoesOn
<1> QED BY <1>1, <1>2, <1>3, <1>4 DEF Serves

-----------------------------------------------------------------------------
(* What there is to list                                                   *)

\* The last part of a namespace's name in its store.
LEMMA LastOfInner ==
  ASSUME NEW p \in Path, Inner(p) # <<>>
  PROVE  Inner(p)[Len(Inner(p))] \in Name
<1>1. p \in Seq(Nat) /\ \A i \in DOMAIN p : p[i] \in Name
  BY RouteFacts, NamesAssumption DEF Name
<1>2. PICK n \in Nat \ {0} : Len(p) = n
  BY RouteFacts
<1>3. \A i \in 1..n : p[i] \in Name
  BY <1>1, <1>2
<1>4. CASE Route(p) = Native
  <2>1. Inner(p) = p
    BY <1>4, RouteFacts
  <2> QED BY <1>2, <1>3, <2>1
<1>5. CASE Route(p) # Native
  <2>1. Inner(p) = Rest(p)
    BY <1>5, RouteFacts
  <2>2. Len(Rest(p)) = n - 1 /\ \A i \in 1..(n - 1) : Rest(p)[i] = p[i + 1]
    BY <1>1, <1>2, FrontFacts
  <2>3. Rest(p) \in Seq(Nat)
    BY <1>1, <1>2, FrontFacts
  <2>4. n - 1 # 0
    BY <2>1, <2>2, <2>3, NoneLeft
  <2>5. n - 1 \in 1..(n - 1) /\ (n - 1) + 1 = n
    BY <2>4
  <2>6. Rest(p)[n - 1] = p[n]
    BY <2>2, <2>5
  <2> QED BY <1>3, <2>1, <2>2, <2>6
<1> QED BY <1>4, <1>5

\* All that is listed are names.
LEMMA NamesOfRows ==
  ASSUME StoresInv, NEW what \in What
  PROVE  RowsOf(what) \in SUBSET Name /\ Shown(what) \in SUBSET Name
<1>1. what.of = <<>> \/ what.of \in Path
  BY DEF What
<1>2. Route(what.of) \in Store
  BY <1>1, RouteFacts DEF Route, Store
<1> DEFINE s == Route(what.of)
<1>3. \A q \in spaces[s] : q[Len(q)] \in Name
  <2> TAKE q \in spaces[s]
  <2>1. q \in OwnPath
    BY <1>2 DEF StoresInv, StoreTypes
  <2>2. PICK p \in Path : q = Inner(p) /\ Inner(p) # <<>>
    BY <2>1 DEF OwnPath
  <2> QED BY <2>2, LastOfInner
<1>4. \A i \in OwnIdent : i[2] \in Name
  <2> TAKE i \in OwnIdent
  <2>1. PICK t \in Ident : i = InnerIdent(t)
    BY DEF OwnIdent
  <2> QED BY <2>1, IdentFacts, NamesAssumption DEF Name
<1>5. RowsOf(what) \in SUBSET Name
  <2> HIDE DEF s
  <2>1. RowsOf(what) = Rows(what.kind, s, Inner(what.of))
    BY DEF RowsOf, s
  <2> QED BY <1>3, <1>4, <2>1 DEF Rows
<1>6. Mount \subseteq Name
  BY NamesAssumption DEF Name
<1> QED BY <1>5, <1>6 DEF Shown

\* A view at a remote is never made here.
LEMMA RemoteViewsKept ==
  ASSUME StoresInv, Change
  PROVE  \A s \in Remote : views'[s] = views[s]
<1>1. views \in Pointers /\ Remote \subseteq Store
  BY FederationAssumption DEF StoresInv, StoreTypes, Store
<1>2. ASSUME UNCHANGED views PROVE \A s \in Remote : views'[s] = views[s]
  BY <1>2
<1>9. \A s : Can(s, "write") \/ Can(s, "register") => s \notin Remote
  BY DEF Can, TakesChanges
<1>3. ASSUME NEW v, Can(Route(v[1]), "write") \/ Can(Route(v[1]), "register"),
             NEW i, NEW f, views' = [views EXCEPT ![Route(v[1])][i] = f]
      PROVE  \A s \in Remote : views'[s] = views[s]
  <2>1. Route(v[1]) \notin Remote
    BY <1>3, <1>9
  <2> QED BY <1>1, <1>3, <2>1 DEF Pointers
<1>4. ASSUME NEW t \in Ident,
             CreateView(t) \/ RegisterView(t) \/ UpdateView(t) \/ DropView(t)
      PROVE  \A s \in Remote : views'[s] = views[s]
  <2>1. Can(Route(t[1]), "write") \/ Can(Route(t[1]), "register")
    BY <1>4 DEF CreateView, RegisterView, UpdateView, DropView, ChangeView
  <2>2. \E f : views' = [views EXCEPT ![Route(t[1])][InnerIdent(t)] = f]
    BY <1>4 DEF CreateView, RegisterView, UpdateView, DropView, ChangeView
  <2> QED BY <1>3, <2>1, <2>2
<1>5. ASSUME NEW t \in Ident, NEW u \in Ident, RenameView(t, u)
      PROVE  \A s \in Remote : views'[s] = views[s]
  <2>1. Can(Route(t[1]), "write")
    BY <1>5 DEF RenameView, ChangeView
  <2>2. Route(t[1]) \notin Remote
    BY <1>9, <2>1
  <2>3. \E f, g : views' = [views EXCEPT ![Route(t[1])][InnerIdent(u)] = f,
                                         ![Route(t[1])][InnerIdent(t)] = g]
    BY <1>5 DEF RenameView, ChangeView
  <2> QED BY <1>1, <2>2, <2>3 DEF Pointers
<1>6. CASE NamespaceCall
  BY <1>2, <1>6 DEF NamespaceCall, Calls, CreateNamespace, DropNamespace, CreateSpaceIn, DropSpaceIn
<1>7. CASE \E s \in Remote : Behind(s)
  <2>1. UNCHANGED views
    BY <1>7 DEF Behind, Calls, CreateSpaceIn, DropSpaceIn, CreateTableIn, DropTableIn
  <2> QED BY <1>2, <2>1
<1>8. CASE ObjectCall
  <2>1. \/ \E t \in Ident :
             \/ CreateTable(t) \/ RegisterTable(t) \/ StageCreateTable(t) \/ CommitTable(t)
             \/ DropTable(t) \/ PurgeTable(t)
        \/ \E t \in Ident : CreateView(t) \/ RegisterView(t) \/ UpdateView(t) \/ DropView(t)
        \/ \E T \in SUBSET Ident : CommitTablesAtomic(T)
        \/ \E t, u \in Ident : RenameTable(t, u) \/ RenameView(t, u)
    BY <1>8, Zenon DEF ObjectCall, Calls
  <2>2. ASSUME NEW t \in Ident,
               \/ CreateTable(t) \/ RegisterTable(t) \/ StageCreateTable(t) \/ CommitTable(t)
               \/ DropTable(t) \/ PurgeTable(t)
        PROVE  UNCHANGED views
    BY <2>2 DEF CreateTable, RegisterTable, StageCreateTable, CommitTable, DropTable, PurgeTable,
                CreateTableIn, DropTableIn, CommitIn
  <2>3. ASSUME NEW T \in SUBSET Ident, CommitTablesAtomic(T) PROVE UNCHANGED views
    BY <2>3 DEF CommitTablesAtomic, CommitIn
  <2>4. ASSUME NEW t \in Ident, NEW u \in Ident, RenameTable(t, u) PROVE UNCHANGED views
    BY <2>4 DEF RenameTable
  <2> QED BY <1>2, <1>4, <1>5, <2>1, <2>2, <2>3, <2>4
<1> QED BY <1>6, <1>7, <1>8 DEF Change

\* Whatever is listed, a page of it serves.
LEMMA ListServes ==
  ASSUME StoresInv, NoRemoteViews, WholeScans, NEW what \in What, NEW manner \in Manner,
         NEW at \in Position(Source(what)) \cup {None}, NEW limit \in Nat \ {0}
  PROVE  Serves(Source(what), manner, Shown(what), at, List(what, manner, at, limit))
<1> DEFINE s == Route(what.of)
           rows == RowsOf(what)
<1>1. rows \in SUBSET Name /\ Shown(what) \in SUBSET Name
  BY NamesOfRows
<1>2. rows = Rows(what.kind, s, Inner(what.of))
  BY DEF RowsOf
<1>3. CASE what.of = <<>>
  <2>1. what.kind = "spaces" /\ Source(what) = "root"
    BY <1>3, RouteFacts DEF What, Source
  <2>2. List(what, manner, at, limit) = RootPage(Mount, rows, at, limit)
    BY <1>2, <1>3, <2>1 DEF List, ListNamespaces
  <2>3. Shown(what) = Mount \cup rows
    BY <1>3 DEF Shown
  <2> HIDE DEF rows
  <2>4. Fits("root", Mount \cup rows, at, RootPage(Mount, rows, at, limit))
    BY <1>1, <2>1, RootPages
  <2> QED BY <2>1, <2>2, <2>3, <2>4, FitServes
<1>4. CASE what.of # <<>>
  <2>1. what.of \in Path /\ s \in Store /\ Source(what) = (IF s \in Remote THEN "remote" ELSE "store")
        /\ what.kind \in {"spaces", "tables", "views"}
    BY <1>4, RouteFacts DEF What, Source
  <2>2. Serves(Source(what), manner, rows, at, PageOf(s, manner, rows, at, limit))
    <3> HIDE DEF s, rows
    <3>1. CASE s \in Remote
      BY <1>1, <2>1, <3>1, RemoteServes DEF PageOf
    <3>2. CASE s \notin Remote
      <4>1. at \in Name \cup {None}
        BY <2>1, <3>2 DEF Position
      <4>2. /\ StorePage(rows, at, limit).entries \in Seq(Entry("store"))
            /\ StorePage(rows, at, limit).next \in Position("store") \cup {None}
            /\ StorePage(rows, at, limit)
                 = [entries |-> StorePage(rows, at, limit).entries, next |-> StorePage(rows, at, limit).next]
            /\ Complete("store", rows, at, StorePage(rows, at, limit))
            /\ InTurn("store", rows, at, StorePage(rows, at, limit))
            /\ StorePage(rows, at, limit).entries = <<>> => StorePage(rows, at, limit).next = None
        BY <1>1, <4>1, StorePages
      <4>3. Fits("store", rows, at, StorePage(rows, at, limit))
        BY <4>2 DEF Fits
      <4>4. Serves("store", manner, rows, at, StorePage(rows, at, limit))
        BY <4>3, FitServes
      <4> QED BY <2>1, <3>2, <4>4 DEF PageOf
    <3> QED BY <3>1, <3>2
  <2>3. CASE what.kind = "spaces"
    <3>1. List(what, manner, at, limit) = PageOf(s, manner, rows, at, limit)
      BY <1>2, <1>4, <2>3 DEF List, ListNamespaces
    <3>2. Shown(what) = rows
      BY <1>4, <2>3 DEF Shown
    <3> QED BY <2>2, <3>1, <3>2
  <2>4. CASE what.kind # "spaces" /\ IsRoot(what.of)
    <3>1. List(what, manner, at, limit) = EmptyPage
      BY <2>1, <2>4 DEF List, ListTables, ListViews
    <3>2. Shown(what) = {}
      BY <1>4, <2>4 DEF Shown
    <3> QED BY <3>1, <3>2, NothingServes
  <2>5. CASE what.kind # "spaces" /\ ~IsRoot(what.of)
    <3>1. Shown(what) = rows
      BY <1>4, <2>5 DEF Shown
    <3>2. CASE what.kind = "views" /\ ~Can(s, "views")
      <4>1. List(what, manner, at, limit) = EmptyPage
        BY <3>2 DEF List, ListViews
      <4>2. s \in Remote
        BY <2>1, <3>2, FederationAssumption
           DEF Can, TakesChanges, CapabilitiesFor, Able, Capability, Store
      <4>3. rows = {}
        BY <1>2, <3>2, <4>2 DEF Rows, NoRemoteViews
      <4> QED BY <3>1, <4>1, <4>3, NothingServes
    <3>3. CASE ~(what.kind = "views" /\ ~Can(s, "views"))
      <4>1. List(what, manner, at, limit) = PageOf(s, manner, rows, at, limit)
        BY <1>2, <2>1, <2>5, <3>3 DEF List, ListTables, ListViews
      <4> QED BY <2>2, <3>1, <4>1
    <3> QED BY <3>2, <3>3
  <2> QED BY <2>3, <2>4, <2>5
<1> QED BY <1>3, <1>4

-----------------------------------------------------------------------------
(* One client's listing                                                    *)

\* A sequence with one more element.
LEMMA OneMore ==
  ASSUME NEW S, NEW s \in Seq(S), NEW x \in S
  PROVE  /\ Append(s, x) \in Seq(S) /\ Range(Append(s, x)) = Range(s) \cup {x}
         /\ IsInjective(s) /\ x \notin Range(s) => IsInjective(Append(s, x))
<1>1. /\ Len(s) \in Nat /\ Append(s, x) \in Seq(S) /\ Len(Append(s, x)) = Len(s) + 1
      /\ \A i \in 1..Len(s) : Append(s, x)[i] = s[i]
      /\ Append(s, x)[Len(s) + 1] = x
      /\ DOMAIN s = 1..Len(s) /\ DOMAIN Append(s, x) = 1..(Len(s) + 1)
  BY AppendProperties
<1>2. \A i \in 1..(Len(s) + 1) : i = Len(s) + 1 \/ i \in 1..Len(s)
  BY <1>1
<1>3. 1..Len(s) \subseteq 1..(Len(s) + 1) /\ Len(s) + 1 \in 1..(Len(s) + 1)
  BY <1>1
<1>4. PICK n : n = Len(s) + 1
  OBVIOUS
<1>5. PICK t : t = Append(s, x)
  OBVIOUS
<1>6. /\ DOMAIN t = 1..n /\ (\A i \in DOMAIN s : t[i] = s[i]) /\ t[n] = x
      /\ (\A i \in DOMAIN t : i = n \/ i \in DOMAIN s) /\ DOMAIN s \subseteq DOMAIN t /\ n \in DOMAIN t
  BY <1>1, <1>2, <1>3, <1>4, <1>5
<1>7. Range(t) = Range(s) \cup {x}
  BY ONLY <1>6 DEF Range
<1>8. IsInjective(s) /\ x \notin Range(s) => IsInjective(t)
  BY ONLY <1>6 DEF Range, IsInjective
<1> QED BY <1>1, <1>5, <1>7, <1>8

\* A sequence with another behind it.
LEMMA AllMore ==
  ASSUME NEW S, NEW s \in Seq(S), NEW t \in Seq(S)
  PROVE  /\ s \o t \in Seq(S) /\ Range(s \o t) = Range(s) \cup Range(t)
         /\ IsInjective(s) /\ IsInjective(t) /\ Range(s) \cap Range(t) = {} => IsInjective(s \o t)
<1> DEFINE m == Len(s)
           n == Len(t)
           u == s \o t
<1>1. /\ m \in Nat /\ n \in Nat /\ u \in Seq(S) /\ Len(u) = m + n
      /\ \A i \in 1..(m + n) : u[i] = IF i <= m THEN s[i] ELSE t[i - m]
      /\ DOMAIN s = 1..m /\ DOMAIN t = 1..n /\ DOMAIN u = 1..(m + n)
  <2>1. /\ u \in Seq(S) /\ Len(u) = m + n
        /\ \A i \in 1..(m + n) : u[i] = IF i <= m THEN s[i] ELSE t[i - m]
    BY ConcatProperties
  <2> QED BY <2>1
<1> HIDE DEF m, n, u
<1>2. \A i \in DOMAIN s : i \in DOMAIN u /\ u[i] = s[i]
  BY <1>1
<1>3. \A j \in DOMAIN t : m + j \in DOMAIN u /\ u[m + j] = t[j]
  <2> TAKE j \in DOMAIN t
  <2>1. m + j \in 1..(m + n) /\ ~(m + j <= m) /\ (m + j) - m = j
    BY <1>1
  <2> QED BY <1>1, <2>1
<1>4. \A i \in DOMAIN u : i \in DOMAIN s \/ \E j \in DOMAIN t : i = m + j
  <2> TAKE i \in DOMAIN u
  <2>1. i \in 1..m \/ (i - m \in 1..n /\ i = m + (i - m))
    BY <1>1
  <2> QED BY <1>1, <2>1
<1>5. Range(u) = Range(s) \cup Range(t)
  BY ONLY <1>2, <1>3, <1>4 DEF Range
<1>6. ASSUME IsInjective(s), IsInjective(t), Range(s) \cap Range(t) = {} PROVE IsInjective(u)
  <2>1. SUFFICES ASSUME NEW a \in DOMAIN u, NEW b \in DOMAIN u, u[a] = u[b] PROVE a = b
    BY DEF IsInjective
  <2>2. \A i \in DOMAIN s : s[i] \in Range(s)
    BY DEF Range
  <2>3. \A i \in DOMAIN t : t[i] \in Range(t)
    BY DEF Range
  <2>4. \A i, j \in DOMAIN s : s[i] = s[j] => i = j
    BY <1>6 DEF IsInjective
  <2>5. \A i, j \in DOMAIN t : t[i] = t[j] => i = j
    BY <1>6 DEF IsInjective
  <2> QED BY ONLY <1>2, <1>3, <1>4, <1>6, <2>1, <2>2, <2>3, <2>4, <2>5
<1> QED BY <1>1, <1>5, <1>6 DEF u

\* The empty sequence.
LEMMA NoNames == Range(<<>>) = {} /\ IsInjective(<<>>) /\ <<>> \in Seq(Name) /\ Len(<<>>) = 0
<1>1. DOMAIN <<>> = {} /\ Len(<<>>) = 0 /\ <<>> \in Seq(Name)
  BY EmptySeq
<1> QED BY <1>1 DEF Range, IsInjective

\* The absence of a position is not one.
LEMMA NoPosition == \A src : None \notin Position(src)
<1>1. Name \subseteq Nat
  BY NameIs
<1> QED BY <1>1, NamesAssumption DEF Position

\* What a page in turn holds comes after anything passed before it.
LEMMA TurnFollows ==
  ASSUME NEW src, NEW rows, NEW from, NEW page, InTurn(src, rows, from, page),
         NEW done, done \subseteq Passed(src, rows, from)
  PROVE  Follows(src, rows, done, page.entries)
BY DEF InTurn, Follows

\* A request, as it is made or answered.
Requested(phase, what, limit, after, cursor) ==
  [phase |-> phase, what |-> what, limit |-> limit, after |-> after, cursor |-> cursor,
   batch |-> EmptyPage, bare |-> FALSE, kept |-> <<>>, scanned |-> 0, fetches |-> 0]

\* What may be asked for, and where it goes on.
LEMMA AskFollowed ==
  ASSUME NEW q, NEW rows, NEW seen, NEW since, NEW fate, NEW manner, NEW hidden,
         Followed(q, rows, seen, since, fate, manner, hidden),
         NEW what \in What, NEW limit \in 1..MaxPageSize, NEW phase \in {"fetch", "refused"},
         q.phase \in {"none", "more"}, q.phase = "more" => what = q.what,
         NEW new, q.phase = "more" => new = rows
  PROVE  Followed(Requested(phase, what, limit, q.after, q.after), new, seen,
                  IF q.phase = "none" THEN new ELSE since, fate, manner, hidden)
<1> DEFINE q2 == Requested(phase, what, limit, q.after, q.after)
           since2 == IF q.phase = "none" THEN new ELSE since
<1>1. /\ Formed(q2) /\ q2.phase = phase /\ q2.what = what /\ q2.limit = limit /\ q2.after = q.after
      /\ q2.cursor = q.after /\ q2.kept = <<>> /\ q2.batch = EmptyPage /\ q2.bare = FALSE
  BY DEF Requested, Formed, EmptyPage
<1> HIDE DEF q2
<1>2. Asked(q, seen) /\ Idle(q, manner, seen)
  BY DEF Followed
<1>3. seen \in Seq(Name) /\ (q.phase = "none" => q.after = None /\ seen = <<>>)
  BY <1>2 DEF Asked, NoRequest
<1>4. q.after \in Position(Source(what)) \cup {None} /\ (q.after = None => seen = <<>>)
  <2>1. CASE q.phase = "none"
    BY <1>3, <2>1
  <2>2. CASE q.phase = "more"
    BY <1>2, <2>2 DEF Asked, Open, Under
  <2> QED BY <2>1, <2>2
<1>5. Asked(q2, seen)
  BY <1>1, <1>3, <1>4, NoNames DEF Asked, Open, Under
<1>6. Idle(q2, manner, seen)
  <2>1. CASE q.phase = "none"
    BY <1>1, <1>3, <2>1 DEF Idle, Under
  <2>2. CASE q.phase = "more"
    BY <1>1, <1>2, <2>2 DEF Idle, Under
  <2> QED BY <2>1, <2>2
<1>7. since2 \subseteq new
  BY DEF Followed
<1>8. ASSUME Source(what) = "remote" => manner = "pages" /\ "dropped" \notin fate
      PROVE  NoneLost(q2, new, seen, since2 \ hidden)
  <2>1. (since2 \ hidden) \cap Passed(Source(what), new, q.after) \subseteq Range(seen)
    <3>1. CASE q.phase = "none"
      BY <1>3, <3>1 DEF Passed
    <3>2. CASE q.phase = "more"
      BY <1>8, <3>2 DEF Followed, NoneLost, Open
    <3> QED BY <3>1, <3>2
  <2> HIDE DEF since2
  <2> QED BY <1>1, <2>1 DEF NoneLost, Open, Under
<1>9. ASSUME Source(what) = "remote" => fate = {}
      PROVE  NoneTwice(q2, new, manner, seen)
  <2>1. /\ IsInjective(seen) /\ Range(seen) \subseteq Passed(Source(what), new, q.after)
        /\ Resumable(Source(what), manner, new, q.after)
    <3>1. CASE q.phase = "none"
      BY <1>3, <3>1, NoNames DEF Resumable
    <3>2. CASE q.phase = "more"
      BY <1>9, <3>2 DEF Followed, NoneTwice, Open
    <3> QED BY <3>1, <3>2
  <2> QED BY <1>1, <2>1, NoNames DEF NoneTwice, Open, Under
<1> QED BY <1>1, <1>5, <1>6, <1>7, <1>8, <1>9 DEF Followed, q2

\* A fetch that fails loses what the request had kept, which was not shown.
LEMMA FailFollowed ==
  ASSUME NEW q, NEW rows, NEW seen, NEW since, NEW fate, NEW manner, NEW hidden,
         Followed(q, rows, seen, since, fate, manner, hidden), q.phase = "fetch"
  PROVE  /\ q.after = None => Followed(NoRequest, rows, seen, since, fate, manner, hidden)
         /\ q.after # None => Followed(Requested("more", q.what, 0, q.after, None),
                                       rows, seen, since, fate, manner, hidden)
<1>2. Asked(q, seen) /\ Idle(q, manner, seen)
  BY DEF Followed
<1>3. /\ seen \in Seq(Name) /\ q.what \in What /\ q.after \in Position(Source(q.what)) \cup {None}
      /\ q.after = None => seen = <<>>
  BY <1>2 DEF Asked, Open, Under
<1>4. ASSUME q.after = None PROVE Followed(NoRequest, rows, seen, since, fate, manner, hidden)
  <2>1. NoRequest.phase = "none" /\ Formed(NoRequest)
    BY DEF NoRequest, Formed, EmptyPage
  <2> QED BY <1>3, <1>4, <2>1 DEF Followed, Asked, Idle, Open, Under
<1>5. ASSUME q.after # None
      PROVE  Followed(Requested("more", q.what, 0, q.after, None), rows, seen, since, fate, manner, hidden)
  <2> DEFINE q2 == Requested("more", q.what, 0, q.after, None)
  <2>1. /\ Formed(q2) /\ q2.phase = "more" /\ q2.what = q.what /\ q2.after = q.after
    BY DEF Requested, Formed, EmptyPage
  <2> HIDE DEF q2
  <2>2. Asked(q2, seen)
    BY <1>3, <1>5, <2>1 DEF Asked, Open, Under
  <2>3. Idle(q2, manner, seen)
    BY <1>2, <2>1 DEF Idle, Under
  <2>4. ASSUME Source(q.what) = "remote" => manner = "pages" /\ "dropped" \notin fate
        PROVE  NoneLost(q2, rows, seen, since \ hidden)
    <3>1. NoneLost(q, rows, seen, since \ hidden)
      BY <2>4 DEF Followed
    <3> QED BY <2>1, <3>1 DEF NoneLost, Open, Under
  <2>5. ASSUME Source(q.what) = "remote" => fate = {}
        PROVE  NoneTwice(q2, rows, manner, seen)
    <3>1. NoneTwice(q, rows, manner, seen)
      BY <2>5 DEF Followed
    <3> QED BY <2>1, <3>1 DEF NoneTwice, Open, Under
  <2> QED BY <2>1, <2>2, <2>3, <2>4, <2>5 DEF Followed, q2
<1> QED BY <1>4, <1>5

\* A page fetched, or refused, is followed.
LEMMA FetchFollowed ==
  ASSUME NEW q, NEW rows, NEW seen, NEW since, NEW fate, NEW manner, NEW hidden,
         Followed(q, rows, seen, since, fate, manner, hidden), q.phase = "fetch", manner \in Manner,
         NEW page, Serves(Source(q.what), manner, rows, q.cursor, page),
         NEW n
  PROVE  /\ Followed([q EXCEPT !.phase = "refused"], rows, seen, since, fate, manner, hidden)
         /\ Followed([q EXCEPT !.phase = "rows", !.fetches = n, !.batch = page,
                               !.bare = page.entries = <<>>], rows, seen, since, fate, manner, hidden)
<1> DEFINE src == Source(q.what)
           done == Range(seen) \cup Range(q.kept)
<1>1. Asked(q, seen) /\ Idle(q, manner, seen) /\ since \subseteq rows
  BY DEF Followed
<1>2. /\ Formed(q) /\ seen \in Seq(Name) /\ q.what \in What
      /\ q.after \in Position(src) \cup {None} /\ (q.after = None => seen = <<>>)
      /\ q.cursor \in Position(src) \cup {None}
      /\ q.limit \in 1..MaxPageSize /\ q.kept \in Seq(Name)
  BY <1>1 DEF Asked, Open, Under
<1>3. ASSUME src = "remote" => manner = "pages" /\ "dropped" \notin fate
      PROVE  NoneLost(q, rows, seen, since \ hidden)
  BY <1>3 DEF Followed
<1>4. ASSUME src = "remote" => fate = {}
      PROVE  NoneTwice(q, rows, manner, seen)
  BY <1>4 DEF Followed
<1>5. ASSUME NEW q2, q2 = [q EXCEPT !.phase = "refused"]
      PROVE  Followed(q2, rows, seen, since, fate, manner, hidden)
  <2>1. Formed(q2) /\ q2.phase = "refused" /\ q2.what = q.what
    BY <1>2, <1>5 DEF Formed
  <2>2. Asked(q2, seen) /\ Idle(q2, manner, seen)
    BY <1>1, <1>2, <2>1 DEF Asked, Idle, Open, Under
  <2>3. \A wanted : NoneLost(q2, rows, seen, wanted)
    BY <2>1 DEF NoneLost, Open, Under
  <2>4. ASSUME src = "remote" => fate = {} PROVE NoneTwice(q2, rows, manner, seen)
    BY <1>4, <2>1, <2>4 DEF NoneTwice, Open, Under
  <2> QED BY <1>1, <2>1, <2>2, <2>3, <2>4 DEF Followed
<1>6. ASSUME NEW q2, q2 = [q EXCEPT !.phase = "rows", !.fetches = n, !.batch = page,
                                    !.bare = page.entries = <<>>]
      PROVE  Followed(q2, rows, seen, since, fate, manner, hidden)
  <2>1. /\ page.entries \in Seq(Entry(src)) /\ page.next \in Position(src) \cup {None}
        /\ page = [entries |-> page.entries, next |-> page.next]
        /\ (src = "remote" => manner = "pages") => Complete(src, rows, q.cursor, page)
        /\ Resumable(src, manner, rows, q.cursor) =>
             /\ InTurn(src, rows, q.cursor, page) /\ GoesOn(src, manner, rows, page)
             /\ (src = "remote" => manner \notin {"stuck", "endless"}) /\ page.entries = <<>>
                  /\ page.next # None =>
                  Passed(src, rows, q.cursor) \subseteq Passed(src, rows, page.next)
        /\ src = "remote" /\ manner \in {"stuck", "endless"} => page.entries = <<>>
    BY DEF Serves
  <2>2. /\ Formed(q2) /\ q2.phase = "rows" /\ q2.what = q.what /\ q2.batch = page
        /\ q2.bare \in BOOLEAN /\ (q2.bare <=> page.entries = <<>>)
        /\ q2.limit = q.limit /\ q2.after = q.after /\ q2.cursor = q.cursor /\ q2.kept = q.kept
    BY <1>2, <1>6, <2>1 DEF Formed
  <2>3. Asked(q2, seen)
    BY <1>2, <2>1, <2>2 DEF Asked, Open, Under
  <2>4. Idle(q2, manner, seen)
    BY <1>1, <2>1, <2>2 DEF Idle, Under
  <2> HIDE DEF src, done
  <2>5. ASSUME src = "remote" => manner = "pages" /\ "dropped" \notin fate
        PROVE  NoneLost(q2, rows, seen, since \ hidden)
    <3> DEFINE wanted == since \ hidden
    <3>1. /\ wanted \cap Passed(src, rows, q.after) \subseteq Range(seen)
          /\ wanted \cap Passed(src, rows, q.cursor) \subseteq done
      BY <1>3, <2>5 DEF NoneLost, Open, Under, src, done
    <3>2. /\ \A k \in 1..Len(page.entries) :
               rows \cap Passed(src, rows, page.entries[k].cursor)
                 \subseteq Passed(src, rows, q.cursor) \cup Items(page.entries, k)
          /\ page.next = None =>
               rows \subseteq Passed(src, rows, q.cursor) \cup Items(page.entries, Len(page.entries))
          /\ page.entries = <<>> /\ page.next # None =>
               page.next # q.cursor /\ rows \cap Passed(src, rows, page.next) \subseteq Passed(src, rows, q.cursor)
      BY <2>1, <2>5 DEF Complete
    <3>3. wanted \subseteq rows
      BY <1>1
    <3> HIDE DEF wanted
    <3>4. /\ \A k \in 1..Len(page.entries) :
               wanted \cap Passed(src, rows, page.entries[k].cursor) \subseteq done \cup Items(page.entries, k)
          /\ page.next = None => wanted \subseteq done \cup Items(page.entries, Len(page.entries))
          /\ page.entries = <<>> /\ page.next # None =>
               page.next # q.cursor /\ wanted \cap Passed(src, rows, page.next) \subseteq done
      <4>1. ASSUME NEW k \in 1..Len(page.entries)
            PROVE  wanted \cap Passed(src, rows, page.entries[k].cursor) \subseteq done \cup Items(page.entries, k)
        BY <3>1, <3>2, <3>3
      <4>2. ASSUME page.next = None
            PROVE  wanted \subseteq done \cup Items(page.entries, Len(page.entries))
        BY <3>1, <3>2, <3>3, <4>2
      <4>3. ASSUME page.entries = <<>>, page.next # None
            PROVE  page.next # q.cursor /\ wanted \cap Passed(src, rows, page.next) \subseteq done
        BY <3>1, <3>2, <3>3, <4>3
      <4> QED BY <4>1, <4>2, <4>3
    <3> QED BY <2>2, <3>1, <3>4 DEF NoneLost, Open, Under, src, done, wanted
  <2>6. ASSUME src = "remote" => fate = {}
        PROVE  NoneTwice(q2, rows, manner, seen)
    <3>1. /\ IsInjective(seen) /\ Range(seen) \subseteq Passed(src, rows, q.after)
          /\ Resumable(src, manner, rows, q.after)
          /\ done \subseteq Passed(src, rows, q.cursor)
          /\ IsInjective(q.kept) /\ Range(seen) \cap Range(q.kept) = {}
          /\ Resumable(src, manner, rows, q.cursor)
      BY <1>4, <2>6 DEF NoneTwice, Open, Under, src, done
    <3>2. GoesOn(src, manner, rows, page) /\ Follows(src, rows, done, page.entries)
      BY <2>1, <3>1, TurnFollows
    <3>3. page.next # None /\ page.entries = <<>> => done \subseteq Passed(src, rows, page.next)
      <4>1. CASE src = "remote" => manner \notin {"stuck", "endless"}
        BY <2>1, <3>1, <4>1
      <4>2. CASE src = "remote" /\ manner \in {"stuck", "endless"}
        <5>1. seen = <<>> /\ q.kept = <<>>
          BY <1>1, <4>2 DEF Idle, Under, src
        <5> QED BY <5>1, NoNames DEF done
      <4> QED BY <4>1, <4>2
    <3> QED BY <2>2, <3>1, <3>2, <3>3 DEF NoneTwice, Open, Under, src, done
  <2> QED BY <1>1, <2>2, <2>3, <2>4, <2>5, <2>6 DEF Followed, src
<1> QED BY <1>5, <1>6

\* A page that is answered: what comes with it is shown.
LEMMA AnswerFollowed ==
  ASSUME NEW q, NEW rows, NEW seen \in Seq(Name), NEW kept \in Seq(Name), NEW since, NEW fate,
         NEW manner, NEW hidden, NEW token, since \subseteq rows, q.what \in What,
         token \in Position(Source(q.what)) \cup {None},
         Source(q.what) = "remote" /\ manner \in {"stuck", "endless"} => seen = <<>> /\ kept = <<>>,
         (Source(q.what) = "remote" => manner = "pages" /\ "dropped" \notin fate) =>
           IF token = None THEN since \ hidden \subseteq Range(seen) \cup Range(kept)
           ELSE (since \ hidden) \cap Passed(Source(q.what), rows, token)
                  \subseteq Range(seen) \cup Range(kept),
         (Source(q.what) = "remote" => fate = {}) =>
           /\ IsInjective(seen) /\ IsInjective(kept) /\ Range(seen) \cap Range(kept) = {}
           /\ token # None => /\ Range(seen) \cup Range(kept) \subseteq Passed(Source(q.what), rows, token)
                              /\ Resumable(Source(q.what), manner, rows, token)
  PROVE  Followed(Requested(IF token = None THEN "ended" ELSE "more", q.what, 0, token, None),
                  rows, seen \o kept, since, fate, manner, hidden)
<1> DEFINE q2 == Requested(IF token = None THEN "ended" ELSE "more", q.what, 0, token, None)
           all == seen \o kept
           src == Source(q.what)
<1>1. /\ Formed(q2) /\ q2.phase = (IF token = None THEN "ended" ELSE "more") /\ q2.what = q.what
      /\ q2.after = token
  BY DEF Requested, Formed, EmptyPage
<1>2. /\ all \in Seq(Name) /\ Range(all) = Range(seen) \cup Range(kept)
      /\ IsInjective(seen) /\ IsInjective(kept) /\ Range(seen) \cap Range(kept) = {} => IsInjective(all)
  BY AllMore
<1>5. seen = <<>> /\ kept = <<>> => all = <<>>
  OBVIOUS
<1> HIDE DEF q2, all
<1>3. Asked(q2, all)
  BY <1>1, <1>2 DEF Asked, Open, Under
<1>4. Idle(q2, manner, all)
  BY <1>1, <1>5 DEF Idle, Under
<1>6. ASSUME src = "remote" => manner = "pages" /\ "dropped" \notin fate
      PROVE  NoneLost(q2, rows, all, since \ hidden)
  BY <1>1, <1>2, <1>6 DEF NoneLost, Open, Under
<1>7. ASSUME src = "remote" => fate = {}
      PROVE  NoneTwice(q2, rows, manner, all)
  BY <1>1, <1>2, <1>7 DEF NoneTwice, Open, Under
<1> QED BY <1>1, <1>3, <1>4, <1>6, <1>7 DEF Followed, q2, all

\* The state of a listing whose page has rows left.
LEMMA RowsLeft ==
  ASSUME NEW q, NEW rows, NEW seen, NEW since, NEW fate, NEW manner, NEW hidden,
         Followed(q, rows, seen, since, fate, manner, hidden), q.phase = "rows"
  PROVE  LET src  == Source(q.what)
             done == Range(seen) \cup Range(q.kept)
             e    == q.batch.entries
         IN /\ Formed(q) /\ seen \in Seq(Name) /\ q.what \in What /\ q.kept \in Seq(Name)
            /\ q.after \in Position(src) \cup {None} /\ (q.after = None => seen = <<>>)
            /\ q.cursor \in Position(src) \cup {None} /\ q.limit \in 1..MaxPageSize
            /\ e \in Seq(Entry(src)) /\ q.batch.next \in Position(src) \cup {None}
            /\ q.bare \in BOOLEAN /\ (q.bare => e = <<>>) /\ (e = <<>> /\ ~q.bare => q.cursor # None)
            /\ since \subseteq rows
            /\ src = "remote" /\ manner \in {"stuck", "endless"} => seen = <<>> /\ q.kept = <<>> /\ e = <<>>
            /\ (src = "remote" => manner = "pages" /\ "dropped" \notin fate) =>
                 NoneLost(q, rows, seen, since \ hidden)
            /\ (src = "remote" => fate = {}) => NoneTwice(q, rows, manner, seen)
<1>1. Asked(q, seen) /\ Idle(q, manner, seen) /\ since \subseteq rows
  BY DEF Followed
<1>2. /\ Formed(q) /\ seen \in Seq(Name) /\ q.what \in What /\ q.kept \in Seq(Name)
      /\ q.after \in Position(Source(q.what)) \cup {None} /\ (q.after = None => seen = <<>>)
      /\ q.cursor \in Position(Source(q.what)) \cup {None} /\ q.limit \in 1..MaxPageSize
      /\ q.batch.entries \in Seq(Entry(Source(q.what)))
      /\ q.batch.next \in Position(Source(q.what)) \cup {None}
      /\ q.bare \in BOOLEAN /\ (q.bare => q.batch.entries = <<>>)
      /\ (q.batch.entries = <<>> /\ ~q.bare => q.cursor # None)
  BY <1>1 DEF Asked, Open, Under
<1>3. Source(q.what) = "remote" /\ manner \in {"stuck", "endless"} =>
        seen = <<>> /\ q.kept = <<>> /\ q.batch.entries = <<>>
  BY <1>1 DEF Idle, Under
<1>4. /\ (Source(q.what) = "remote" => manner = "pages" /\ "dropped" \notin fate) =>
            NoneLost(q, rows, seen, since \ hidden)
      /\ (Source(q.what) = "remote" => fate = {}) => NoneTwice(q, rows, manner, seen)
  BY DEF Followed
<1> QED BY <1>1, <1>2, <1>3, <1>4

\* The first entry of a page, and the rest.
LEMMA HeadOfPage ==
  ASSUME NEW src, NEW e \in Seq(Entry(src)), e # <<>>
  PROVE  /\ Len(e) \in Nat /\ Len(e) >= 1 /\ Head(e) = e[1]
         /\ e[1].item \in Name /\ e[1].cursor \in Position(src) /\ e[1].cursor # None
         /\ Tail(e) \in Seq(Entry(src)) /\ Len(Tail(e)) = Len(e) - 1
         /\ \A k \in 1..(Len(e) - 1) : Tail(e)[k] = e[k + 1]
         /\ \A k \in 1..(Len(e) - 1) : Items(e, k + 1) = {e[1].item} \cup Items(Tail(e), k)
         /\ Items(e, 1) = {e[1].item} /\ Items(e, 0) = {}
<1>1. /\ Len(e) \in Nat /\ Len(e) >= 1 /\ Head(e) = e[1] /\ Head(e) \in Entry(src)
      /\ Tail(e) \in Seq(Entry(src)) /\ Len(Tail(e)) = Len(e) - 1
      /\ \A k \in 1..(Len(e) - 1) : Tail(e)[k] = e[k + 1]
  <2>1. /\ Head(e) = e[1] /\ Head(e) \in Entry(src) /\ Tail(e) \in Seq(Entry(src)) /\ Len(Tail(e)) = Len(e) - 1
        /\ \A k \in 1..Len(Tail(e)) : Tail(e)[k] = e[k + 1]
    BY HeadTailProperties
  <2>2. Len(e) \in Nat /\ Len(e) >= 1
    BY EmptySeq
  <2> QED BY <2>1, <2>2
<1>2. e[1].item \in Name /\ e[1].cursor \in Position(src) /\ e[1].cursor # None
  BY <1>1, NoPosition DEF Entry
<1>3. ASSUME NEW k \in 1..(Len(e) - 1) PROVE Items(e, k + 1) = {e[1].item} \cup Items(Tail(e), k)
  <2>1. \A i \in 1..(k + 1) : i = 1 \/ (i - 1 \in 1..k /\ i = (i - 1) + 1)
    BY <1>1
  <2>2. \A j \in 1..k : j + 1 \in 1..(k + 1) /\ j \in 1..(Len(e) - 1)
    BY <1>1
  <2>3. 1 \in 1..(k + 1)
    BY <1>1
  <2>4. \A j \in 1..k : Tail(e)[j] = e[j + 1]
    BY <1>1, <2>2
  <2>5. ASSUME NEW x \in Items(e, k + 1) PROVE x \in {e[1].item} \cup Items(Tail(e), k)
    <3>1. PICK i \in 1..(k + 1) : e[i].item = x
      BY <2>5 DEF Items
    <3>2. i = 1 \/ (i - 1 \in 1..k /\ i = (i - 1) + 1)
      BY <2>1
    <3>3. CASE i = 1
      BY <3>1, <3>3
    <3>4. CASE i # 1
      <4>1. PICK j \in 1..k : i = j + 1
        BY <3>2, <3>4
      <4>2. Tail(e)[j].item = x
        BY <2>4, <3>1, <4>1
      <4> QED BY <4>2 DEF Items
    <3> QED BY <3>3, <3>4
  <2>6. e[1].item \in Items(e, k + 1)
    BY <2>3 DEF Items
  <2>7. ASSUME NEW j \in 1..k PROVE Tail(e)[j].item \in Items(e, k + 1)
    BY <2>2, <2>4 DEF Items
  <2>8. ASSUME NEW x \in Items(Tail(e), k) PROVE x \in Items(e, k + 1)
    BY <2>7 DEF Items
  <2> QED BY <2>5, <2>6, <2>8
<1>4. Items(e, 1) = {e[1].item}
  <2>1. 1..1 = {1}
    OBVIOUS
  <2> QED BY <2>1 DEF Items
<1>5. Items(e, 0) = {}
  <2>1. 1..0 = {}
    OBVIOUS
  <2> QED BY <2>1 DEF Items
<1> QED BY <1>1, <1>2, <1>3, <1>4, <1>5

\* A request, when a row is taken off its page.
RowOff(q, t, kept, cursor, n) ==
  [q EXCEPT !.batch = [@ EXCEPT !.entries = t], !.kept = kept, !.cursor = cursor, !.scanned = n]

LEMMA RowTaken ==
  ASSUME NEW q, Formed(q), NEW t, NEW kept, NEW cursor, NEW n
  PROVE  RowOff(q, t, kept, cursor, n)
           = [phase |-> q.phase, what |-> q.what, limit |-> q.limit, after |-> q.after, cursor |-> cursor,
              batch |-> [entries |-> t, next |-> q.batch.next], bare |-> q.bare, kept |-> kept,
              scanned |-> n, fetches |-> q.fetches]
<1>1. [q.batch EXCEPT !.entries = t] = [entries |-> t, next |-> q.batch.next]
  BY DEF Formed
<1>2. PICK b : b = [entries |-> t, next |-> q.batch.next]
  OBVIOUS
<1>3. [q EXCEPT !.batch = b, !.kept = kept, !.cursor = cursor, !.scanned = n]
        = [phase |-> q.phase, what |-> q.what, limit |-> q.limit, after |-> q.after, cursor |-> cursor,
           batch |-> b, bare |-> q.bare, kept |-> kept, scanned |-> n, fetches |-> q.fetches]
  <2>1. PICK r : r = [q EXCEPT !.batch = b, !.kept = kept, !.cursor = cursor, !.scanned = n]
    OBVIOUS
  <2>2. q = [phase |-> q.phase, what |-> q.what, limit |-> q.limit, after |-> q.after,
             cursor |-> q.cursor, batch |-> q.batch, bare |-> q.bare, kept |-> q.kept,
             scanned |-> q.scanned, fetches |-> q.fetches]
    BY DEF Formed
  <2>3. DOMAIN q = {"phase", "what", "limit", "after", "cursor", "batch", "bare", "kept", "scanned", "fetches"}
    BY <2>2
  <2>4. /\ r = [r EXCEPT !.phase = r.phase]
        /\ DOMAIN r = {"phase", "what", "limit", "after", "cursor", "batch", "bare", "kept", "scanned", "fetches"}
        /\ r.phase = q.phase /\ r.what = q.what /\ r.limit = q.limit /\ r.after = q.after
        /\ r.cursor = cursor /\ r.batch = b /\ r.bare = q.bare /\ r.kept = kept
        /\ r.scanned = n /\ r.fetches = q.fetches
    BY <2>1, <2>3
  <2> QED BY <2>1, <2>4
<1> QED BY <1>1, <1>2, <1>3 DEF RowOff

\* A row, shown or not: the page goes on after it, or is answered with it.
LEMMA RowFollowed ==
  ASSUME NEW q, NEW rows, NEW seen, NEW since, NEW fate, NEW manner, NEW hidden,
         Followed(q, rows, seen, since, fate, manner, hidden), q.phase = "rows",
         q.batch.entries # <<>>, NEW keep \in BOOLEAN,
         ~keep => q.batch.entries[1].item \notin since \ hidden, NEW n
  PROVE  LET e      == q.batch.entries
             kept   == IF keep THEN Append(q.kept, e[1].item) ELSE q.kept
             cursor == e[1].cursor
             token  == IF Len(e) > 1 \/ q.batch.next # None THEN cursor ELSE None
         IN /\ Followed(RowOff(q, Tail(e), kept, cursor, n), rows, seen, since, fate, manner, hidden)
            /\ Followed(Requested(IF token = None THEN "ended" ELSE "more", q.what, 0, token, None),
                        rows, seen \o kept, since, fate, manner, hidden)
<1> DEFINE src    == Source(q.what)
           e      == q.batch.entries
           next   == q.batch.next
           kept   == IF keep THEN Append(q.kept, e[1].item) ELSE q.kept
           cursor == e[1].cursor
           token  == IF Len(e) > 1 \/ next # None THEN cursor ELSE None
           done   == Range(seen) \cup Range(q.kept)
           done2  == Range(seen) \cup Range(kept)
           q2     == RowOff(q, Tail(e), kept, cursor, n)
           wanted == since \ hidden
           safe   == src = "remote" => manner = "pages" /\ "dropped" \notin fate
           still  == src = "remote" => fate = {}
           C(k)   == Passed(src, rows, e[k].cursor)
<1>1. /\ Formed(q) /\ seen \in Seq(Name) /\ q.what \in What /\ q.kept \in Seq(Name)
      /\ q.after \in Position(src) \cup {None} /\ (q.after = None => seen = <<>>)
      /\ q.limit \in 1..MaxPageSize
      /\ e \in Seq(Entry(src)) /\ next \in Position(src) \cup {None}
      /\ q.bare = FALSE /\ since \subseteq rows
      /\ ~(src = "remote" /\ manner \in {"stuck", "endless"})
      /\ safe => NoneLost(q, rows, seen, wanted)
      /\ still => NoneTwice(q, rows, manner, seen)
  BY RowsLeft
<1>2. /\ Len(e) \in Nat /\ Len(e) >= 1
      /\ e[1].item \in Name /\ cursor \in Position(src) /\ cursor # None
      /\ Tail(e) \in Seq(Entry(src)) /\ Len(Tail(e)) = Len(e) - 1
      /\ \A k \in 1..(Len(e) - 1) : Tail(e)[k] = e[k + 1]
      /\ \A k \in 1..(Len(e) - 1) : Items(e, k + 1) = {e[1].item} \cup Items(Tail(e), k)
      /\ Items(e, 1) = {e[1].item}
  <2> HIDE DEF e, src
  <2>1. e \in Seq(Entry(src)) /\ e # <<>>
    BY <1>1 DEF e
  <2> QED BY <2>1, HeadOfPage
<1>3. /\ kept \in Seq(Name) /\ Range(kept) = Range(q.kept) \cup (IF keep THEN {e[1].item} ELSE {})
      /\ IsInjective(q.kept) /\ e[1].item \notin Range(q.kept) => IsInjective(kept)
  BY <1>1, <1>2, OneMore
<1>4. done2 = done \cup (IF keep THEN {e[1].item} ELSE {})
  BY <1>3
<1>5. ~keep => e[1].item \notin wanted
  OBVIOUS
<1>6. /\ Formed(q2) /\ q2.phase = "rows" /\ q2.what = q.what /\ q2.limit = q.limit /\ q2.after = q.after
      /\ q2.cursor = cursor /\ q2.kept = kept /\ q2.bare = FALSE
      /\ q2.batch = [entries |-> Tail(e), next |-> next]
      /\ q2.batch.entries = Tail(e) /\ q2.batch.next = next
  <2>1. Formed(q) /\ q.phase = "rows" /\ q.bare = FALSE
    BY <1>1
  <2> HIDE DEF kept, cursor, e, next
  <2>2. q2 = [phase |-> q.phase, what |-> q.what, limit |-> q.limit, after |-> q.after, cursor |-> cursor,
              batch |-> [entries |-> Tail(e), next |-> q.batch.next], bare |-> q.bare, kept |-> kept,
              scanned |-> n, fetches |-> q.fetches]
    <3>1. \A t, k, c, m :
            RowOff(q, t, k, c, m)
              = [phase |-> q.phase, what |-> q.what, limit |-> q.limit, after |-> q.after, cursor |-> c,
                 batch |-> [entries |-> t, next |-> q.batch.next], bare |-> q.bare, kept |-> k,
                 scanned |-> m, fetches |-> q.fetches]
      BY <2>1, RowTaken
    <3> QED BY ONLY <3>1
  <2> HIDE DEF q2
  <2> QED BY <2>1, <2>2 DEF Formed, next
<1> HIDE DEF q2, kept, token, cursor, e, next
<1>7. safe =>
        /\ wanted \cap Passed(src, rows, q.after) \subseteq Range(seen)
        /\ \A k \in 1..Len(e) : wanted \cap C(k) \subseteq done \cup Items(e, k)
        /\ next = None => wanted \subseteq done \cup Items(e, Len(e))
  BY <1>1 DEF NoneLost, Open, Under, e, next
<1>8. still =>
        /\ IsInjective(seen) /\ Range(seen) \subseteq Passed(src, rows, q.after)
        /\ Resumable(src, manner, rows, q.after)
        /\ IsInjective(q.kept) /\ Range(seen) \cap Range(q.kept) = {}
        /\ Follows(src, rows, done, e) /\ GoesOn(src, manner, rows, q.batch)
  BY <1>1 DEF NoneTwice, Open, Under, e
<1>9. still =>
        /\ \A k \in 1..Len(e) : /\ e[k].item \notin done /\ done \cup Items(e, k) \subseteq C(k)
                                /\ \A j \in 1..(k - 1) : e[k].item \notin C(j)
        /\ \A k \in 1..Len(e) : k < Len(e) \/ next # None => Resumable(src, manner, rows, e[k].cursor)
        /\ next # None => Resumable(src, manner, rows, next)
  BY <1>8 DEF Follows, GoesOn, e, next
<1> HIDE DEF src, safe, still, wanted, done, done2, C
<1>10. 1 \in 1..Len(e) /\ Passed(src, rows, cursor) = C(1)
  BY <1>2 DEF C, cursor
<1>11. safe => wanted \cap C(1) \subseteq done2
  BY <1>2, <1>4, <1>5, <1>7, <1>10
<1>12. safe /\ next = None /\ Len(e) = 1 => wanted \subseteq done2
  BY <1>2, <1>4, <1>5, <1>7
<1>13. still => /\ done2 \subseteq C(1) /\ IsInjective(kept) /\ Range(seen) \cap Range(kept) = {}
                /\ IsInjective(seen)
                /\ Len(e) > 1 \/ next # None => Resumable(src, manner, rows, cursor)
  <2>1. SUFFICES ASSUME still
                 PROVE  /\ done2 \subseteq C(1) /\ IsInjective(kept) /\ Range(seen) \cap Range(kept) = {}
                        /\ IsInjective(seen)
                        /\ Len(e) > 1 \/ next # None => Resumable(src, manner, rows, cursor)
    OBVIOUS
  <2>2. e[1].item \notin done /\ done \cup {e[1].item} \subseteq C(1)
    BY <1>2, <1>9, <1>10, <2>1
  <2>3. e[1].item \notin Range(seen) /\ e[1].item \notin Range(q.kept)
    BY <2>2 DEF done
  <2>4. Len(e) > 1 \/ next # None => Resumable(src, manner, rows, cursor)
    BY <1>2, <1>9, <1>10, <2>1 DEF cursor
  <2> QED BY <1>3, <1>4, <1>8, <2>1, <2>2, <2>3, <2>4
<1>14. Followed(q2, rows, seen, since, fate, manner, hidden)
  <2>1. Asked(q2, seen)
    BY <1>1, <1>2, <1>3, <1>6 DEF Asked, Open, Under, src
  <2>2. Idle(q2, manner, seen)
    BY <1>1, <1>6 DEF Idle, src
  <2>3. ASSUME NEW k \in 1..Len(Tail(e))
        PROVE  /\ k + 1 \in 1..Len(e) /\ k \in 1..(Len(e) - 1) /\ Tail(e)[k] = e[k + 1]
               /\ Items(e, k + 1) = {e[1].item} \cup Items(Tail(e), k)
               /\ (k < Len(Tail(e)) <=> k + 1 < Len(e))
    <3>1. k \in 1..(Len(e) - 1)
      BY <1>2
    <3>2. k + 1 \in 1..Len(e) /\ (k < Len(Tail(e)) <=> k + 1 < Len(e))
      BY <1>2, <3>1
    <3> QED BY <1>2, <3>1, <3>2
  <2>4. ASSUME safe PROVE NoneLost(q2, rows, seen, wanted)
    <3>1. ASSUME NEW k \in 1..Len(Tail(e))
          PROVE  wanted \cap Passed(src, rows, Tail(e)[k].cursor) \subseteq done2 \cup Items(Tail(e), k)
      <4>1. Passed(src, rows, Tail(e)[k].cursor) = C(k + 1)
        BY <2>3 DEF C
      <4>2. wanted \cap C(k + 1) \subseteq done \cup {e[1].item} \cup Items(Tail(e), k)
        BY <1>7, <2>3, <2>4
      <4> QED BY <1>4, <1>5, <4>1, <4>2
    <3>2. ASSUME next = None PROVE wanted \subseteq done2 \cup Items(Tail(e), Len(Tail(e)))
      <4>1. CASE Len(e) = 1
        BY <1>12, <2>4, <3>2, <4>1
      <4>2. CASE Len(e) # 1
        <5>1. Len(Tail(e)) \in 1..Len(Tail(e)) /\ Len(Tail(e)) + 1 = Len(e)
          BY <1>2, <4>2
        <5>2. Items(e, Len(e)) = {e[1].item} \cup Items(Tail(e), Len(Tail(e)))
          BY <2>3, <5>1
        <5> QED BY <1>4, <1>5, <1>7, <2>4, <3>2, <5>2
      <4> QED BY <4>1, <4>2
    <3>3. wanted \cap Passed(src, rows, q2.cursor) \subseteq done2
      BY <1>6, <1>10, <1>11, <2>4
    <3> QED BY <1>6, <1>7, <2>4, <3>1, <3>2, <3>3 DEF NoneLost, Open, Under, src, done2
  <2>5. ASSUME still PROVE NoneTwice(q2, rows, manner, seen)
    <3>1. Follows(src, rows, done2, Tail(e))
      <4>1. ASSUME NEW k \in 1..Len(Tail(e))
            PROVE  /\ Tail(e)[k].item \notin done2
                   /\ done2 \cup Items(Tail(e), k) \subseteq Passed(src, rows, Tail(e)[k].cursor)
                   /\ \A j \in 1..(k - 1) : Tail(e)[k].item \notin Passed(src, rows, Tail(e)[j].cursor)
        <5>1. /\ e[k + 1].item \notin done /\ done \cup Items(e, k + 1) \subseteq C(k + 1)
              /\ \A j \in 1..k : e[k + 1].item \notin C(j)
          <6>1. (k + 1) - 1 = k
            BY <1>2
          <6> QED BY <1>9, <2>3, <2>5, <6>1
        <5>2. e[k + 1].item \notin done2
          <6>1. 1 \in 1..k
            BY <1>2
          <6>2. e[1].item \in C(1)
            BY <1>2, <1>9, <1>10, <2>5
          <6> QED BY <1>4, <5>1, <6>1, <6>2
        <5>3. done2 \cup Items(Tail(e), k) \subseteq C(k + 1)
          BY <1>4, <2>3, <5>1
        <5>4. ASSUME NEW j \in 1..(k - 1) PROVE e[k + 1].item \notin Passed(src, rows, Tail(e)[j].cursor)
          <6>1. j + 1 \in 1..k /\ j \in 1..(Len(e) - 1)
            BY <1>2
          <6>2. Tail(e)[j] = e[j + 1]
            BY <1>2, <6>1
          <6> QED BY <5>1, <6>1, <6>2 DEF C
        <5> QED BY <2>3, <5>2, <5>3, <5>4 DEF C
      <4> QED BY <4>1 DEF Follows
    <3>2. GoesOn(src, manner, rows, q2.batch)
      <4>1. \A k \in 1..Len(Tail(e)) : k < Len(Tail(e)) \/ next # None =>
              Resumable(src, manner, rows, Tail(e)[k].cursor)
        BY <1>9, <2>3, <2>5
      <4> QED BY <1>6, <1>9, <2>5, <4>1 DEF GoesOn
    <3>3. next # None /\ Tail(e) = <<>> => Resumable(src, manner, rows, cursor)
      BY <1>13, <2>5
    <3> QED BY <1>6, <1>8, <1>10, <1>13, <2>5, <3>1, <3>2, <3>3 DEF NoneTwice, Open, Under, src, done2
  <2> QED BY <1>1, <1>6, <2>1, <2>2, <2>4, <2>5 DEF Followed, src, safe, still, wanted
<1>15. Followed(Requested(IF token = None THEN "ended" ELSE "more", q.what, 0, token, None),
                rows, seen \o kept, since, fate, manner, hidden)
  <2>1. token = None => next = None /\ Len(e) = 1
    BY <1>2 DEF token
  <2>2. token # None => token = cursor /\ (Len(e) > 1 \/ next # None)
    BY DEF token
  <2>3. token \in Position(src) \cup {None}
    BY <1>2, <2>2
  <2>4. safe => IF token = None THEN wanted \subseteq done2
                ELSE wanted \cap Passed(src, rows, token) \subseteq done2
    BY <1>10, <1>11, <1>12, <2>1, <2>2
  <2>5. still => /\ IsInjective(seen) /\ IsInjective(kept) /\ Range(seen) \cap Range(kept) = {}
                 /\ token # None => done2 \subseteq Passed(src, rows, token) /\ Resumable(src, manner, rows, token)
    BY <1>10, <1>13, <2>2
  <2> QED BY <1>1, <1>3, <2>3, <2>4, <2>5, AnswerFollowed DEF src, safe, still, wanted, done2
<1> QED BY <1>14, <1>15 DEF q2, kept, token, cursor, e, next

\* The end of a batch: the page is answered, or goes on with another fetch.
LEMMA EndFollowed ==
  ASSUME NEW q, NEW rows, NEW seen, NEW since, NEW fate, NEW manner, NEW hidden,
         Followed(q, rows, seen, since, fate, manner, hidden), q.phase = "rows", q.batch.entries = <<>>
  PROVE  LET next   == q.batch.next
             cursor == IF q.bare THEN next ELSE q.cursor
         IN /\ next = None \/ (q.bare /\ next = q.cursor) =>
                 Followed(Requested("ended", q.what, 0, None, None), rows, seen \o q.kept,
                          since, fate, manner, hidden)
            /\ next # None /\ ~(q.bare /\ next = q.cursor) =>
                 /\ cursor # None
                 /\ Followed(Requested("more", q.what, 0, cursor, None), rows, seen \o q.kept,
                             since, fate, manner, hidden)
                 /\ Followed([q EXCEPT !.phase = "fetch", !.cursor = cursor], rows, seen,
                             since, fate, manner, hidden)
<1> DEFINE src    == Source(q.what)
           next   == q.batch.next
           cursor == IF q.bare THEN next ELSE q.cursor
           done   == Range(seen) \cup Range(q.kept)
           wanted == since \ hidden
           safe   == src = "remote" => manner = "pages" /\ "dropped" \notin fate
           still  == src = "remote" => fate = {}
           over   == next = None \/ (q.bare /\ next = q.cursor)
<1>1. /\ Formed(q) /\ seen \in Seq(Name) /\ q.what \in What /\ q.kept \in Seq(Name)
      /\ q.after \in Position(src) \cup {None} /\ (q.after = None => seen = <<>>)
      /\ q.cursor \in Position(src) \cup {None} /\ q.limit \in 1..MaxPageSize
      /\ next \in Position(src) \cup {None} /\ q.bare \in BOOLEAN
      /\ (~q.bare => q.cursor # None) /\ since \subseteq rows
      /\ src = "remote" /\ manner \in {"stuck", "endless"} => seen = <<>> /\ q.kept = <<>>
      /\ safe => NoneLost(q, rows, seen, wanted)
      /\ still => NoneTwice(q, rows, manner, seen)
  BY RowsLeft
<1>2. Len(q.batch.entries) = 0 /\ Items(q.batch.entries, 0) = {}
  <2>1. 1..0 = {}
    OBVIOUS
  <2> QED BY <2>1, NoNames DEF Items
<1>3. safe =>
        /\ wanted \cap Passed(src, rows, q.after) \subseteq Range(seen)
        /\ wanted \cap Passed(src, rows, q.cursor) \subseteq done
        /\ next = None => wanted \subseteq done
        /\ q.bare /\ next # None => next # q.cursor /\ wanted \cap Passed(src, rows, next) \subseteq done
  BY <1>1, <1>2 DEF NoneLost, Open, Under
<1>4. still =>
        /\ IsInjective(seen) /\ Range(seen) \subseteq Passed(src, rows, q.after)
        /\ Resumable(src, manner, rows, q.after)
        /\ done \subseteq Passed(src, rows, q.cursor)
        /\ IsInjective(q.kept) /\ Range(seen) \cap Range(q.kept) = {}
        /\ next # None => /\ Resumable(src, manner, rows, next)
                          /\ IF q.bare THEN done \subseteq Passed(src, rows, next)
                             ELSE Resumable(src, manner, rows, q.cursor)
  BY <1>1 DEF NoneTwice, Open, Under, GoesOn
<1>5. q.phase = "rows" /\ q.batch.entries = <<>>
  OBVIOUS
<1>6. over /\ safe => wanted \subseteq done
  BY <1>3
<1>7. ~over => /\ cursor # None /\ cursor \in Position(src)
               /\ safe => wanted \cap Passed(src, rows, cursor) \subseteq done
               /\ still => done \subseteq Passed(src, rows, cursor) /\ Resumable(src, manner, rows, cursor)
  BY <1>1, <1>3, <1>4
<1> HIDE DEF src, done, wanted, safe, still, over, cursor
<1>8. ASSUME over
      PROVE  Followed(Requested("ended", q.what, 0, None, None), rows, seen \o q.kept,
                      since, fate, manner, hidden)
  <2>1. PICK t : t = None
    OBVIOUS
  <2>2. Followed(Requested(IF t = None THEN "ended" ELSE "more", q.what, 0, t, None),
                 rows, seen \o q.kept, since, fate, manner, hidden)
    <3>1. Source(q.what) = "remote" /\ manner \in {"stuck", "endless"} => seen = <<>> /\ q.kept = <<>>
      BY <1>1 DEF src
    <3>2. (Source(q.what) = "remote" => manner = "pages" /\ "dropped" \notin fate) =>
            since \ hidden \subseteq Range(seen) \cup Range(q.kept)
      BY <1>6, <1>8 DEF src, wanted, safe, done
    <3>3. (Source(q.what) = "remote" => fate = {}) =>
            IsInjective(seen) /\ IsInjective(q.kept) /\ Range(seen) \cap Range(q.kept) = {}
      BY <1>4 DEF src, still
    <3>4. /\ seen \in Seq(Name) /\ q.kept \in Seq(Name) /\ since \subseteq rows /\ q.what \in What
          /\ t \in Position(Source(q.what)) \cup {None}
      BY <1>1, <2>1
    <3> QED BY ONLY <2>1, <3>1, <3>2, <3>3, <3>4, AnswerFollowed
  <2> QED BY <2>1, <2>2
<1>9. ASSUME ~over
      PROVE  Followed(Requested("more", q.what, 0, cursor, None), rows, seen \o q.kept,
                      since, fate, manner, hidden)
  <2>1. PICK t : t = cursor
    OBVIOUS
  <2>2. Followed(Requested(IF t = None THEN "ended" ELSE "more", q.what, 0, t, None),
                 rows, seen \o q.kept, since, fate, manner, hidden)
    BY <1>1, <1>4, <1>7, <1>9, <2>1, AnswerFollowed DEF src, done, wanted, safe, still
  <2> QED BY <1>7, <1>9, <2>1, <2>2
<1>10. ASSUME ~over
       PROVE  Followed([q EXCEPT !.phase = "fetch", !.cursor = cursor], rows, seen,
                       since, fate, manner, hidden)
  <2> DEFINE q2 == [q EXCEPT !.phase = "fetch", !.cursor = cursor]
  <2>1. /\ Formed(q2) /\ q2.phase = "fetch" /\ q2.what = q.what /\ q2.limit = q.limit /\ q2.after = q.after
        /\ q2.cursor = cursor /\ q2.kept = q.kept
    <3>1. Formed(q)
      BY <1>1
    <3>2. DOMAIN q = {"phase", "what", "limit", "after", "cursor", "batch", "bare", "kept", "scanned", "fetches"}
          /\ q.batch = [entries |-> q.batch.entries, next |-> q.batch.next]
      BY ONLY <3>1 DEF Formed
    <3>3. PICK c : c = cursor
      OBVIOUS
    <3>4. PICK r : r = [q EXCEPT !.phase = "fetch", !.cursor = c]
      OBVIOUS
    <3>5. /\ r = [phase |-> "fetch", what |-> q.what, limit |-> q.limit, after |-> q.after,
                  cursor |-> c, batch |-> q.batch, bare |-> q.bare, kept |-> q.kept,
                  scanned |-> q.scanned, fetches |-> q.fetches]
      BY ONLY <3>1, <3>4 DEF Formed
    <3>6. /\ Formed(r) /\ r.phase = "fetch" /\ r.what = q.what /\ r.limit = q.limit /\ r.after = q.after
          /\ r.cursor = c /\ r.kept = q.kept
      BY ONLY <3>2, <3>5 DEF Formed
    <3> QED BY ONLY <3>3, <3>4, <3>6
  <2> HIDE DEF q2
  <2>2. Asked(q2, seen)
    BY <1>1, <1>7, <1>10, <2>1 DEF Asked, Open, Under, src
  <2>3. Idle(q2, manner, seen)
    BY <1>1, <2>1 DEF Idle, src
  <2>4. safe => NoneLost(q2, rows, seen, wanted)
    BY <1>3, <1>7, <1>10, <2>1 DEF NoneLost, Open, Under, src, done
  <2>5. still => NoneTwice(q2, rows, manner, seen)
    BY <1>4, <1>7, <1>10, <2>1 DEF NoneTwice, Open, Under, src, done
  <2> QED BY <1>1, <2>1, <2>2, <2>3, <2>4, <2>5 DEF Followed, src, wanted, safe, still, q2
<1> QED BY <1>7, <1>8, <1>9, <1>10 DEF over, cursor

\* What comes and goes under a listing.
Became(rows, new) == {"added" : n \in new \ rows} \cup {"dropped" : n \in rows \ new}

\* What a position is past depends on the rows in a remote listing only.
LEMMA PassedSame ==
  ASSUME NEW src, src # "remote", NEW rows, NEW new
  PROVE  /\ \A at : Passed(src, new, at) = Passed(src, rows, at)
         /\ \A manner, at : Resumable(src, manner, rows, at)
                            /\ Resumable(src, manner, new, at)
BY DEF Passed, Resumable

\* Where rows are only added to a remote's, a position is past no more of them than it was.
LEMMA PassedLess ==
  ASSUME NEW src, NEW rows, NEW new, rows \subseteq new, NEW at \in Position(src) \cup {None}
  PROVE  Passed(src, new, at) \subseteq Passed(src, rows, at)
<1>1. CASE src # "remote" \/ at = None
  BY <1>1, PassedSame DEF Passed
<1>2. CASE src = "remote" /\ at # None
  <2>1. at.token \in Nat \cup {None} /\ at.skip \in Nat
    BY <1>2 DEF Position
  <2>2. ASSUME NEW n PROVE Rank(After(at.token) \cap rows, n) <= Rank(After(at.token) \cap new, n)
                           /\ Rank(After(at.token) \cap rows, n) \in Nat
                           /\ Rank(After(at.token) \cap new, n) \in Nat
    <3> DEFINE A == {m \in After(at.token) \cap rows : m <= n}
               B == {m \in After(at.token) \cap new : m <= n}
    <3>1. A \subseteq B /\ B \subseteq After(at.token)
      OBVIOUS
    <3>2. IsFiniteSet(After(at.token))
      <4>1. (IF at.token = None THEN 1 ELSE at.token + 1) \in Int /\ LastName \in Int
        BY <2>1, PagingAssumption
      <4> QED BY <4>1, FS_Interval DEF After
    <3>3. IsFiniteSet(B)
      BY <3>1, <3>2, FS_Subset
    <3> HIDE DEF A, B
    <3>4. Cardinality(A) <= Cardinality(B) /\ IsFiniteSet(A)
      BY <3>1, <3>3, FS_Subset
    <3>5. Cardinality(A) \in Nat /\ Cardinality(B) \in Nat
      BY <3>3, <3>4, FS_CardinalityType
    <3> QED BY <3>4, <3>5 DEF Rank, A, B
  <2>3. ASSUME NEW n \in Passed(src, new, at) PROVE n \in Passed(src, rows, at)
    <3>1. src # "root" /\ src = "remote" /\ at # None
      BY <1>2
    <3>2. n \in Name /\ (n \in After(at.token) => Rank(After(at.token) \cap new, n) <= at.skip)
      BY <2>3, <3>1 DEF Passed
    <3>3. n \in After(at.token) => Rank(After(at.token) \cap rows, n) <= at.skip
      BY <2>1, <2>2, <3>2
    <3> QED BY <3>1, <3>2, <3>3 DEF Passed
  <2> QED BY <2>3
<1> QED BY <1>1, <1>2

\* A listing while its catalog changes: it is still followed, on the rows there are now.
LEMMA ChangeFollowed ==
  ASSUME NEW q, NEW rows, NEW new, NEW seen, NEW since, NEW fate, NEW manner, NEW hidden,
         Followed(q, rows, seen, since, fate, manner, hidden), q.phase # "none"
  PROVE  Followed(q, new, seen, since \cap new, fate \cup Became(rows, new), manner, hidden)
<1> DEFINE src    == Source(q.what)
           done   == Range(seen) \cup Range(q.kept)
           fate2  == fate \cup Became(rows, new)
           wanted == since \hidden
           left   == (since \cap new) \ hidden
<1>1. /\ Asked(q, seen) /\ Idle(q, manner, seen) /\ left \subseteq wanted
      /\ (src = "remote" => manner = "pages" /\ "dropped" \notin fate) => NoneLost(q, rows, seen, wanted)
      /\ (src = "remote" => fate = {}) => NoneTwice(q, rows, manner, seen)
  BY DEF Followed
<1>2. "dropped" \notin fate2 => "dropped" \notin fate /\ rows \subseteq new
  BY DEF Became
<1>3. fate2 = {} => fate = {} /\ rows = new
  <2>1. ASSUME fate2 = {} PROVE \A n \in new \ rows : FALSE
    BY <2>1 DEF Became
  <2>2. ASSUME fate2 = {} PROVE \A n \in rows \ new : FALSE
    BY <2>2 DEF Became
  <2> QED BY <2>1, <2>2
<1>4. /\ q.phase \in Open => q.after \in Position(src) \cup {None}
      /\ q.phase \in Under => q.cursor \in Position(src) \cup {None}
      /\ q.phase = "rows" => /\ q.batch.entries \in Seq(Entry(src))
                             /\ q.batch.next \in Position(src) \cup {None}
                             /\ \A k \in 1..Len(q.batch.entries) :
                                  q.batch.entries[k].cursor \in Position(src) \cup {None}
  <2>1. /\ q.phase \in Open => q.after \in Position(src) \cup {None}
        /\ q.phase \in Under => q.cursor \in Position(src) \cup {None}
        /\ q.phase = "rows" => /\ q.batch.entries \in Seq(Entry(src))
                               /\ q.batch.next \in Position(src) \cup {None}
    BY <1>1 DEF Asked, Open, Under
  <2>2. ASSUME q.phase = "rows", NEW k \in 1..Len(q.batch.entries)
        PROVE  q.batch.entries[k].cursor \in Position(src) \cup {None}
    <3> HIDE DEF src
    <3>1. q.batch.entries[k] \in Entry(src)
      BY <2>1, <2>2, ElementOfSeq
    <3> QED BY <3>1 DEF Entry
  <2> QED BY <2>1, <2>2
<1>5. (src = "remote" => rows \subseteq new) =>
        \A at \in Position(src) \cup {None} : Passed(src, new, at) \subseteq Passed(src, rows, at)
  BY PassedSame, PassedLess
<1> HIDE DEF src, done, wanted, left, fate2
<1>6. ASSUME src = "remote" => manner = "pages" /\ "dropped" \notin fate2
      PROVE  NoneLost(q, new, seen, left)
  <2>1. NoneLost(q, rows, seen, wanted)
    BY <1>1, <1>2, <1>6
  <2>2. \A at \in Position(src) \cup {None} : left \cap Passed(src, new, at) \subseteq wanted \cap Passed(src, rows, at)
    BY <1>1, <1>2, <1>5, <1>6
  <2>3. q.phase \in Open => left \cap Passed(src, new, q.after) \subseteq Range(seen)
    BY <1>4, <2>1, <2>2 DEF NoneLost, src
  <2>4. q.phase \in Under => left \cap Passed(src, new, q.cursor) \subseteq done
    BY <1>4, <2>1, <2>2 DEF NoneLost, src, done
  <2>5. ASSUME q.phase = "rows", NEW k \in 1..Len(q.batch.entries)
        PROVE  left \cap Passed(src, new, q.batch.entries[k].cursor) \subseteq done \cup Items(q.batch.entries, k)
    BY <1>4, <2>1, <2>2, <2>5 DEF NoneLost, src, done
  <2>6. ASSUME q.phase = "rows", q.batch.next = None
        PROVE  left \subseteq done \cup Items(q.batch.entries, Len(q.batch.entries))
    BY <1>1, <2>1, <2>6 DEF NoneLost, done
  <2>7. ASSUME q.phase = "rows", q.bare, q.batch.next # None
        PROVE  q.batch.next # q.cursor /\ left \cap Passed(src, new, q.batch.next) \subseteq done
    BY <1>4, <2>1, <2>2, <2>7 DEF NoneLost, src, done
  <2>8. q.phase = "ended" => left \subseteq Range(seen)
    BY <1>1, <2>1 DEF NoneLost
  <2> QED BY <2>3, <2>4, <2>5, <2>6, <2>7, <2>8 DEF NoneLost, src, done
<1>7. ASSUME src = "remote" => fate2 = {}
      PROVE  NoneTwice(q, new, manner, seen)
  <2>1. NoneTwice(q, rows, manner, seen)
    BY <1>1, <1>3, <1>7
  <2>2. CASE src = "remote"
    BY <1>3, <1>7, <2>1, <2>2
  <2>3. CASE src # "remote"
    <3>1. /\ \A at : Passed(src, new, at) = Passed(src, rows, at)
          /\ \A at : Resumable(src, manner, new, at)
      BY <2>3, PassedSame
    <3>2. q.phase = "rows" => Follows(src, new, done, q.batch.entries) /\ GoesOn(src, manner, new, q.batch)
      <4>1. q.phase = "rows" => Follows(src, rows, done, q.batch.entries)
        BY <2>1 DEF NoneTwice, src, done
      <4> QED BY <3>1, <4>1 DEF Follows, GoesOn
    <3> QED BY <2>1, <3>1, <3>2 DEF NoneTwice, src, done
  <2> QED BY <2>2, <2>3
<1> QED BY <1>1, <1>6, <1>7 DEF Followed, src, wanted, left, fate2

-----------------------------------------------------------------------------
(* All clients                                                             *)

\* What a step makes of one client's listing.
LEMMA FollowingNext ==
  ASSUME NEW c, NEW q, NEW rows, NEW seen, NEW since, NEW fate, NEW manner, NEW hidden,
         Followed(q, rows, seen, since, fate, manner, hidden),
         asking'[c] = q, Shown(asking[c].what)' = rows, got'[c] = seen, there'[c] = since,
         disturbed'[c] = fate, scenario'.manner = manner, scenario'.hidden = hidden
  PROVE  Following(c)'
BY DEF Following

\* While the stores stay as they are, so do their rows.
LEMMA ShownKept ==
  ASSUME UNCHANGED stores, NEW c, NEW what, asking'[c].what = what
  PROVE  Shown(asking[c].what)' = Shown(what)
BY DEF stores, Shown, RowsOf, Rows, IsRoot, Route, Inner

\* A client that does nothing follows its listing still.
LEMMA OtherFollows ==
  ASSUME UNCHANGED stores, NEW c, Following(c), asking'[c] = asking[c], got'[c] = got[c],
         there'[c] = there[c], disturbed'[c] = disturbed[c],
         scenario'.manner = scenario.manner, scenario'.hidden = scenario.hidden
  PROVE  Following(c)'
<1>1. Shown(asking[c].what)' = Shown(asking[c].what)
  BY ShownKept
<1> QED BY <1>1, FollowingNext DEF Following

\* A step of one client, by what becomes of its listing.
LEMMA OneClient ==
  ASSUME ListingInv, UNCHANGED <<stores, disturbed>>, NEW c \in Client,
         NEW q, NEW seen, NEW since,
         asking' = [asking EXCEPT ![c] = q], got' = [got EXCEPT ![c] = seen],
         there' = [there EXCEPT ![c] = since],
         scenario'.manner = scenario.manner, scenario'.hidden = scenario.hidden, Given',
         Followed(q, Shown(q.what), seen, since, disturbed[c], scenario.manner, scenario.hidden)
  PROVE  /\ Given' /\ NoRemoteViews'
         /\ (asking = [d \in Client |-> asking[d]] /\ got = [d \in Client |-> got[d]])'
         /\ (there = [d \in Client |-> there[d]] /\ disturbed = [d \in Client |-> disturbed[d]])'
         /\ (\A d \in Client : Following(d))'
<1>1. /\ asking = [d \in Client |-> asking[d]] /\ got = [d \in Client |-> got[d]]
      /\ there = [d \in Client |-> there[d]] /\ disturbed = [d \in Client |-> disturbed[d]]
      /\ NoRemoteViews /\ \A d \in Client : Following(d)
  BY DEF ListingInv
<1>2. /\ asking'[c] = q /\ got'[c] = seen /\ there'[c] = since
      /\ \A d \in Client : d # c => asking'[d] = asking[d] /\ got'[d] = got[d] /\ there'[d] = there[d]
  BY <1>1
<1>3. Following(c)'
  <2>1. Shown(asking[c].what)' = Shown(q.what)
    BY <1>2, ShownKept
  <2> QED BY <1>2, <2>1, FollowingNext
<1>4. ASSUME NEW d \in Client, d # c PROVE Following(d)'
  BY <1>1, <1>2, <1>4, OtherFollows
<1>5. NoRemoteViews'
  BY <1>1 DEF NoRemoteViews, stores
<1>6. /\ (asking = [d \in Client |-> asking[d]] /\ got = [d \in Client |-> got[d]])'
      /\ (there = [d \in Client |-> there[d]] /\ disturbed = [d \in Client |-> disturbed[d]])'
  BY <1>1
<1>7. (\A d \in Client : Following(d))'
  BY <1>3, <1>4
<1> QED BY <1>5, <1>6, <1>7

\* What follows from the scenario.
LEMMA GivenFacts ==
  ASSUME Given
  PROVE  /\ scenario.what \subseteq What /\ scenario.limits \subseteq 1..MaxPageSize
         /\ scenario.manner \in Manner /\ scenario.hidden \subseteq Name
         /\ scenario.changes \in Nat /\ scenario.faults \in Nat
         /\ [scenario EXCEPT !.changes = @ - 1].manner = scenario.manner
         /\ [scenario EXCEPT !.changes = @ - 1].hidden = scenario.hidden
         /\ [scenario EXCEPT !.faults = @ - 1].manner = scenario.manner
         /\ [scenario EXCEPT !.faults = @ - 1].hidden = scenario.hidden
         /\ UNCHANGED scenario => Given'
         /\ scenario.changes > 0 /\ scenario' = [scenario EXCEPT !.changes = @ - 1] => Given'
         /\ scenario.faults > 0 /\ scenario' = [scenario EXCEPT !.faults = @ - 1] => Given'
BY DEF Given

\* All that a step has to keep, but for the stores.
Listings ==
  /\ Given /\ NoRemoteViews
  /\ asking = [d \in Client |-> asking[d]] /\ got = [d \in Client |-> got[d]]
  /\ there = [d \in Client |-> there[d]] /\ disturbed = [d \in Client |-> disturbed[d]]
  /\ \A d \in Client : Following(d)

\* A request as the actions make it, and as they answer it.
Made(phase, what, limit, after) ==
  [NoRequest EXCEPT !.phase = phase, !.what = what, !.limit = limit, !.after = after, !.cursor = after]
Answered(phase, what, after) == [NoRequest EXCEPT !.phase = phase, !.what = what, !.after = after]

LEMMA Requests ==
  ASSUME NEW phase, NEW what, NEW limit, NEW after
  PROVE  /\ Made(phase, what, limit, after) = Requested(phase, what, limit, after, after)
         /\ Answered(phase, what, after) = Requested(phase, what, 0, after, None)
<1>1. PICK empty, none, no : empty = EmptyPage /\ none = <<>> /\ no = FALSE
  OBVIOUS
<1>2. NoRequest = [phase |-> "none", what |-> None, limit |-> 0, after |-> None, cursor |-> None,
                   batch |-> empty, bare |-> no, kept |-> none, scanned |-> 0, fetches |-> 0]
  BY <1>1 DEF NoRequest
<1>3. Made(phase, what, limit, after) = Requested(phase, what, limit, after, after)
  <2>1. Requested(phase, what, limit, after, after)
          = [phase |-> phase, what |-> what, limit |-> limit, after |-> after, cursor |-> after,
             batch |-> empty, bare |-> no, kept |-> none, scanned |-> 0, fetches |-> 0]
    BY <1>1 DEF Requested
  <2>2. Made(phase, what, limit, after)
          = [phase |-> phase, what |-> what, limit |-> limit, after |-> after, cursor |-> after,
             batch |-> empty, bare |-> no, kept |-> none, scanned |-> 0, fetches |-> 0]
    <3>1. PICK r : r = Made(phase, what, limit, after)
      OBVIOUS
    <3>2. DOMAIN r = {"phase", "what", "limit", "after", "cursor", "batch", "bare", "kept", "scanned", "fetches"}
          /\ r = [r EXCEPT !.phase = r.phase]
      BY <1>2, <3>1 DEF Made
    <3>3. /\ r.phase = phase /\ r.what = what /\ r.limit = limit /\ r.after = after /\ r.cursor = after
          /\ r.batch = empty /\ r.bare = no /\ r.kept = none /\ r.scanned = 0 /\ r.fetches = 0
      BY ONLY <1>2, <3>1 DEF Made
    <3> QED BY ONLY <3>1, <3>2, <3>3
  <2> QED BY <2>1, <2>2
<1>4. Answered(phase, what, after) = Requested(phase, what, 0, after, None)
  <2>1. Requested(phase, what, 0, after, None)
          = [phase |-> phase, what |-> what, limit |-> 0, after |-> after, cursor |-> None,
             batch |-> empty, bare |-> no, kept |-> none, scanned |-> 0, fetches |-> 0]
    BY <1>1 DEF Requested
  <2>2. Answered(phase, what, after)
          = [phase |-> phase, what |-> what, limit |-> 0, after |-> after, cursor |-> None,
             batch |-> empty, bare |-> no, kept |-> none, scanned |-> 0, fetches |-> 0]
    <3>1. PICK r : r = Answered(phase, what, after)
      OBVIOUS
    <3>2. DOMAIN r = {"phase", "what", "limit", "after", "cursor", "batch", "bare", "kept", "scanned", "fetches"}
          /\ r = [r EXCEPT !.phase = r.phase]
      BY <1>2, <3>1 DEF Answered
    <3>3. /\ r.phase = phase /\ r.what = what /\ r.limit = 0 /\ r.after = after /\ r.cursor = None
          /\ r.batch = empty /\ r.bare = no /\ r.kept = none /\ r.scanned = 0 /\ r.fetches = 0
      BY ONLY <1>2, <3>1 DEF Answered
    <3> QED BY ONLY <3>1, <3>2, <3>3
  <2> QED BY <2>1, <2>2
<1> QED BY <1>3, <1>4

\* A page is asked for.
LEMMA AskStep ==
  ASSUME ListingInv, NEW c \in Client, NEW what \in scenario.what, NEW limit \in scenario.limits,
         Ask(c, what, limit)
  PROVE  Listings'
<1> DEFINE q     == asking[c]
           phase == IF NamespaceExists(what.of) THEN "fetch" ELSE "refused"
           q2    == Requested(phase, what, limit, q.after, q.after)
           since == IF q.phase = "none" THEN Shown(what) ELSE there[c]
<1>1. /\ Following(c) /\ what \in What /\ limit \in 1..MaxPageSize
      /\ got = [d \in Client |-> got[d]] /\ there = [d \in Client |-> there[d]]
      /\ Given /\ scenario' = scenario /\ Given'
  BY GivenFacts DEF ListingInv, Ask
<1>2. /\ q.phase \in {"none", "more"} /\ (q.phase = "more" => what = q.what)
      /\ asking' = [asking EXCEPT ![c] = q2]
      /\ there' = [there EXCEPT ![c] = since] /\ got' = [got EXCEPT ![c] = got[c]]
      /\ UNCHANGED <<stores, disturbed>>
  <2>1. asking' = [asking EXCEPT ![c] = q2]
    <3>1. asking' = [asking EXCEPT ![c] = Made(phase, what, limit, q.after)]
      BY DEF Ask, Made
    <3>2. Made(phase, what, limit, q.after) = q2
      BY Requests
    <3> HIDE DEF q2
    <3> QED BY <3>1, <3>2
  <2>2. there' = [there EXCEPT ![c] = since] /\ got' = [got EXCEPT ![c] = got[c]]
    BY <1>1 DEF Ask
  <2> QED BY <2>1, <2>2 DEF Ask
<1>3. Followed(q2, Shown(what), got[c], since, disturbed[c], scenario.manner, scenario.hidden)
  BY <1>1, <1>2, AskFollowed DEF Following
<1>4. q2.what = what
  BY DEF Requested
<1> HIDE DEF q2, since, q, phase
<1> QED BY <1>1, <1>2, <1>3, <1>4, OneClient DEF Listings

\* Rows are fetched.
LEMMA FetchStep ==
  ASSUME ListingInv, WholeScans, NEW c \in Client, Fetch(c)
  PROVE  Listings'
<1> DEFINE q    == asking[c]
           page == List(q.what, scenario.manner, q.cursor, q.limit)
           q2   == IF ~Lists(q.what) THEN [q EXCEPT !.phase = "refused"]
                   ELSE [q EXCEPT !.phase = "rows", !.fetches = q.fetches + 1, !.batch = page,
                                  !.bare = page.entries = <<>>]
<1>1. /\ Following(c) /\ asking = [d \in Client |-> asking[d]]
      /\ got = [d \in Client |-> got[d]] /\ there = [d \in Client |-> there[d]]
      /\ Given /\ scenario' = scenario /\ Given' /\ scenario.manner \in Manner
      /\ StoresInv /\ NoRemoteViews
  BY GivenFacts DEF ListingInv, Fetch
<1>2. q.phase = "fetch" /\ UNCHANGED <<stores, disturbed>>
      /\ there' = [there EXCEPT ![c] = there[c]] /\ got' = [got EXCEPT ![c] = got[c]]
  BY <1>1 DEF Fetch
<1>3. asking' = [asking EXCEPT ![c] = q2]
  BY <1>1 DEF Fetch
<1>4. Formed(q) /\ q.what \in What /\ q.cursor \in Position(Source(q.what)) \cup {None} /\ q.limit \in Nat \ {0}
  <2>1. Asked(q, got[c])
    BY <1>1 DEF Following, Followed
  <2>2. \A n \in 1..MaxPageSize : n \in Nat \ {0}
    BY PagingAssumption
  <2> QED BY <1>2, <2>1, <2>2 DEF Asked, Open, Under
<1>5. Serves(Source(q.what), scenario.manner, Shown(q.what), q.cursor, page)
  BY <1>1, <1>4, ListServes
<1> HIDE DEF page
<1>6. Followed(q2, Shown(q.what), got[c], there[c], disturbed[c], scenario.manner, scenario.hidden)
  <2>1. /\ Followed([q EXCEPT !.phase = "refused"], Shown(q.what), got[c], there[c], disturbed[c],
                    scenario.manner, scenario.hidden)
        /\ Followed([q EXCEPT !.phase = "rows", !.fetches = q.fetches + 1, !.batch = page,
                              !.bare = page.entries = <<>>], Shown(q.what), got[c], there[c], disturbed[c],
                    scenario.manner, scenario.hidden)
    BY <1>1, <1>2, <1>5, FetchFollowed DEF Following
  <2> QED BY <2>1
<1>7. q2.what = q.what
  BY <1>4 DEF Formed
<1> HIDE DEF q2, q
<1> QED BY <1>1, <1>2, <1>3, <1>6, <1>7, OneClient DEF Listings, q

\* What a client is not shown of the rows of a page is hidden from it, or gone.
LEMMA Unseen ==
  ASSUME NEW c, NEW what, there[c] \subseteq Shown(what), NEW n, ~CanSee(what, n)
  PROVE  n \notin there[c] \ scenario.hidden
BY DEF CanSee

\* A row is examined, and kept or passed over.
LEMMA ExamineStep ==
  ASSUME ListingInv, NEW c \in Client, Examine(c)
  PROVE  Listings'
<1> DEFINE q      == asking[c]
           e      == q.batch.entries
           rows   == Shown(q.what)
           keep   == CanSee(q.what, e[1].item)
           kept   == IF keep THEN Append(q.kept, e[1].item) ELSE q.kept
           cursor == e[1].cursor
           token  == IF Len(e) > 1 \/ q.batch.next # None THEN cursor ELSE None
           done   == Requested(IF token = None THEN "ended" ELSE "more", q.what, 0, token, None)
           q2     == RowOff(q, Tail(e), kept, cursor, q.scanned + 1)
<1>1. /\ Following(c) /\ asking = [d \in Client |-> asking[d]]
      /\ got = [d \in Client |-> got[d]] /\ there = [d \in Client |-> there[d]]
      /\ Given /\ scenario' = scenario /\ Given'
  BY GivenFacts DEF ListingInv, Examine
<1>2. /\ q.phase = "rows" /\ e # <<>> /\ UNCHANGED <<stores, disturbed>>
      /\ there' = [there EXCEPT ![c] = there[c]]
  BY <1>1 DEF Examine
<1>3. Head(e) = e[1] /\ keep \in BOOLEAN
  <2>1. e \in Seq(Entry(Source(q.what)))
    BY <1>1, <1>2 DEF Following, Followed, Asked, Open, Under
  <2>2. CanSee(q.what, e[1].item) \in BOOLEAN
    BY DEF CanSee
  <2> HIDE DEF e
  <2> QED BY <1>2, <2>1, <2>2, HeadOfPage DEF e
<1>4. \/ /\ got' = [got EXCEPT ![c] = got[c] \o kept]
         /\ asking' = [asking EXCEPT ![c] = done]
      \/ /\ got' = [got EXCEPT ![c] = got[c]]
         /\ asking' = [asking EXCEPT ![c] = q2]
  <2>1. CASE Len(kept) = q.limit
    <3>1. Answer(c, kept, token)
      BY <1>3, <2>1 DEF Examine, CursorAfter
    <3> HIDE DEF kept, token
    <3>2. Answered(IF token = None THEN "ended" ELSE "more", q.what, token) = done
      BY Requests
    <3>3. /\ got' = [got EXCEPT ![c] = got[c] \o kept]
          /\ asking' = [asking EXCEPT ![c] = Answered(IF token = None THEN "ended" ELSE "more", q.what, token)]
      BY <3>1 DEF Answer, Answered
    <3> HIDE DEF done
    <3> QED BY <3>2, <3>3
  <2>2. CASE Len(kept) # q.limit
    <3>1. /\ asking' = [asking EXCEPT ![c].batch.entries = Tail(@), ![c].kept = kept, ![c].cursor = cursor,
                                      ![c].scanned = @ + 1]
          /\ UNCHANGED got
      BY <1>3, <2>2 DEF Examine, CursorAfter
    <3>2. got' = [got EXCEPT ![c] = got[c]]
      BY <1>1, <3>1
    <3> HIDE DEF kept, cursor
    <3>3. asking' = [asking EXCEPT ![c] = q2]
      BY <1>1, <3>1 DEF RowOff
    <3> QED BY <3>2, <3>3
  <2> QED BY <2>1, <2>2
<1>5. there[c] \subseteq rows
  BY <1>1, <1>2 DEF Following, Followed
<1>6. ~keep => e[1].item \notin there[c] \ scenario.hidden
  BY <1>5, Unseen
<1> HIDE DEF keep
<1>7. /\ Followed(q2, rows, got[c], there[c], disturbed[c], scenario.manner, scenario.hidden)
      /\ Followed(done, rows, got[c] \o kept, there[c], disturbed[c], scenario.manner, scenario.hidden)
  BY <1>1, <1>2, <1>3, <1>6, RowFollowed DEF Following
<1>8. q2.what = q.what /\ done.what = q.what
  <2>1. Formed(q)
    BY <1>1 DEF Following, Followed, Asked
  <2>2. \A t, k, m, n : RowOff(q, t, k, m, n).what = q.what
    BY <2>1, RowTaken
  <2>3. done.what = q.what
    BY DEF Requested
  <2> QED BY <2>2, <2>3
<1> HIDE DEF q2, done, kept
<1>9. CASE got' = [got EXCEPT ![c] = got[c] \o kept] /\ asking' = [asking EXCEPT ![c] = done]
  BY <1>1, <1>2, <1>7, <1>8, <1>9, OneClient DEF Listings
<1>10. CASE got' = [got EXCEPT ![c] = got[c]] /\ asking' = [asking EXCEPT ![c] = q2]
  BY <1>1, <1>2, <1>7, <1>8, <1>10, OneClient DEF Listings
<1> QED BY <1>4, <1>9, <1>10

\* A batch ends.
LEMMA EndStep ==
  ASSUME ListingInv, NEW c \in Client, EndBatch(c)
  PROVE  Listings'
<1> DEFINE q      == asking[c]
           rows   == Shown(q.what)
           next   == q.batch.next
           cursor == IF q.bare THEN next ELSE q.cursor
           over   == next = None \/ (q.bare /\ next = q.cursor)
           ended  == Requested("ended", q.what, 0, None, None)
           more   == Requested("more", q.what, 0, cursor, None)
           q2     == [q EXCEPT !.phase = "fetch", !.cursor = cursor]
<1>1. /\ Following(c) /\ asking = [d \in Client |-> asking[d]]
      /\ got = [d \in Client |-> got[d]] /\ there = [d \in Client |-> there[d]]
      /\ Given /\ scenario' = scenario /\ Given'
  BY GivenFacts DEF ListingInv, EndBatch
<1>2. /\ q.phase = "rows" /\ q.batch.entries = <<>> /\ UNCHANGED <<stores, disturbed>>
      /\ there' = [there EXCEPT ![c] = there[c]]
  BY <1>1 DEF EndBatch
<1>3. /\ over => Followed(ended, rows, got[c] \o q.kept, there[c], disturbed[c],
                          scenario.manner, scenario.hidden)
      /\ ~over =>
           /\ cursor # None
           /\ Followed(more, rows, got[c] \o q.kept, there[c], disturbed[c], scenario.manner, scenario.hidden)
           /\ Followed(q2, rows, got[c], there[c], disturbed[c], scenario.manner, scenario.hidden)
  BY <1>1, <1>2, EndFollowed DEF Following
<1>4. \/ /\ over /\ got' = [got EXCEPT ![c] = got[c] \o q.kept]
         /\ asking' = [asking EXCEPT ![c] = ended]
      \/ /\ ~over /\ got' = [got EXCEPT ![c] = got[c] \o q.kept]
         /\ asking' = [asking EXCEPT ![c] = more]
      \/ /\ ~over /\ got' = [got EXCEPT ![c] = got[c]]
         /\ asking' = [asking EXCEPT ![c] = q2]
  <2>1. CASE over
    <3>1. Answer(c, q.kept, None)
      BY <2>1 DEF EndBatch
    <3>2. Answered("ended", q.what, None) = ended
      BY Requests
    <3>3. /\ got' = [got EXCEPT ![c] = got[c] \o q.kept]
          /\ asking' = [asking EXCEPT ![c] = Answered("ended", q.what, None)]
      BY <3>1 DEF Answer, Answered
    <3> HIDE DEF ended
    <3> QED BY <2>1, <3>2, <3>3
  <2>2. CASE ~over /\ FarEnough(q)
    <3>1. Answer(c, q.kept, cursor)
      BY <2>2 DEF EndBatch
    <3>2. cursor # None
      BY <1>3, <2>2
    <3> HIDE DEF cursor
    <3>3. Answered("more", q.what, cursor) = more
      BY Requests
    <3>4. /\ got' = [got EXCEPT ![c] = got[c] \o q.kept]
          /\ asking' = [asking EXCEPT ![c] = Answered("more", q.what, cursor)]
      BY <3>1, <3>2 DEF Answer, Answered
    <3> HIDE DEF more
    <3> QED BY <2>2, <3>3, <3>4
  <2>3. CASE ~over /\ ~FarEnough(q)
    <3>1. asking' = [asking EXCEPT ![c].phase = "fetch", ![c].cursor = cursor] /\ UNCHANGED got
      BY <2>3 DEF EndBatch
    <3> HIDE DEF cursor
    <3>2. asking' = [asking EXCEPT ![c] = q2] /\ got' = [got EXCEPT ![c] = got[c]]
      BY <1>1, <3>1
    <3> QED BY <2>3, <3>2
  <2> QED BY <2>1, <2>2, <2>3
<1>5. q2.what = q.what /\ ended.what = q.what /\ more.what = q.what
  <2>1. Formed(q)
    BY <1>1 DEF Following, Followed, Asked
  <2> HIDE DEF cursor
  <2>2. q2.what = q.what
    BY <2>1 DEF Formed
  <2> QED BY <2>2 DEF Requested
<1> HIDE DEF q2, ended, more, over
<1>6. CASE over /\ got' = [got EXCEPT ![c] = got[c] \o q.kept] /\ asking' = [asking EXCEPT ![c] = ended]
  BY <1>1, <1>2, <1>3, <1>5, <1>6, OneClient DEF Listings
<1>7. CASE ~over /\ got' = [got EXCEPT ![c] = got[c] \o q.kept] /\ asking' = [asking EXCEPT ![c] = more]
  BY <1>1, <1>2, <1>3, <1>5, <1>7, OneClient DEF Listings
<1>8. CASE ~over /\ got' = [got EXCEPT ![c] = got[c]] /\ asking' = [asking EXCEPT ![c] = q2]
  BY <1>1, <1>2, <1>3, <1>5, <1>8, OneClient DEF Listings
<1> QED BY <1>4, <1>6, <1>7, <1>8

\* A fetch fails.
LEMMA FailStep ==
  ASSUME ListingInv, NEW c \in Client, FetchFails(c)
  PROVE  Listings'
<1> DEFINE q  == asking[c]
           q2 == Requested(IF q.after = None THEN "none" ELSE "more",
                           IF q.after = None THEN None ELSE q.what, 0, q.after, None)
<1>1. /\ Following(c) /\ asking = [d \in Client |-> asking[d]]
      /\ got = [d \in Client |-> got[d]] /\ there = [d \in Client |-> there[d]]
      /\ scenario'.manner = scenario.manner /\ scenario'.hidden = scenario.hidden /\ Given'
  BY GivenFacts DEF ListingInv, FetchFails
<1>2. /\ q.phase = "fetch" /\ UNCHANGED <<stores, disturbed>>
      /\ there' = [there EXCEPT ![c] = there[c]] /\ got' = [got EXCEPT ![c] = got[c]]
  BY <1>1 DEF FetchFails
<1>3. asking' = [asking EXCEPT ![c] = q2]
  <2>1. asking' = [asking EXCEPT ![c] = Answered(IF q.after = None THEN "none" ELSE "more",
                                                 IF q.after = None THEN None ELSE q.what, q.after)]
    BY DEF FetchFails, Answered
  <2>2. Answered(IF q.after = None THEN "none" ELSE "more", IF q.after = None THEN None ELSE q.what, q.after) = q2
    BY Requests
  <2> HIDE DEF q2
  <2> QED BY <2>1, <2>2
<1>4. Followed(q2, Shown(q2.what), got[c], there[c], disturbed[c], scenario.manner, scenario.hidden)
  <2>1. CASE q.after = None
    <3>1. q2 = NoRequest
      BY <2>1 DEF Requested, NoRequest
    <3>2. Followed(NoRequest, Shown(q.what), got[c], there[c], disturbed[c], scenario.manner, scenario.hidden)
      BY <1>1, <1>2, <2>1, FailFollowed DEF Following
    <3>3. NoRequest.phase = "none"
      BY DEF NoRequest
    <3> HIDE DEF q2
    <3> QED BY <3>1, <3>2, <3>3 DEF Followed
  <2>2. CASE q.after # None
    <3>1. PICK q3 : q3 = Requested("more", q.what, 0, q.after, None)
      OBVIOUS
    <3>2. q2 = q3
      BY <2>2, <3>1
    <3>3. q3.what = q.what
      BY <3>1 DEF Requested
    <3>4. Followed(q3, Shown(q.what), got[c], there[c], disturbed[c], scenario.manner, scenario.hidden)
      BY <1>1, <1>2, <2>2, <3>1, FailFollowed DEF Following
    <3> HIDE DEF q2
    <3> QED BY <3>2, <3>3, <3>4
  <2> QED BY <2>1, <2>2
<1> HIDE DEF q2, q
<1> QED BY <1>1, <1>2, <1>3, <1>4, OneClient DEF Listings

\* A listing that has begun is of something.
LEMMA OfSomething ==
  ASSUME NEW c, Following(c)
  PROVE  /\ asking[c].phase = "none" <=> asking[c].what = None
         /\ asking[c].phase = "none" => got[c] = <<>>
<1>1. Asked(asking[c], got[c])
  BY DEF Following, Followed
<1>2. NoRequest.what = None
  BY DEF NoRequest
<1> QED BY <1>1, <1>2, ListingAssumption DEF Asked

\* A catalog changes under the listings.
LEMMA ChangeStep ==
  ASSUME ListingInv, Change
  PROVE  Listings'
<1>1. /\ StoresInv /\ NoRemoteViews /\ Given /\ \A c \in Client : Following(c)
      /\ asking = [c \in Client |-> asking[c]] /\ got = [c \in Client |-> got[c]]
  BY DEF ListingInv
<1>2. /\ asking' = asking /\ got' = got
      /\ scenario'.manner = scenario.manner /\ scenario'.hidden = scenario.hidden /\ Given'
      /\ there' = [c \in Client |->
           IF asking[c].what = None THEN there[c] ELSE there[c] \cap Shown(asking[c].what)']
      /\ disturbed' = [c \in Client |->
           IF asking[c].what = None THEN {} ELSE disturbed[c] \cup Disturbs(asking[c].what)]
  BY <1>1, GivenFacts DEF Change
<1>3. NoRemoteViews'
  BY <1>1, RemoteViewsKept DEF NoRemoteViews
<1>4. ASSUME NEW c \in Client PROVE Following(c)'
  <2>1. CASE asking[c].phase = "none"
    <3>1. Followed(asking[c], Shown(asking[c].what)', got[c], there'[c], disturbed'[c],
                   scenario.manner, scenario.hidden)
      BY <1>1, <2>1 DEF Following, Followed
    <3> QED BY <1>2, <3>1, FollowingNext
  <2>2. CASE asking[c].phase # "none"
    <3>1. PICK new : new = Shown(asking[c].what)'
      OBVIOUS
    <3>2. /\ there'[c] = there[c] \cap new
          /\ disturbed'[c] = disturbed[c] \cup Became(Shown(asking[c].what), new)
      <4>1. asking[c].what # None
        BY <1>1, <2>2, OfSomething
      <4>2. Disturbs(asking[c].what) = Became(Shown(asking[c].what), new)
        BY <1>2, <3>1 DEF Disturbs, Became
      <4> QED BY <1>2, <3>1, <4>1, <4>2
    <3>3. Followed(asking[c], new, got[c], there'[c], disturbed'[c], scenario.manner, scenario.hidden)
      BY <1>1, <2>2, <3>2, ChangeFollowed DEF Following
    <3> QED BY <1>2, <3>1, <3>3, FollowingNext
  <2> QED BY <2>1, <2>2
<1>5. /\ (asking = [c \in Client |-> asking[c]] /\ got = [c \in Client |-> got[c]])'
      /\ (there = [c \in Client |-> there[c]] /\ disturbed = [c \in Client |-> disturbed[c]])'
  BY <1>1, <1>2
<1>6. (\A c \in Client : Following(c))'
  BY <1>4
<1> QED BY <1>2, <1>3, <1>5, <1>6 DEF Listings

\* Nothing happens.
LEMMA IdleStep ==
  ASSUME ListingInv, UNCHANGED vars
  PROVE  Listings'
<1>1. UNCHANGED <<stores, scenario, asking, got, there, disturbed>>
  BY DEF vars, listVars
<1>2. /\ Given /\ NoRemoteViews /\ \A c \in Client : Following(c)
      /\ asking = [c \in Client |-> asking[c]] /\ got = [c \in Client |-> got[c]]
      /\ there = [c \in Client |-> there[c]] /\ disturbed = [c \in Client |-> disturbed[c]]
  BY DEF ListingInv
<1>3. (\A c \in Client : Following(c))'
  BY <1>1, <1>2, OtherFollows
<1>4. Given' /\ NoRemoteViews'
  BY <1>1, <1>2 DEF Given, NoRemoteViews, stores
<1>5. /\ (asking = [c \in Client |-> asking[c]] /\ got = [c \in Client |-> got[c]])'
      /\ (there = [c \in Client |-> there[c]] /\ disturbed = [c \in Client |-> disturbed[c]])'
  BY <1>1, <1>2
<1> QED BY <1>3, <1>4, <1>5 DEF Listings

\* Every step keeps the invariant.
LEMMA ListingsStep ==
  ASSUME ListingInv, WholeScans, [Next]_vars
  PROVE  ListingInv'
<1>1. StoresInv'
  BY StoresStep DEF ListingInv
<1>2. Listings'
  <2>1. ASSUME NEW c \in Client, NEW what \in scenario.what, NEW limit \in scenario.limits, Ask(c, what, limit)
        PROVE  Listings'
    BY <2>1, AskStep
  <2>2. ASSUME NEW c \in Client, Fetch(c) \/ Examine(c) \/ EndBatch(c) \/ FetchFails(c)
        PROVE  Listings'
    BY <2>2, FetchStep, ExamineStep, EndStep, FailStep
  <2>3. ASSUME Change PROVE Listings'
    BY <2>3, ChangeStep
  <2>4. ASSUME UNCHANGED vars PROVE Listings'
    BY <2>4, IdleStep
  <2> QED BY <2>1, <2>2, <2>3, <2>4 DEF Next
<1> QED BY <1>1, <1>2 DEF ListingInv, Listings

\* It holds at the start.
LEMMA ListingsBegin == Init => ListingInv
<1> SUFFICES ASSUME Init PROVE ListingInv
  OBVIOUS
<1>1. StoresInv
  BY StoresBegin DEF Init
<1>2. NoRemoteViews
  <2>1. views = [s \in Store |-> [i \in OwnIdent |-> None]] /\ Remote \subseteq Store
    BY FederationAssumption DEF Init, StoresInit, Store
  <2> QED BY <2>1 DEF NoRemoteViews
<1>3. Given
  BY ListingAssumption DEF Init, Given, Name
<1>4. /\ asking = [c \in Client |-> NoRequest] /\ got = [c \in Client |-> <<>>]
      /\ there = [c \in Client |-> {}] /\ disturbed = [c \in Client |-> {}]
  BY DEF Init
<1>5. ASSUME NEW c \in Client PROVE Following(c)
  <2>1. asking[c] = NoRequest /\ got[c] = <<>>
    BY <1>4
  <2>2. Formed(NoRequest) /\ NoRequest.phase = "none"
    BY DEF Formed, NoRequest, EmptyPage
  <2> QED BY <2>1, <2>2, NoNames DEF Following, Followed, Asked, Idle, Open, Under
<1> QED BY <1>1, <1>2, <1>3, <1>4, <1>5 DEF ListingInv

\* And it is what a client relies on.
LEMMA NothingSkippedOrRepeated == ListingInv => EveryNameOnce
<1> SUFFICES ASSUME ListingInv, NEW c \in Client PROVE NothingSkipped(c) /\ NothingRepeated(c)
  BY DEF EveryNameOnce
<1> DEFINE q == asking[c]
<1>1. /\ Following(c) /\ (q.phase = "none" <=> q.what = None)
      /\ q.phase = "none" => got[c] = <<>>
  BY OfSomething DEF ListingInv
<1>2. q.phase # "none" /\ Source(q.what) = "remote" => OfRemote(c)
  BY <1>1 DEF Source, OfRemote
<1>3. NothingSkipped(c)
  <2>1. SUFFICES ASSUME q.phase = "ended",
                        OfRemote(c) => scenario.manner = "pages" /\ "dropped" \notin disturbed[c],
                        NEW n \in there[c], CanSee(q.what, n)
                 PROVE  \E i \in DOMAIN got[c] : got[c][i] = n
    BY DEF NothingSkipped
  <2>2. there[c] \ scenario.hidden \subseteq Range(got[c])
    BY <1>1, <1>2, <2>1 DEF Following, Followed, NoneLost
  <2>3. n \notin scenario.hidden
    BY <2>1 DEF CanSee
  <2> QED BY <2>2, <2>3 DEF Range
<1>4. NothingRepeated(c)
  <2>1. SUFFICES ASSUME OfRemote(c) => disturbed[c] = {} PROVE IsInjective(got[c])
    BY DEF NothingRepeated, IsInjective
  <2>2. CASE q.phase = "none"
    BY <1>1, <2>2, NoNames
  <2>3. CASE q.phase # "none"
    BY <1>1, <1>2, <2>1, <2>3 DEF Following, Followed, NoneTwice
  <2> QED BY <2>2, <2>3
<1> QED BY <1>3, <1>4

\* A listing followed to its end has shown once, and once only, every name that was there all
\* the time and that the client may see, whatever is hidden from it, whatever is created or
\* dropped meanwhile and whatever sizes its pages are asked for (collect_page's cursors,
\* pagination.rs:180, list_root's two phases, federated.rs:195, and repage, rest.rs:443, within
\* what EveryNameOnce says of a remote), for any mounts, names, rows, page sizes and clients,
\* and any names that a scan does not miss: redb.rs:516 ends one at U+FFFF.
THEOREM EveryNameOnceHolds == ASSUME WholeScans PROVE Spec => []EveryNameOnce
<1>1. Init => ListingInv
  BY ListingsBegin
<1>2. ListingInv /\ [Next]_vars => ListingInv'
  BY ListingsStep
<1>3. ListingInv => EveryNameOnce
  BY NothingSkippedOrRepeated
<1> QED BY <1>1, <1>2, <1>3, PTL DEF Spec
=============================================================================
