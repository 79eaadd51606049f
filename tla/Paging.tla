------------------------------- MODULE Paging --------------------------------
(***************************************************************************)
(* One page of a listing, from each kind of source: a store's sorted index *)
(* (src/catalog/store.rs), a remote catalog behind a mount                 *)
(* (src/catalog/rest.rs), and the root, where mounts come before the       *)
(* native catalog's namespaces (src/catalog/federated.rs).                 *)
(*                                                                         *)
(* A name is a number, in the order of the index.  A page is its entries,  *)
(* each with the cursor that resumes after it, and the cursor of the next  *)
(* page, None where the source is exhausted.                               *)
(***************************************************************************)
EXTENDS Naturals, FiniteSets, Sequences, SequencesExt

CONSTANTS None, LastName, MaxPageSize,
  PastEnd,    \* names that sort after U+FFFF, where redb.rs ends the scan of a prefix
  RemoteCap   \* a remote may answer with shorter pages than asked

ASSUME PagingAssumption == {LastName, MaxPageSize, RemoteCap} \subseteq Nat \ {0}

EmptyPage == [entries |-> <<>>, next |-> None]

\* The smaller of two numbers.
Least(a, b) == IF a <= b THEN a ELSE b

\* Names, in order.
InOrder ==
  [S \in SUBSET (1..LastName) |->
     [k \in 1..Cardinality(S) |-> CHOOSE x \in S : Cardinality({y \in S : y <= x}) = k]]

\* What sorts after a name, which may be gone.
After(name) == (IF name = None THEN 1 ELSE name + 1)..LastName

RowsAfter(rows, name) == InOrder[After(name) \cap rows]

-----------------------------------------------------------------------------
(* A store's own index                                                     *)

\* The rows found, one more than the limit where there is one.
FromProbe(found, limit) ==
  LET n == Least(Len(found), limit)
  IN [entries |-> [i \in 1..n |-> [item |-> found[i], cursor |-> found[i]]],
      next    |-> IF Len(found) > limit THEN found[limit] ELSE None]

\* What a scan of the index comes by.
InScan(name) == name \notin PastEnd

StorePage(rows, after, limit) == FromProbe(RowsAfter({r \in rows : InScan(r)}, after), limit)

-----------------------------------------------------------------------------
(* A remote catalog                                                        *)

\* What a remote may do with a request for a page: divide its rows into pages of a size up
\* to the one asked for, or answer with no rows and a token, the same one or ever others.
\* Or it may know nothing of pages and answer with all it has.
Manner == {"pages", "stuck", "endless", "whole"}

RemoteAnswer(manner, rows, token, size) ==
  LET rest == RowsAfter(rows, token)
      n    == Least(Len(rest), Least(size, RemoteCap))
  IN CASE manner = "pages" ->
            [items |-> SubSeq(rest, 1, n), next |-> IF Len(rest) > n THEN rest[n] ELSE None]
       [] manner = "stuck"   -> [items |-> <<>>, next |-> 1]
       [] manner = "endless" -> [items |-> <<>>, next |-> IF token = 1 THEN 2 ELSE 1]
       [] manner = "whole"   -> [items |-> RowsAfter(rows, None), next |-> None]

\* A position in a remote listing: the token of a page, and how many of its items have been
\* served.  Anything else restarts the listing.
StartOf(token) == [token |-> token, skip |-> 0]
Resumed(cursor) == IF cursor = None THEN StartOf(None) ELSE cursor

\* A page that came back shorter than the position inside it is served again.
SkipOf(resume, total) == IF resume.skip >= total THEN 0 ELSE resume.skip

\* The last item of a page is resumed with the next page's token, another one with this
\* page's and how far into it.
Repage(answer, resume, limit) ==
  LET total == Len(answer.items)
      skip  == SkipOf(resume, total)
      n     == Least(limit, total - skip)
      at(i) == IF i = total /\ answer.next # None THEN StartOf(answer.next)
               ELSE [resume EXCEPT !.skip = i]
  IN [entries |-> [k \in 1..n |-> [item |-> answer.items[skip + k], cursor |-> at(skip + k)]],
      next    |-> IF answer.next = None THEN None ELSE StartOf(answer.next)]

\* Bug: what is skipped is not asked for on top.
LimitAlone(resume, limit) == Least(limit, MaxPageSize)

\* How many rows to ask for, so that a page is full after the skip.
PageQuery(resume, limit) == Least(limit + resume.skip, MaxPageSize)

RemotePage(manner, rows, after, limit) ==
  LET resume == Resumed(after)
  IN Repage(RemoteAnswer(manner, rows, resume.token, PageQuery(resume, limit)), resume, limit)

-----------------------------------------------------------------------------
(* The root                                                                *)

RootResumed(cursor) == IF cursor = None THEN [phase |-> "mounts", after |-> None] ELSE cursor

\* Bug: the native catalog is resumed after the last mount's name.
NativeAfterLast(resume, mounts) == IF mounts = <<>> THEN resume.after ELSE Last(mounts)

\* Where the native listing goes on: at its start where the mounts have just ended.
NativeAfter(resume, mounts) == IF resume.phase = "native" THEN resume.after ELSE None

\* Mounts first; what is left of the page from the native catalog, but for names that a
\* mount hides.
RootPage(mounts, rows, after, limit) ==
  LET resume == RootResumed(after)
      mount(m) == [item |-> m, cursor |-> [phase |-> "mounts", after |-> m]]
      native(c) == [phase |-> "native", after |-> c]
      due    == IF resume.phase = "mounts" THEN RowsAfter(mounts, resume.after) ELSE <<>>
      first  == [k \in 1..Least(limit, Len(due)) |-> mount(due[k])]
      page   == StorePage(rows, NativeAfter(resume, due), limit - Len(first))
      shown  == InOrder[{e.item : e \in Range(page.entries)} \ mounts]
  IN IF Len(first) = limit THEN [entries |-> first, next |-> Last(first).cursor]
     ELSE [entries |-> first \o [k \in DOMAIN shown |->
                        [item |-> shown[k], cursor |-> native(shown[k])]],
           next    |-> IF page.next = None THEN None ELSE native(page.next)]
=============================================================================
