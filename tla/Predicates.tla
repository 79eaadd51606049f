------------------------------ MODULE Predicates ------------------------------
(***************************************************************************)
(* Filters over a table's rows, in the JSON form a client sends with a     *)
(* scan and a policy author attaches to a permit, and the three ways the   *)
(* catalog reads them: a client's filter is widened where it cannot be     *)
(* bound (src/predicate.rs), a policy's is refused, and a policy's is      *)
(* rewritten to field ids for the reader to apply                          *)
(* (src/catalog/v1/restrictions.rs).                                       *)
(*                                                                         *)
(* Reading a filter gives the set of rows it selects, or None for an       *)
(* error.  Comparisons are all "eq": which rows a comparison selects is    *)
(* Iceberg's business, whether it can be bound to a column is this code's. *)
(***************************************************************************)
EXTENDS Naturals, FiniteSets

CONSTANTS
  Field,         \* the table's field ids
  Primitive,     \* those of them a filter can compare
  Name,          \* full column names
  Fold,          \* [Name -> Name]: the lower-case spelling
  Value,         \* the values a column holds; others do not fit it
  None

ASSUME ColumnsAssumption ==
  /\ Primitive \subseteq Field
  /\ None \notin Field /\ None \notin Name
  /\ Fold \in [Name -> Name]

Row == [Primitive -> Value]

\* A schema gives each field its name, None when the field is not in it.
Schema == [Field -> Name \cup {None}]

\* What a comparison is about: a column by name or by field id, or a transform or
\* function application, which is not a column.
Term == ({"name"} \X Name) \cup ({"id"} \X Nat) \cup {<<"transform">>}

-----------------------------------------------------------------------------
InSchema(schema) == {f \in Field : schema[f] # None}

ExactlyNamed(schema, n) == {f \in InSchema(schema) : schema[f] = n}

NamedInAnyCase(schema, n) == {f \in InSchema(schema) : Fold[schema[f]] = Fold[n]}

\* Schema::field_by_name and its case-insensitive form, under the request's flag.
FieldNamed(schema, n, caseSensitive) ==
  IF caseSensitive THEN ExactlyNamed(schema, n) ELSE NamedInAnyCase(schema, n)

\* The fields a term is bound to: one, or none when the table does not have it.
Resolve(t, schema, caseSensitive) ==
  IF t[1] = "id" THEN InSchema(schema) \cap {t[2]}
                 ELSE FieldNamed(schema, t[2], caseSensitive)

Selects(f, v) == {r \in Row : r[f] = v}

Is(kind, j) == j.type = kind

-----------------------------------------------------------------------------
\* Bug: what cannot be bound is widened to everything, under a negation too.
WidenAlways(positive, strict) == IF strict THEN None ELSE Row

\* What a sub-expression that cannot be bound contributes.
Widen(positive, strict) ==
  IF strict THEN None ELSE IF positive THEN Row ELSE {}

\* A literal the column's type can hold: a comparison with any other is an error.
Fits(v) == v \in Value

\* A comparison: widened when its term is no column, an error when the column is
\* not there or the literal does not fit it.
ParseComparison(j, schema, caseSensitive, positive, strict) ==
  IF j.term = <<"transform">>
    THEN Widen(positive, strict)
    ELSE LET bound == Resolve(j.term, schema, caseSensitive) \cap Primitive
         IN IF bound = {} \/ ~Fits(j.value)
              THEN None
              ELSE UNION {Selects(f, j.value) : f \in bound}

\* The two sides of "and" and "or", either of which may be an error.
Conjoin(l, r) == IF None \in {l, r} THEN None ELSE l \cap r
Disjoin(l, r) == IF None \in {l, r} THEN None ELSE l \cup r

RECURSIVE ParseWithPolarity(_, _, _, _, _)
ParseWithPolarity(j, schema, caseSensitive, positive, strict) ==
  LET part(k, sign) == ParseWithPolarity(k, schema, caseSensitive, sign, strict)
  IN CASE Is("true", j)  -> Row
       [] Is("false", j) -> {}
       [] Is("and", j)   -> Conjoin(part(j.left, positive), part(j.right, positive))
       [] Is("or", j)    -> Disjoin(part(j.left, positive), part(j.right, positive))
       [] Is("not", j)   -> LET child == part(j.child, ~positive)
                            IN IF child = None THEN None ELSE Row \ child
       [] Is("eq", j)    -> ParseComparison(j, schema, caseSensitive, positive, strict)
       [] OTHER          -> Widen(positive, strict)   \* an operator of a newer spec

ParsePredicate(j, schema, caseSensitive) ==
  ParseWithPolarity(j, schema, caseSensitive, TRUE, FALSE)

ParsePolicyPredicate(j, schema, caseSensitive) ==
  ParseWithPolarity(j, schema, caseSensitive, TRUE, TRUE)

\* Run when a policy set is compiled, without a table in hand.
RECURSIVE ValidPolicyFilter(_)
ValidPolicyFilter(j) ==
  CASE j.type \in {"true", "false"} -> TRUE
    [] j.type \in {"and", "or"}     -> ValidPolicyFilter(j.left) /\ ValidPolicyFilter(j.right)
    [] Is("not", j)                 -> ValidPolicyFilter(j.child)
    [] Is("eq", j)                  -> j.term # <<"transform">>
    [] OTHER                        -> FALSE

-----------------------------------------------------------------------------
\* The field a published filter refers to: names are matched exactly if they can
\* be, in any case if not, whatever the request says.
IdReference(t, schema) ==
  IF t[1] = "id" \/ ExactlyNamed(schema, t[2]) # {}
    THEN Resolve(t, schema, TRUE)
    ELSE NamedInAnyCase(schema, t[2])

\* The filter rewritten to field ids.  The literal is handed over as it is: one
\* that does not fit its column selects no row.
RECURSIVE ToIdPredicate(_, _)
ToIdPredicate(j, schema) ==
  CASE Is("true", j)  -> Row
    [] Is("false", j) -> {}
    [] Is("and", j)   -> Conjoin(ToIdPredicate(j.left, schema), ToIdPredicate(j.right, schema))
    [] Is("or", j)    -> Disjoin(ToIdPredicate(j.left, schema), ToIdPredicate(j.right, schema))
    [] Is("not", j)   -> LET child == ToIdPredicate(j.child, schema)
                         IN IF child = None THEN None ELSE Row \ child
    [] Is("eq", j) /\ j.term # <<"transform">> ->
         LET bound == IdReference(j.term, schema)
         IN IF bound = {} THEN None
            ELSE UNION {Selects(f, j.value) : f \in bound \cap Primitive}
    [] OTHER          -> None

\* Permits grant: a caller sees the union of what their filters select, and one
\* that was not read selects nothing.  No filter at all is no restriction.
Union(read) ==
  IF DOMAIN read = {} THEN Row
  ELSE UNION {IF read[j] = None THEN {} ELSE read[j] : j \in DOMAIN read}

\* The policy's half of a scan plan.
PolicyPredicate(filters, schema, caseSensitive) ==
  Union([j \in filters |-> ParsePolicyPredicate(j, schema, caseSensitive)])

\* The filter a reader is told to apply.
RowFilter(filters, schema) == Union([j \in filters |-> ToIdPredicate(j, schema)])

-----------------------------------------------------------------------------
(* What a filter means, to say what the readings above must be.            *)

\* The comparisons of a filter.
RECURSIVE Leaves(_)
Leaves(j) ==
  CASE j.type \in {"and", "or"}     -> Leaves(j.left) \cup Leaves(j.right)
    [] Is("not", j)                 -> Leaves(j.child)
    [] j.type \in {"true", "false"} -> {}
    [] OTHER                        -> {j}

\* A comparison of this grammar with a column the table has, and a fitting literal.
BindsHere(leaf, schema, caseSensitive) ==
  /\ leaf.type = "eq" /\ leaf.term # <<"transform">>
  /\ leaf.value \in Value
  /\ Resolve(leaf.term, schema, caseSensitive) \cap Primitive # {}

\* The comparisons whose rows this catalog does not know.
Unknown(j, schema, caseSensitive) ==
  {leaf \in Leaves(j) : ~BindsHere(leaf, schema, caseSensitive)}

\* The rows a filter selects, if of the unknown comparisons those in holds select
\* every row and the others none.  Filters are about one row at a time, so what is
\* true of each choice of holds is true whatever the comparisons select.
RECURSIVE Meaning(_, _, _, _)
Meaning(j, schema, caseSensitive, holds) ==
  LET of(k) == Meaning(k, schema, caseSensitive, holds)
  IN CASE Is("true", j)  -> Row
       [] Is("false", j) -> {}
       [] Is("and", j)   -> of(j.left) \cap of(j.right)
       [] Is("or", j)    -> of(j.left) \cup of(j.right)
       [] Is("not", j)   -> Row \ of(j.child)
       [] OTHER          ->
            IF BindsHere(j, schema, caseSensitive)
              THEN UNION {Selects(f, j.value) : f \in Resolve(j.term, schema, caseSensitive)}
              ELSE IF j \in holds THEN Row ELSE {}
=============================================================================
