------------------------------- MODULE Triples -------------------------------
(***************************************************************************)
(* The data of TrisDB: terms, triples, query patterns and multisets of     *)
(* triples.  A term is an opaque string; the only one the code tells apart *)
(* is the query wildcard "***" (Utils::kQueryWildcard), which is also a    *)
(* legal component of a stored triple, because the parser turns a "*" of   *)
(* a CREATE into it as it does for a GET or a DELETE.                      *)
(***************************************************************************)
EXTENDS Integers, Functions

CONSTANTS
  Terms,      \* the strings that occur in triples and in query parameters
  Wildcard,   \* the string Utils::kQueryWildcard
  Universe,   \* the triples that clients create
  MaxCopies   \* bound: how many copies of one triple a model lets a store hold

ASSUME WildcardAssumption == Wildcard \in Terms
ASSUME UniverseAssumption == Universe \subseteq Terms \X Terms \X Terms
ASSUME MaxCopiesAssumption == MaxCopies \in Nat

(* Subject, predicate and object: std::get<0>, <1> and <2> of a record.    *)
Positions == 1..3

Patterns == Terms \X Terms \X Terms

AnyTriple == <<Wildcard, Wildcard, Wildcard>>

(* isEqual(s1, s2): the second argument may be the wildcard, the first one *)
(* is always compared literally.                                           *)
isEqual(s1, s2) == s2 = Wildcard \/ s1 = s2

Matches(t, p) == \A i \in Positions : isEqual(t[i], p[i])

-----------------------------------------------------------------------------
(* Multisets.  A std::unordered_multimap keeps every copy of a triple that *)
(* was inserted, in an order the code does not control: only how many      *)
(* copies it holds is kept here.                                           *)
Bags == [Universe -> Nat]

EmptyBag == [t \in Universe |-> 0]

Size(b) == SumFunction(b)

Keep(b, S) == [t \in Universe |-> IF t \in S THEN b[t] ELSE 0]

Erase(b, S) == [t \in Universe |-> IF t \in S THEN 0 ELSE b[t]]

Matching(p) == {t \in Universe : Matches(t, p)}

(* The bags that stay within the bound, and what their size can be.        *)
SmallBags == [Universe -> 0..MaxCopies]

Sizes == {Size(b) : b \in SmallBags}

(* The first n elements of b, in any of the orders they may come in.       *)
Truncations(b, n) ==
  {r \in SmallBags :
      (\A t \in Universe : r[t] <= b[t]) /\ Size(r) = n}

(* Utils::kQueryLimitWildcard: a query without a LIMIT clause.             *)
NoLimit == 0
=============================================================================
