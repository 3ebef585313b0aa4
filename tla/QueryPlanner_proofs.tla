------------------------ MODULE QueryPlanner_proofs ------------------------
(***************************************************************************)
(* Theorems about QueryPlanner, for every set of terms and triples and     *)
(* every sequence of statements, and about its files.                      *)
(*                                                                         *)
(* The argument turns on one lemma, RemoveErasesMatching: on multimaps     *)
(* that agree, TripleMap::remove leaves in each of them everything but     *)
(* what the pattern matches.  The helpers that carry a removal over to the *)
(* two other multimaps treat the components of the removed entry as a      *)
(* pattern, so an entry with a stored wildcard removes its neighbours too. *)
(* That does no harm: such an entry was matched by p only where p itself   *)
(* has the wildcard, so p matches those neighbours as well.                *)
(***************************************************************************)
EXTENDS Snapshot, Recursion, FiniteSetTheorems

LEMMA PositionsAre == Positions = {1, 2, 3}
BY DEF Positions

(* A triple matched by the components of an entry that p matches is itself *)
(* matched by p.                                                           *)
LEMMA MatchesTransitive ==
  ASSUME NEW t, NEW e, NEW p, Matches(t, e), Matches(e, p)
  PROVE  Matches(t, p)
BY DEF Matches, isEqual

(* The walk over multimap i erases what p matches, from every multimap.    *)
LEMMA RemoveByErasesMatching ==
  ASSUME NEW mm \in Maps, Agree(mm), NEW p \in Patterns,
         NEW i \in Positions, p[i] # Wildcard
  PROVE  removeBy(mm, i, p) = [j \in Positions |-> Erase(mm[j], Matching(p))]
<1> DEFINE found == {e \in EqualRange(mm, i, p[i]) :
                        \A j \in Positions \ {i} : isEqual(e[j], p[j])}
           gone(j) == UNION {removeFrom(mm, j, e) : e \in found}
<1>1. found = {e \in Matching(p) : mm[i][e] > 0}
  BY DEF EqualRange, Matching, Matches, isEqual
<1>2. ASSUME NEW j \in Positions, NEW S,
             \A t \in Universe : t \in S => t \in Matching(p),
             \A t \in Matching(p) : mm[j][t] > 0 => t \in S
      PROVE  Erase(mm[j], S) = Erase(mm[j], Matching(p))
  <2>1. \A t \in Universe : mm[j][t] \in Nat
    BY DEF Maps, Bags
  <2>2. \A t \in Universe :
           (IF t \in S THEN 0 ELSE mm[j][t])
             = (IF t \in Matching(p) THEN 0 ELSE mm[j][t])
    BY <1>2, <2>1
  <2> QED BY <2>2 DEF Erase
<1>3. Erase(mm[i], found) = Erase(mm[i], Matching(p))
  BY <1>1, <1>2
<1>4. ASSUME NEW j \in Positions \ {i}
      PROVE  Erase(mm[j], gone(j)) = Erase(mm[j], Matching(p))
  <2>1. ASSUME NEW t \in Universe, t \in gone(j)
        PROVE  t \in Matching(p)
    <3>1. PICK e \in found : t \in removeFrom(mm, j, e)
      BY <2>1
    <3>2. Matches(t, e)
      BY <3>1 DEF removeFrom, EqualRange, Matches, isEqual
    <3>3. Matches(e, p)
      BY <1>1, <3>1 DEF Matching
    <3> QED BY <3>2, <3>3, MatchesTransitive DEF Matching
  <2>2. ASSUME NEW t \in Matching(p), mm[j][t] > 0
        PROVE  t \in gone(j)
    <3>1. mm[i][t] > 0
      BY <2>2 DEF Agree
    <3>2. t \in found
      BY <1>1, <3>1
    <3>3. t \in removeFrom(mm, j, t)
      BY <2>2 DEF removeFrom, EqualRange, isEqual, Matching
    <3> QED BY <3>2, <3>3
  <2> QED BY <1>2, <2>1, <2>2
<1>5. removeBy(mm, i, p) =
        [j \in Positions |->
           IF j = i THEN Erase(mm[j], found) ELSE Erase(mm[j], gone(j))]
  BY DEF removeBy
<1> HIDE DEF found, gone
<1>6. \A j \in Positions :
         (IF j = i THEN Erase(mm[j], found) ELSE Erase(mm[j], gone(j)))
           = Erase(mm[j], Matching(p))
  BY <1>3, <1>4
<1> QED BY <1>5, <1>6

(* A pattern of three wildcards matches every triple.                      *)
LEMMA AllWildcardsMatchAll ==
  ASSUME NEW p, \A i \in Positions : p[i] = Wildcard
  PROVE  Matching(p) = Universe
BY DEF Matching, Matches, isEqual

LEMMA RemoveErasesMatching ==
  ASSUME NEW mm \in Maps, Agree(mm), NEW p \in Patterns
  PROVE  remove(mm, p) = [j \in Positions |-> Erase(mm[j], Matching(p))]
<1>1. CASE \E i \in Positions : p[i] # Wildcard
  BY <1>1, RemoveByErasesMatching, PositionsAre DEF remove
<1>2. CASE \A i \in Positions : p[i] = Wildcard
  <2>1. remove(mm, p) = emptyMap
    BY <1>2, PositionsAre DEF remove, clearAll
  <2>2. \A j \in Positions : Erase(mm[j], Matching(p)) = EmptyBag
    BY <1>2, AllWildcardsMatchAll DEF Erase, EmptyBag
  <2> QED BY <2>1, <2>2 DEF emptyMap
<1> QED BY <1>1, <1>2

-----------------------------------------------------------------------------
(* The inductive invariant: the bound on the copies carries over from the  *)
(* subject index, the one Create tests, to the others because they agree.  *)
Inv == TypeOK /\ IndexesAgree

LEMMA InvIsMap ==
  ASSUME Inv
  PROVE  m \in Maps /\ \A i \in Positions : m[i] = m[1] /\ m[i] \in SmallBags
BY MaxCopiesAssumption, PositionsAre
   DEF Inv, TypeOK, IndexesAgree, Agree, Maps, Bags, SmallBags

LEMMA SmallBagsClosed ==
  ASSUME NEW b \in SmallBags, NEW S
  PROVE  Keep(b, S) \in SmallBags /\ Erase(b, S) \in SmallBags
BY MaxCopiesAssumption DEF SmallBags, Keep, Erase

LEMMA EmptyBagIsSmall == EmptyBag \in SmallBags
BY MaxCopiesAssumption DEF SmallBags, EmptyBag

LEMMA TruncationsAreSmall ==
  ASSUME NEW b, NEW n, NEW r \in Truncations(b, n)
  PROVE  r \in SmallBags
BY DEF Truncations

(* After a DELETE the multimaps agree again, and none has grown.           *)
LEMMA RemoveKeepsInv ==
  ASSUME Inv, NEW p \in Patterns
  PROVE  /\ remove(m, p) \in [Positions -> SmallBags]
         /\ Agree(remove(m, p))
         /\ remove(m, p)[1] = Erase(m[1], Matching(p))
<1>1. remove(m, p) = [j \in Positions |-> Erase(m[1], Matching(p))]
  BY InvIsMap, RemoveErasesMatching DEF Inv, IndexesAgree
<1>2. Erase(m[1], Matching(p)) \in SmallBags
  BY InvIsMap, SmallBagsClosed, PositionsAre
<1> QED BY <1>1, <1>2, PositionsAre DEF Agree

(* The plan leads with a wildcard only when there is nothing else.         *)
LEMMA PlanHeadIsPosition ==
  ASSUME NEW p
  PROVE  /\ PlanHead(p) \in Positions
         /\ p[PlanHead(p)] = Wildcard => \A i \in Positions : p[i] = Wildcard
<1>1. CASE \A i \in Positions : p[i] = Wildcard
  BY <1>1, PositionsAre DEF PlanHead
<1>2. CASE p[3] # Wildcard
  BY <1>2, PositionsAre DEF PlanHead
<1>3. CASE p[3] = Wildcard /\ p[2] # Wildcard
  BY <1>3, PositionsAre DEF PlanHead
<1>4. CASE p[3] = Wildcard /\ p[2] = Wildcard /\ p[1] # Wildcard
  BY <1>4, PositionsAre DEF PlanHead
<1> QED BY <1>1, <1>2, <1>3, <1>4, PositionsAre

LEMMA RequestsAreTyped ==
  /\ \A k \in {"none", "clear", "count", "save"} : Bare(k) \in Requests
  /\ \A k \in {"create", "get", "delete"}, p \in Patterns, n \in {NoLimit} \cup Limits :
        <<k, p, n>> \in Requests
  /\ Universe \subseteq Patterns
BY WildcardAssumption, UniverseAssumption
   DEF Requests, Bare, AnyTriple, Patterns

LEMMA InitInv == Init => Inv
BY EmptyBagIsSmall, RequestsAreTyped
   DEF Init, Inv, TypeOK, IndexesAgree, Agree, emptyMap, NoRows, Rows

LEMMA StepInv == Inv /\ [execute]_vars => Inv'
<1> SUFFICES ASSUME Inv, [execute]_vars PROVE Inv'
  OBVIOUS
<1> USE DEF Inv, TypeOK, IndexesAgree
<1>1. NoRows \in [rows : SmallBags, count : {0} \cup Sizes]
  BY EmptyBagIsSmall DEF NoRows, Rows
<1>2. ASSUME NEW t \in Universe, Create(t) PROVE Inv'
  <2>1. m[1][t] + 1 \in 0..MaxCopies
    BY <1>2, InvIsMap, PositionsAre, MaxCopiesAssumption DEF Create, SmallBags
  <2>2. \A i \in Positions : add(m, t)[i] = [m[1] EXCEPT ![t] = @ + 1]
    BY InvIsMap DEF add
  <2>3. [m[1] EXCEPT ![t] = @ + 1] \in SmallBags
    BY <2>1, InvIsMap, PositionsAre DEF SmallBags
  <2>4. add(m, t) \in [Positions -> SmallBags]
    BY <2>2, <2>3 DEF add
  <2>5. request' \in Requests
    BY <1>2, RequestsAreTyped DEF Create
  <2> QED BY <1>1, <1>2, <2>2, <2>4, <2>5 DEF Create, Agree
<1>3. ASSUME NEW p \in Patterns, NEW n \in Limits, Get(p, n) PROVE Inv'
  <2>1. PICK b : /\ reply' = Rows(b)
                 /\ b \in IF p[PlanHead(p)] = Wildcard
                             THEN getAllRows(n)
                             ELSE getMatchingRows(PlanHead(p), p, n)
    BY <1>3 DEF Get
  <2>2. PlanHead(p) \in Positions
    BY PlanHeadIsPosition
  <2>3. b \in SmallBags
    BY <2>1, <2>2, InvIsMap, SmallBagsClosed, TruncationsAreSmall, PositionsAre
       DEF getAllRows, getMatchingRows, getAll, getIndex
  <2>4. request' \in Requests
    BY <1>3, RequestsAreTyped DEF Get
  <2> QED BY <1>3, <2>1, <2>3, <2>4 DEF Get, Rows
<1>4. ASSUME NEW p \in Patterns, Delete(p) PROVE Inv'
  BY <1>1, <1>4, RemoveKeepsInv, RequestsAreTyped DEF Delete
<1>5. CASE Clear
  BY <1>1, <1>5, EmptyBagIsSmall, RequestsAreTyped
     DEF Clear, clearAll, emptyMap, Agree
<1>6. CASE Count
  BY <1>6, InvIsMap, EmptyBagIsSmall, PositionsAre, RequestsAreTyped
     DEF Count, Number, getCount, Sizes
<1>7. CASE Save
  BY <1>1, <1>7, RequestsAreTyped DEF Save
<1>8. CASE Quit
  BY <1>8 DEF Quit
<1>9. CASE UNCHANGED vars
  BY <1>9 DEF vars
<1> QED BY <1>2, <1>3, <1>4, <1>5, <1>6, <1>7, <1>8, <1>9 DEF execute

LEMMA InvAlways == Spec => []Inv
BY InitInv, StepInv, PTL DEF Spec

(* The multimaps hold triples clients created, within the bound, and every *)
(* reply is made of such rows or is a count.                               *)
THEOREM TypeCorrect == Spec => []TypeOK
BY InvAlways, PTL DEF Inv

(* The three multimaps never drift apart, whatever terms are stored,       *)
(* wildcards among them, and whatever patterns are deleted.                *)
THEOREM IndexesAlwaysAgree == Spec => []IndexesAgree
BY InvAlways, PTL DEF Inv

-----------------------------------------------------------------------------
(* The abstract store speaks of the same bags.                             *)
LEMMA StoreSize == \A b : Store!Size(b) = Size(b)
BY DEF Store!Size, Size, Store!SumFunction, SumFunction,
       Store!SumFunctionOnSet, SumFunctionOnSet,
       Store!FoldFunction, FoldFunction,
       Store!FoldFunctionOnSet, FoldFunctionOnSet,
       Store!MapThenFoldSet, MapThenFoldSet

LEMMA StoreOperators ==
  /\ Store!EmptyBag = EmptyBag
  /\ Store!NoRows = NoRows
  /\ \A b : Store!Rows(b) = Rows(b)
  /\ \A n : Store!Number(n) = Number(n)
  /\ \A p : Store!Matching(p) = Matching(p)
  /\ \A b, S : Store!Keep(b, S) = Keep(b, S)
  /\ \A b, S : Store!Erase(b, S) = Erase(b, S)
  /\ \A b : Store!Size(b) = Size(b)
  /\ \A b, n : Store!Truncations(b, n) = Truncations(b, n)
  /\ Store!Patterns = Patterns
  /\ Store!NoLimit = NoLimit
  /\ \A k : Store!Bare(k) = Bare(k)
BY StoreSize
   DEF Store!EmptyBag, EmptyBag, Store!NoRows, NoRows, Store!Rows, Rows,
       Store!Number, Number, Store!Matching, Matching, Store!Matches, Matches,
       Store!isEqual, isEqual, Store!Positions, Positions, Store!Keep, Keep,
       Store!Erase, Erase, Store!Truncations, Truncations,
       Store!SmallBags, SmallBags, Store!Patterns, Patterns,
       Store!NoLimit, NoLimit, Store!Bare, Bare, Store!AnyTriple, AnyTriple

(* The rows of the multimap the plan picks, under the key it looks up,     *)
(* hold every matching triple of the subject index.                        *)
LEMMA PlanFindsAll ==
  ASSUME Inv, NEW p \in Patterns, NEW i \in Positions, p[i] # Wildcard
  PROVE  Keep(getIndex(m, i, p[i]), Matching(p)) = Keep(m[1], Matching(p))
<1>1. m[i] = m[1] /\ \A t \in Universe : m[1][t] \in Nat
  BY InvIsMap, PositionsAre, MaxCopiesAssumption DEF SmallBags
<1>2. \A t \in Matching(p) : t[i] = p[i]
  BY DEF Matching, Matches, isEqual
<1>3. \A t \in Universe :
         (IF t \in Matching(p)
            THEN IF t \in EqualRange(m, i, p[i]) THEN m[i][t] ELSE 0
            ELSE 0)
           = (IF t \in Matching(p) THEN m[1][t] ELSE 0)
  BY <1>1, <1>2 DEF EqualRange
<1> QED BY <1>3 DEF Keep, getIndex

LEMMA InitRefines == Init => Store!Init
BY StoreOperators, PositionsAre DEF Init, Store!Init, emptyMap

LEMMA StepRefines == Inv /\ [execute]_vars => [Store!Next]_(Store!vars)
<1> SUFFICES ASSUME Inv, [execute]_vars PROVE [Store!Next]_(Store!vars)
  OBVIOUS
<1>1. ASSUME NEW t \in Universe, Create(t) PROVE Store!Create(t)
  BY <1>1, StoreOperators, PositionsAre DEF Create, Store!Create, add
<1>2. ASSUME NEW p \in Patterns, NEW n \in Limits, Get(p, n)
      PROVE  Store!Get(p, n)
  <2> DEFINE i == PlanHead(p)
             found == Keep(m[1], Matching(p))
             answers == IF n > 0 /\ ~(Size(found) <= n)
                          THEN Truncations(found, n) ELSE {found}
  <2>1. n \in Int
    BY LimitsAssumption
  <2>2. (IF p[i] = Wildcard THEN getAllRows(n) ELSE getMatchingRows(i, p, n))
          = answers
    <3>1. CASE p[i] = Wildcard
      <4>1. found = m[1]
        <5>1. Matching(p) = Universe
          BY <3>1, PlanHeadIsPosition, AllWildcardsMatchAll
        <5> QED BY <5>1, InvIsMap, PositionsAre DEF Keep, SmallBags
      <4> QED BY <2>1, <3>1, <4>1 DEF getAllRows, getAll, NoLimit
    <3>2. CASE p[i] # Wildcard
      <4>1. Keep(getIndex(m, i, p[i]), Matching(p)) = found
        BY <3>2, PlanFindsAll, PlanHeadIsPosition
      <4> QED BY <2>1, <3>2, <4>1 DEF getMatchingRows, NoLimit
    <3> QED BY <3>1, <3>2
  <2>3. PICK b \in answers : reply' = Rows(b)
    BY <1>2, <2>2 DEF Get
  <2>4. m' = m /\ request' = <<"get", p, n>>
    BY <1>2 DEF Get
  <2> QED BY <2>3, <2>4, StoreOperators DEF Store!Get
<1>3. ASSUME NEW p \in Patterns, Delete(p) PROVE Store!Delete(p)
  BY <1>3, RemoveKeepsInv, StoreOperators DEF Delete, Store!Delete
<1>4. CASE Clear
  BY <1>4, StoreOperators, PositionsAre
     DEF Clear, clearAll, emptyMap, Store!Clear, Store!Next
<1>5. CASE Count
  BY <1>5, StoreOperators DEF Count, getCount, Store!Count, Store!Next
<1>6. CASE Save
  BY <1>6, StoreOperators DEF Save, Store!Save, Store!Next
<1>7. CASE Quit
  BY <1>7 DEF Quit, Store!vars
<1>8. CASE UNCHANGED vars
  BY <1>8 DEF vars, Store!vars
<1> QED
  BY <1>1, <1>2, <1>3, <1>4, <1>5, <1>6, <1>7, <1>8, StoreOperators
     DEF execute, Store!Next

(* Three multimaps, the query plan and the early exits of GET behave as    *)
(* one multiset of triples: every step of the planner is a step of the     *)
(* abstract store, or changes nothing of it.                               *)
THEOREM PlannerRefinesStore == Spec => RefinesStore
BY InitRefines, StepRefines, InvAlways, PTL DEF Spec, RefinesStore, Store!Spec

-----------------------------------------------------------------------------
(***************************************************************************)
(* That a database survives its files, for every store, every size of a    *)
(* size_type and every length of a term.                                   *)
(***************************************************************************)
(* The stream of several parts.                                            *)
LEMMA OutputDef ==
  ASSUME NEW S, NEW parts \in Seq(Seq(S))
  PROVE  \E upTo \in [0..Len(parts) -> Seq(S)] :
           /\ upTo[0] = <<>>
           /\ \A i \in 1..Len(parts) : upTo[i] = upTo[i - 1] \o parts[i]
           /\ Output(parts) = upTo[Len(parts)]
<1> DEFINE n == Len(parts)
           T == Seq(S)
           c == <<>>
           step == [i \in 1..n |-> [x \in T |-> x \o parts[i]]]
           Def(f) == f = [i \in 0..n |-> IF i = 0 THEN <<>> ELSE f[i - 1] \o parts[i]]
           upTo == CHOOSE f : Def(f)
<1>1. n \in Nat /\ \A i \in 1..n : parts[i] \in T
  OBVIOUS
<1>2. \A x, y \in T : x \o y \in T
  OBVIOUS
<1>3. <<>> \in T
  OBVIOUS
<1>4. Output(parts) = upTo[n]
  BY DEF Output
<1> HIDE DEF n, T
<1>5. PICK f : FollowsSteps(f, n, T, c, step)
  <2>1. step \in [1..n -> [T -> T]] /\ c \in T
    BY <1>1, <1>2, <1>3
  <2> HIDE DEF step, c
  <2> QED
    BY <1>1, <2>1, FunctionOfSteps
<1>6. /\ f \in [0..n -> T] /\ f[0] = <<>>
       /\ \A i \in 1..n : f[i] = step[i][f[i - 1]]
  BY <1>5 DEF FollowsSteps
<1> HIDE DEF c
<1>7. \A i \in 1..n : f[i] = f[i - 1] \o parts[i]
  <2> TAKE i \in 1..n
  <2>1. i - 1 \in 0..n
    BY <1>1
  <2>2. f[i - 1] \in T
    BY <1>6, <2>1
  <2> QED
    BY <1>6, <2>2
<1>8. Def(f)
  <2> DEFINE g == [i \in 0..n |-> IF i = 0 THEN <<>> ELSE f[i - 1] \o parts[i]]
  <2>1. ASSUME NEW i \in 0..n
        PROVE  f[i] = g[i]
    <3>1. CASE i = 0
      BY <1>6, <3>1
    <3>2. CASE i # 0
      <4>1. i \in 1..n
        BY <1>1, <3>2
      <4> QED
        BY <1>7, <3>2, <4>1
    <3> QED
      BY <3>1, <3>2
  <2>2. DOMAIN f = 0..n
    BY <1>6
  <2> QED
    BY <1>6, <2>1, <2>2
<1>9. Def(upTo)
  <2> HIDE DEF Def
  <2> QED
    BY <1>8, Zenon
<1> HIDE DEF upTo
<1>10. /\ upTo[0] = <<>>
      /\ \A i \in 1..n : upTo[i] = upTo[i - 1] \o parts[i]
  <2>1. 0 \in 0..n /\ \A i \in 1..n : i \in 0..n /\ i # 0
    BY <1>1
  <2> QED
    BY <1>9, <2>1
<1>11. \A i \in 0..n : upTo[i] \in T
  <2>1. ASSUME NEW i \in 1..n, upTo[i - 1] \in T
        PROVE  upTo[i] \in T
    BY <1>1, <1>2, <1>10, <2>1
  <2>2. upTo[0] \in T
    BY <1>3, <1>10
  <2> QED
    BY <1>1, <2>1, <2>2, StepsKeep
<1>12. upTo \in [0..n -> T]
  BY <1>9, <1>11
<1> QED
  BY <1>4, <1>10, <1>12 DEF n, T

-----------------------------------------------------------------------------
(* Numbers: what is left of a number after each of its bytes.              *)
LEMMA SizeBytesIs == SizeBytes \in Nat /\ SizeBytes >= 1
BY SizeBytesAssumption

LEMMA LimitDef ==
  \E power \in [0..SizeBytes -> Nat] :
    /\ power[0] = 1
    /\ \A i \in 1..SizeBytes : power[i] = 256 * power[i - 1]
    /\ SizeLimit = power[SizeBytes]
<1> DEFINE n == SizeBytes
           step == [i \in 1..n |-> [x \in Nat |-> 256 * x]]
           Def(f) == f = [i \in 0..n |-> IF i = 0 THEN 1 ELSE 256 * f[i - 1]]
           power == CHOOSE f : Def(f)
<1>1. n \in Nat /\ 1 \in Nat /\ 0 \in 0..n /\ n \in 0..n
  BY SizeBytesIs
<1>2. SizeLimit = power[n]
  BY DEF SizeLimit
<1> HIDE DEF n
<1>3. PICK f : FollowsSteps(f, n, Nat, 1, step)
  <2>1. step \in [1..n -> [Nat -> Nat]]
    OBVIOUS
  <2> HIDE DEF step
  <2> QED
    BY <1>1, <2>1, FunctionOfSteps
<1>4. f \in [0..n -> Nat] /\ f[0] = 1 /\ \A i \in 1..n : f[i] = step[i][f[i - 1]]
  BY <1>3 DEF FollowsSteps
<1>5. Def(f)
  <2>1. ASSUME NEW i \in 0..n
        PROVE  f[i] = IF i = 0 THEN 1 ELSE 256 * f[i - 1]
    <3>1. CASE i = 0
      BY <1>4, <3>1
    <3>2. CASE i # 0
      <4>1. i \in 1..n /\ i - 1 \in 0..n
        BY <1>1, <3>2
      <4>2. f[i - 1] \in Nat
        BY <1>4, <4>1
      <4> QED
        BY <1>4, <3>2, <4>1, <4>2
    <3> QED
      BY <3>1, <3>2
  <2> QED
    BY <1>4, <2>1
<1>6. Def(power)
  <2> HIDE DEF Def
  <2> QED
    BY <1>5, Zenon
<1> HIDE DEF power
<1>7. power[0] = 1 /\ \A i \in 1..n : power[i] = 256 * power[i - 1]
  <2>1. \A i \in 1..n : i \in 0..n /\ i # 0
    BY <1>1
  <2> QED
    BY <1>1, <1>6, <2>1
<1>8. \A i \in 0..n : power[i] \in Nat
  <2>1. ASSUME NEW i \in 1..n, power[i - 1] \in Nat
        PROVE  power[i] \in Nat
    BY <1>7, <2>1
  <2>2. power[0] \in Nat
    BY <1>7
  <2> QED
    BY <1>1, <2>1, <2>2, StepsKeep
<1>9. power \in [0..n -> Nat]
  BY <1>6, <1>8
<1> QED
  BY <1>2, <1>7, <1>9 DEF n

LEMMA ShiftsDef ==
  ASSUME NEW number \in Nat
  PROVE  /\ Shifts(number) \in [0..SizeBytes -> Nat]
         /\ Shifts(number)[0] = number
         /\ \A i \in 1..SizeBytes :
              Shifts(number)[i] = Shifts(number)[i - 1] \div 256
<1> DEFINE n == SizeBytes
           step == [i \in 1..n |-> [x \in Nat |-> x \div 256]]
           Def(f) == f = [i \in 0..n |-> IF i = 0 THEN number ELSE f[i - 1] \div 256]
           rest == CHOOSE f : Def(f)
<1>1. n \in Nat /\ 0 \in 0..n
  BY SizeBytesIs
<1>2. Shifts(number) = rest
  BY DEF Shifts
<1> HIDE DEF n
<1>3. PICK f : FollowsSteps(f, n, Nat, number, step)
  <2>1. step \in [1..n -> [Nat -> Nat]]
    OBVIOUS
  <2> HIDE DEF step
  <2> QED
    BY <1>1, <2>1, FunctionOfSteps
<1>4. f \in [0..n -> Nat] /\ f[0] = number /\ \A i \in 1..n : f[i] = step[i][f[i - 1]]
  BY <1>3 DEF FollowsSteps
<1>5. Def(f)
  <2>1. ASSUME NEW i \in 0..n
        PROVE  f[i] = IF i = 0 THEN number ELSE f[i - 1] \div 256
    <3>1. CASE i = 0
      BY <1>4, <3>1
    <3>2. CASE i # 0
      <4>1. i \in 1..n /\ i - 1 \in 0..n
        BY <1>1, <3>2
      <4>2. f[i - 1] \in Nat
        BY <1>4, <4>1
      <4> QED
        BY <1>4, <3>2, <4>1, <4>2
    <3> QED
      BY <3>1, <3>2
  <2> QED
    BY <1>4, <2>1
<1>6. Def(rest)
  <2> HIDE DEF Def
  <2> QED
    BY <1>5, Zenon
<1> HIDE DEF rest
<1>7. rest[0] = number /\ \A i \in 1..n : rest[i] = rest[i - 1] \div 256
  <2>1. \A i \in 1..n : i \in 0..n /\ i # 0
    BY <1>1
  <2> QED
    BY <1>1, <1>6, <2>1
<1>8. \A i \in 0..n : rest[i] \in Nat
  <2>1. ASSUME NEW i \in 1..n, rest[i - 1] \in Nat
        PROVE  rest[i] \in Nat
    BY <1>7, <2>1
  <2>2. rest[0] \in Nat
    BY <1>7
  <2> QED
    BY <1>1, <2>1, <2>2, StepsKeep
<1>9. rest \in [0..n -> Nat]
  BY <1>6, <1>8
<1> QED
  BY <1>2, <1>7, <1>9 DEF n

(* Nothing is left of a number that a size_type holds after all its bytes. *)
LEMMA NothingLeft ==
  ASSUME NEW number \in Nat, number < SizeLimit
  PROVE  Shifts(number)[SizeBytes] = 0
<1> DEFINE n == SizeBytes
           rest == Shifts(number)
<1>1. n \in Nat /\ 0 \in 0..n /\ n \in 0..n
  BY SizeBytesIs
<1>2. PICK power \in [0..n -> Nat] :
        /\ power[0] = 1
        /\ \A i \in 1..n : power[i] = 256 * power[i - 1]
        /\ SizeLimit = power[n]
  BY LimitDef
<1>3. /\ rest \in [0..n -> Nat] /\ rest[0] = number
      /\ \A i \in 1..n : rest[i] = rest[i - 1] \div 256
  BY ShiftsDef
<1> HIDE DEF n, rest
<1> DEFINE T == {i \in 0..n : rest[i] < power[n - i]}
<1>4. 0 \in T
  BY <1>1, <1>2, <1>3
<1>5. ASSUME NEW k \in 0..(n - 1), k \in T
      PROVE  k + 1 \in T
  <2>1. /\ k + 1 \in 1..n /\ k + 1 - 1 = k /\ k \in 0..n /\ k + 1 \in 0..n
        /\ n - k \in 1..n /\ n - k - 1 = n - (k + 1) /\ n - (k + 1) \in 0..n
    BY <1>1
  <2>2. rest[k + 1] = rest[k] \div 256
    BY <1>3, <2>1
  <2>3. power[n - k] = 256 * power[n - (k + 1)]
    BY <1>2, <2>1
  <2>4. rest[k] \in Nat /\ power[n - (k + 1)] \in Nat /\ rest[k] < power[n - k]
    BY <1>2, <1>3, <1>5, <2>1
  <2>5. \A x, y \in Nat : x < 256 * y => x \div 256 < y
    OBVIOUS
  <2>6. rest[k + 1] < power[n - (k + 1)]
    BY <2>2, <2>3, <2>4, <2>5
  <2> QED
    BY <2>1, <2>6
<1>6. \A k \in 0..n : k \in T
  <2> HIDE DEF T
  <2> QED
    BY <1>1, <1>4, <1>5, Induction
<1>7. rest[n] < power[n - n] /\ n - n = 0 /\ rest[n] \in Nat
  BY <1>1, <1>3, <1>6
<1> QED
  BY <1>2, <1>7 DEF n, rest

(* What the bytes of a memory spell.                                       *)
LEMMA FromMemoryDef ==
  ASSUME NEW data \in Seq(Bytes)
  PROVE  \E top \in [0..Len(data) -> Nat] :
           /\ top[0] = 0
           /\ \A k \in 1..Len(data) :
                top[k] = 256 * top[k - 1] + data[Len(data) - k + 1]
           /\ FromMemory(data) = top[Len(data)]
<1> DEFINE n == Len(data)
           step == [k \in 1..n |-> [x \in Nat |-> 256 * x + data[n - k + 1]]]
           Def(f) == f = [k \in 0..n |-> IF k = 0 THEN 0
                                         ELSE 256 * f[k - 1] + data[n - k + 1]]
           top == CHOOSE f : Def(f)
<1>1. n \in Nat /\ 0 \in 0..n
  OBVIOUS
<1>2. \A k \in 1..n : data[n - k + 1] \in Nat
  <2> TAKE k \in 1..n
  <2>1. n - k + 1 \in 1..n
    OBVIOUS
  <2>2. data[n - k + 1] \in Bytes
    BY <2>1
  <2>3. Bytes \subseteq Nat
    BY DEF Bytes
  <2> HIDE DEF n
  <2> QED
    BY <2>2, <2>3
<1>3. FromMemory(data) = top[n]
  BY DEF FromMemory
<1> HIDE DEF n
<1>4. PICK f : FollowsSteps(f, n, Nat, 0, step)
  <2>1. step \in [1..n -> [Nat -> Nat]]
    BY <1>2
  <2>2. 0 \in Nat
    OBVIOUS
  <2> HIDE DEF step
  <2> QED
    BY <1>1, <2>1, <2>2, FunctionOfSteps
<1>5. f \in [0..n -> Nat] /\ f[0] = 0 /\ \A k \in 1..n : f[k] = step[k][f[k - 1]]
  BY <1>4 DEF FollowsSteps
<1>6. Def(f)
  <2>1. ASSUME NEW k \in 0..n
        PROVE  f[k] = IF k = 0 THEN 0 ELSE 256 * f[k - 1] + data[n - k + 1]
    <3>1. CASE k = 0
      BY <1>5, <3>1
    <3>2. CASE k # 0
      <4>1. k \in 1..n /\ k - 1 \in 0..n
        BY <1>1, <3>2
      <4>2. f[k - 1] \in Nat
        BY <1>5, <4>1
      <4> QED
        BY <1>5, <3>2, <4>1, <4>2
    <3> QED
      BY <3>1, <3>2
  <2> QED
    BY <1>5, <2>1
<1>7. Def(top)
  <2> HIDE DEF Def
  <2> QED
    BY <1>6, Zenon
<1> HIDE DEF top
<1>8. top[0] = 0 /\ \A k \in 1..n : top[k] = 256 * top[k - 1] + data[n - k + 1]
  <2>1. \A k \in 1..n : k \in 0..n /\ k # 0
    BY <1>1
  <2> QED
    BY <1>1, <1>7, <2>1
<1>9. \A k \in 0..n : top[k] \in Nat
  <2>1. ASSUME NEW k \in 1..n, top[k - 1] \in Nat
        PROVE  top[k] \in Nat
    BY <1>2, <1>8, <2>1
  <2>2. top[0] \in Nat
    BY <1>8
  <2> QED
    BY <1>1, <2>1, <2>2, StepsKeep
<1>10. top \in [0..n -> Nat]
  BY <1>7, <1>9
<1> QED
  BY <1>3, <1>8, <1>10 DEF n

LEMMA FromMemoryIs ==
  ASSUME NEW data \in Seq(Bytes)
  PROVE  FromMemory(data) \in Nat /\ (data = <<>> => FromMemory(data) = 0)
<1>1. PICK top \in [0..Len(data) -> Nat] :
        top[0] = 0 /\ FromMemory(data) = top[Len(data)]
  BY FromMemoryDef
<1>2. Len(data) \in 0..Len(data) /\ (data = <<>> => Len(data) = 0)
  OBVIOUS
<1> QED
  BY <1>1, <1>2

LEMMA SaveNumberIs ==
  ASSUME NEW number \in Nat
  PROVE  /\ SaveNumber(number) \in Seq(Bytes)
         /\ Len(SaveNumber(number)) = SizeBytes
         /\ \A i \in 1..SizeBytes :
              SaveNumber(number)[i] = Shifts(number)[i - 1] % 256
<1> DEFINE data == [i \in 1..SizeBytes |-> Shifts(number)[i - 1] % 256]
<1>1. ASSUME NEW i \in 1..SizeBytes
      PROVE  Shifts(number)[i - 1] % 256 \in Bytes
  <2>1. i - 1 \in 0..SizeBytes
    BY SizeBytesIs
  <2>2. Shifts(number)[i - 1] \in Nat
    BY <2>1, ShiftsDef
  <2> QED
    BY <2>2 DEF Bytes
<1>2. data \in [1..SizeBytes -> Bytes]
  BY <1>1
<1>3. data \in Seq(Bytes) /\ Len(data) = SizeBytes
  BY <1>2, SizeBytesIs
<1>4. SaveNumber(number) = data
  BY DEF SaveNumber, saveBinary
<1> QED
  BY <1>3, <1>4

(* The bytes of a number spell it.                                         *)
LEMMA NumberIsSpelled ==
  ASSUME NEW number \in Nat, number < SizeLimit
  PROVE  FromMemory(SaveNumber(number)) = number
<1> DEFINE n == SizeBytes
           data == SaveNumber(number)
           rest == Shifts(number)
<1>1. n \in Nat /\ 0 \in 0..n /\ n \in 0..n
  BY SizeBytesIs
<1>2. /\ data \in Seq(Bytes) /\ Len(data) = n
      /\ \A i \in 1..n : data[i] = rest[i - 1] % 256
  BY SaveNumberIs
<1>3. /\ rest \in [0..n -> Nat] /\ rest[0] = number
      /\ \A i \in 1..n : rest[i] = rest[i - 1] \div 256
  BY ShiftsDef
<1>4. rest[n] = 0
  BY NothingLeft
<1> HIDE DEF n, data, rest
<1>5. PICK top \in [0..n -> Nat] :
        /\ top[0] = 0
        /\ \A k \in 1..n : top[k] = 256 * top[k - 1] + data[n - k + 1]
        /\ FromMemory(data) = top[n]
  <2>1. \E top \in [0..Len(data) -> Nat] :
          /\ top[0] = 0
          /\ \A k \in 1..Len(data) :
               top[k] = 256 * top[k - 1] + data[Len(data) - k + 1]
          /\ FromMemory(data) = top[Len(data)]
    BY <1>2, FromMemoryDef
  <2> QED
    BY <1>2, <2>1
<1> DEFINE T == {k \in 0..n : top[k] = rest[n - k]}
<1>6. 0 \in T
  BY <1>1, <1>4, <1>5
<1>7. ASSUME NEW k \in 0..(n - 1), k \in T
      PROVE  k + 1 \in T
  <2>1. /\ k + 1 \in 1..n /\ k + 1 - 1 = k /\ k + 1 \in 0..n
        /\ n - k \in 1..n /\ n - (k + 1) + 1 = n - k /\ n - (k + 1) \in 0..n
        /\ n - k - 1 = n - (k + 1)
    BY <1>1
  <2>2. top[k + 1] = 256 * top[k] + data[n - k]
    BY <1>5, <2>1
  <2>3. data[n - k] = rest[n - (k + 1)] % 256 /\ rest[n - k] = rest[n - (k + 1)] \div 256
    BY <1>2, <1>3, <2>1
  <2>4. rest[n - (k + 1)] \in Nat
    BY <1>3, <2>1
  <2>5. \A x \in Nat : 256 * (x \div 256) + (x % 256) = x
    OBVIOUS
  <2>6. top[k] = rest[n - k]
    BY <1>7
  <2>7. top[k + 1] = rest[n - (k + 1)]
    BY <2>2, <2>3, <2>4, <2>5, <2>6
  <2> QED
    BY <2>1, <2>7
<1>8. \A k \in 0..n : k \in T
  <2> HIDE DEF T
  <2> QED
    BY <1>1, <1>6, <1>7, Induction
<1>9. top[n] = rest[n - n] /\ n - n = 0
  BY <1>1, <1>8
<1> QED
  BY <1>3, <1>5, <1>9 DEF data

-----------------------------------------------------------------------------
(* Reading a stream of bytes.                                              *)
Stream(in) == in.rest \in Seq(Bytes) /\ in.thrown \in BOOLEAN

(* Concatenation as the provers need it: not element by element.           *)
Then(a, b) == a \o b

LEMMA ThenInTurn ==
  \A a, b, c \in Seq(Bytes) :
    Then(a, b) \in Seq(Bytes) /\ Then(Then(a, b), c) = Then(a, Then(b, c))
<1> TAKE a, b, c \in Seq(Bytes)
<1>1. a \o b \in Seq(Bytes)
  BY ConcatProperties
<1>2. (a \o b) \o c = a \o (b \o c)
  BY ConcatAssociative
<1> QED
  BY <1>1, <1>2 DEF Then

LEMMA Splits ==
  ASSUME NEW s \in Seq(Bytes), NEW n \in Nat, n <= Len(s)
  PROVE  /\ SubSeq(s, 1, n) \in Seq(Bytes) /\ Len(SubSeq(s, 1, n)) = n
         /\ SubSeq(s, n + 1, Len(s)) \in Seq(Bytes)
         /\ s = SubSeq(s, 1, n) \o SubSeq(s, n + 1, Len(s))
<1> DEFINE x == SubSeq(s, 1, n)
           y == SubSeq(s, n + 1, Len(s))
<1>1. \A i \in 1..Len(s) : s[i] \in Bytes
  BY ElementOfSeq
<1>2. n \in Int /\ 1 \in Int /\ Len(s) \in Nat /\ Len(s) \in Int /\ n + 1 \in Int
  BY LenProperties
<1>3. x \in Seq(Bytes) /\ Len(x) = n
  <2>1. \A i \in 1..n : s[i] \in Bytes
    BY <1>1, <1>2
  <2>2. x \in Seq(Bytes) /\ Len(x) = IF 1 <= n THEN n - 1 + 1 ELSE 0
    BY <1>2, <2>1, SubSeqProperties
  <2> HIDE DEF x
  <2> QED
    BY <1>2, <2>2
<1>4. y \in Seq(Bytes)
  <2>1. \A i \in (n + 1)..Len(s) : s[i] \in Bytes
    BY <1>1, <1>2
  <2> QED
    BY <1>2, <2>1, SubSeqProperties
<1> HIDE DEF x, y
<1>5. s = x \o y
  <2>1. 1 \in 1..(Len(s) + 1) /\ n \in 1 - 1..Len(s) /\ Len(s) \in n..Len(s)
    BY <1>2
  <2>2. x \o y = SubSeq(s, 1, Len(s))
    BY <2>1, ConcatAdjacentSubSeq DEF x, y
  <2> QED
    BY <2>2, SubSeqFull
<1> QED
  BY <1>3, <1>4, <1>5 DEF x, y

LEMMA SplitsAt ==
  ASSUME NEW x \in Seq(Bytes), NEW y \in Seq(Bytes)
  PROVE  /\ x \o y \in Seq(Bytes) /\ Len(x \o y) = Len(x) + Len(y)
         /\ SubSeq(x \o y, 1, Len(x)) = x
         /\ SubSeq(x \o y, Len(x) + 1, Len(x \o y)) = y
<1> DEFINE s == x \o y
           n == Len(x)
           a == SubSeq(s, 1, n)
           b == SubSeq(s, n + 1, Len(s))
<1>1. /\ s \in Seq(Bytes) /\ Len(s) = Len(x) + Len(y)
      /\ \A i \in 1..(Len(x) + Len(y)) :
           s[i] = IF i <= Len(x) THEN x[i] ELSE y[i - Len(x)]
  BY ConcatProperties
<1>2. n \in Nat /\ n \in Int /\ Len(y) \in Nat /\ n = Len(x)
  BY LenProperties
<1> HIDE DEF s, n
<1>3. n <= Len(s)
  BY <1>1, <1>2
<1>4. a \in Seq(Bytes) /\ Len(a) = n /\ b \in Seq(Bytes) /\ s = a \o b
  BY <1>1, <1>2, <1>3, Splits
<1>5. Len(b) = Len(y)
  <2>1. Len(a \o b) = Len(a) + Len(b) /\ Len(b) \in Nat
    BY <1>4, ConcatProperties, LenProperties
  <2> QED
    BY <1>1, <1>2, <1>4, <2>1
<1>6. \A i \in 1..(Len(a) + Len(b)) :
        (a \o b)[i] = IF i <= Len(a) THEN a[i] ELSE b[i - Len(a)]
  BY <1>4, ConcatProperties
<1> HIDE DEF a, b
<1>7. a = x
  <2>1. \A i \in 1..Len(a) : a[i] = x[i]
    <3> TAKE i \in 1..Len(a)
    <3>1. i \in 1..(Len(a) + Len(b)) /\ i <= Len(a)
      BY <1>2, <1>4, <1>5
    <3> QED
      BY <1>1, <1>2, <1>4, <1>5, <1>6, <3>1
  <2> QED
    BY <1>2, <1>4, <2>1, SeqEqual
<1>8. b = y
  <2>1. \A i \in 1..Len(b) : b[i] = y[i]
    <3> TAKE i \in 1..Len(b)
    <3>1. /\ i + n \in 1..(Len(a) + Len(b)) /\ ~(i + n <= n) /\ i + n - n = i
          /\ Len(a) = n /\ Len(x) = n
      BY <1>2, <1>4, <1>5
    <3>2. (a \o b)[i + n] = b[i]
      BY <1>6, <3>1
    <3>3. s[i + n] = y[i]
      BY <1>1, <1>5, <3>1
    <3> QED
      BY <1>4, <3>2, <3>3
  <2> QED
    BY <1>4, <1>5, <2>1, SeqEqual
<1> QED
  BY <1>1, <1>2, <1>7, <1>8 DEF s, n, a, b

(* What loadBinary returns.                                                *)
LEMMA BinaryIs ==
  ASSUME NEW in, Stream(in), NEW size \in Nat
  PROVE  /\ Stream(loadBinary(in, size))
         /\ loadBinary(in, size).value \in Seq(Bytes)
         /\ in.thrown => loadBinary(in, size).thrown
         /\ loadBinary(in, size).thrown => loadBinary(in, size).value = <<>>
         /\ ~loadBinary(in, size).thrown =>
              in.rest = loadBinary(in, size).value \o loadBinary(in, size).rest
<1>1. Len(in.rest) \in Nat /\ in.rest \in Seq(Bytes) /\ in.thrown \in BOOLEAN
  BY LenProperties DEF Stream
<1>2. CASE in.thrown \/ Len(in.rest) < size
  <2>1. loadBinary(in, size) = [value |-> <<>>, rest |-> <<>>, thrown |-> TRUE]
    BY <1>2 DEF loadBinary, In
  <2>2. <<>> \in Seq(Bytes)
    OBVIOUS
  <2> QED
    BY <2>1, <2>2 DEF Stream
<1>3. CASE ~(in.thrown \/ Len(in.rest) < size)
  <2> DEFINE x == SubSeq(in.rest, 1, size)
             y == SubSeq(in.rest, size + 1, Len(in.rest))
  <2>1. loadBinary(in, size) = [value |-> x, rest |-> y, thrown |-> FALSE]
    BY <1>3 DEF loadBinary, In
  <2>2. x \in Seq(Bytes) /\ y \in Seq(Bytes) /\ in.rest = x \o y
    <3>1. size <= Len(in.rest)
      BY <1>1, <1>3
    <3> QED
      BY <1>1, <3>1, Splits
  <2> HIDE DEF x, y
  <2> QED
    BY <1>3, <2>1, <2>2 DEF Stream
<1> QED
  BY <1>2, <1>3

(* It reads what was written.                                              *)
LEMMA BinaryIsLoaded ==
  ASSUME NEW x \in Seq(Bytes), NEW rest \in Seq(Bytes), NEW in,
         in.rest = x \o rest, in.thrown = FALSE
  PROVE  loadBinary(in, Len(x)) = In(x, rest, FALSE)
<1>1. /\ x \o rest \in Seq(Bytes) /\ Len(x \o rest) = Len(x) + Len(rest)
      /\ SubSeq(x \o rest, 1, Len(x)) = x
      /\ SubSeq(x \o rest, Len(x) + 1, Len(x \o rest)) = rest
  BY SplitsAt
<1>2. Len(x) \in Nat /\ Len(rest) \in Nat
  BY LenProperties
<1>3. ~(Len(in.rest) < Len(x))
  BY <1>1, <1>2
<1> QED
  BY <1>1, <1>3 DEF loadBinary

-----------------------------------------------------------------------------
(* Numbers and strings: what is written, and what is read of it.           *)
LEMMA OutputOne ==
  ASSUME NEW x \in Seq(Bytes)
  PROVE  Output(<<x>>) = x
<1> DEFINE parts == <<x>>
<1>1. parts \in Seq(Seq(Bytes)) /\ Len(parts) = 1 /\ parts[1] = x
  OBVIOUS
<1> HIDE DEF parts
<1>2. PICK upTo \in [0..Len(parts) -> Seq(Bytes)] :
        /\ upTo[0] = <<>>
        /\ \A i \in 1..Len(parts) : upTo[i] = upTo[i - 1] \o parts[i]
        /\ Output(parts) = upTo[Len(parts)]
  BY <1>1, OutputDef
<1>3. 1 \in 1..Len(parts) /\ 1 - 1 = 0
  BY <1>1
<1>4. Output(parts) = <<>> \o x
  BY <1>1, <1>2, <1>3
<1> QED
  BY <1>4, ConcatEmptySeq DEF parts

LEMMA OutputTwo ==
  ASSUME NEW x \in Seq(Bytes), NEW y \in Seq(Bytes)
  PROVE  Output(<<x, y>>) = x \o y
<1> DEFINE parts == <<x, y>>
<1>1. parts \in Seq(Seq(Bytes)) /\ Len(parts) = 2 /\ parts[1] = x /\ parts[2] = y
  OBVIOUS
<1> HIDE DEF parts
<1>2. PICK upTo \in [0..Len(parts) -> Seq(Bytes)] :
        /\ upTo[0] = <<>>
        /\ \A i \in 1..Len(parts) : upTo[i] = upTo[i - 1] \o parts[i]
        /\ Output(parts) = upTo[Len(parts)]
  BY <1>1, OutputDef
<1>3. 1 \in 1..Len(parts) /\ 2 \in 1..Len(parts) /\ 1 - 1 = 0 /\ 2 - 1 = 1
  BY <1>1
<1>4. Output(parts) = (<<>> \o x) \o y
  BY <1>1, <1>2, <1>3
<1> QED
  BY <1>4, ConcatEmptySeq DEF parts

LEMMA NumberIs ==
  ASSUME NEW in, Stream(in)
  PROVE  /\ Stream(LoadNumber(in))
         /\ LoadNumber(in).value \in Nat
         /\ in.thrown => LoadNumber(in).thrown
         /\ LoadNumber(in).thrown => LoadNumber(in).value = 0
<1> DEFINE data == loadBinary(in, SizeBytes)
<1>1. /\ Stream(data) /\ data.value \in Seq(Bytes)
      /\ (in.thrown => data.thrown) /\ (data.thrown => data.value = <<>>)
  BY BinaryIs, SizeBytesIs
<1>2. LoadNumber(in) = [value |-> FromMemory(data.value), rest |-> data.rest,
                        thrown |-> data.thrown]
  BY DEF LoadNumber, In
<1>3. FromMemory(data.value) \in Nat /\ (data.value = <<>> => FromMemory(data.value) = 0)
  BY <1>1, FromMemoryIs
<1> HIDE DEF data
<1> QED
  BY <1>1, <1>2, <1>3 DEF Stream

LEMMA NumberIsLoaded ==
  ASSUME NEW number \in Nat, number < SizeLimit, NEW rest \in Seq(Bytes), NEW in,
         in.rest = SaveNumber(number) \o rest, in.thrown = FALSE
  PROVE  LoadNumber(in) = In(number, rest, FALSE)
<1> DEFINE x == SaveNumber(number)
<1>1. x \in Seq(Bytes) /\ Len(x) = SizeBytes
  BY SaveNumberIs
<1>2. FromMemory(x) = number
  BY NumberIsSpelled
<1>3. in.rest = x \o rest
  OBVIOUS
<1> HIDE DEF x
<1>4. loadBinary(in, SizeBytes) = In(x, rest, FALSE)
  BY <1>1, <1>3, BinaryIsLoaded
<1> QED
  BY <1>2, <1>4 DEF LoadNumber, In

LEMMA SaveStringIs ==
  ASSUME NEW str \in Seq(Bytes)
  PROVE  /\ SaveString(str) = SaveNumber(Len(str)) \o str
         /\ SaveString(str) \in Seq(Bytes)
<1>1. Len(str) \in Nat
  BY LenProperties
<1> DEFINE x == SaveNumber(Len(str))
<1>2. x \in Seq(Bytes)
  BY <1>1, SaveNumberIs
<1>3. SaveString(str) = Output(<<Output(<<x>>), str>>)
  BY DEF SaveString, SaveSizeTag, saveBinary
<1> HIDE DEF x
<1>4. SaveString(str) = x \o str
  BY <1>2, <1>3, OutputOne, OutputTwo
<1> QED
  BY <1>2, <1>4, ConcatProperties DEF x

LEMMA StringIs ==
  ASSUME NEW in, Stream(in)
  PROVE  /\ Stream(LoadString(in))
         /\ LoadString(in).value \in Seq(Bytes)
         /\ in.thrown => LoadString(in).thrown
<1> DEFINE size == LoadNumber(in)
<1>1. Stream(size) /\ size.value \in Nat /\ (in.thrown => size.thrown)
  BY NumberIs
<1>2. LoadString(in) = loadBinary(size, size.value)
  BY DEF LoadString, LoadSizeTag
<1> HIDE DEF size
<1> QED
  BY <1>1, <1>2, BinaryIs

LEMMA StringIsLoaded ==
  ASSUME NEW str \in Seq(Bytes), Len(str) < SizeLimit, NEW rest \in Seq(Bytes), NEW in,
         in.rest = SaveString(str) \o rest, in.thrown = FALSE
  PROVE  LoadString(in) = In(str, rest, FALSE)
<1> DEFINE size == LoadNumber(in)
           x == SaveNumber(Len(str))
<1>1. Len(str) \in Nat
  BY LenProperties
<1>2. x \in Seq(Bytes)
  BY <1>1, SaveNumberIs
<1>3. in.rest = x \o (str \o rest) /\ str \o rest \in Seq(Bytes)
  <2>1. in.rest = (x \o str) \o rest
    BY SaveStringIs
  <2> HIDE DEF x
  <2> QED
    BY <1>2, <2>1, ConcatAssociative, ConcatProperties
<1>4. size = In(Len(str), str \o rest, FALSE)
  BY <1>1, <1>3, NumberIsLoaded
<1>5. LoadString(in) = loadBinary(size, size.value)
  BY DEF LoadString, LoadSizeTag
<1> HIDE DEF size, x
<1>6. size.value = Len(str) /\ size.rest = str \o rest /\ size.thrown = FALSE
  BY <1>4 DEF In
<1> QED
  BY <1>5, <1>6, BinaryIsLoaded

-----------------------------------------------------------------------------
(* Tuples of three strings, one element after the other.                   *)
Element(below) ==
  In(Append(below.value, LoadString(below).value), LoadString(below).rest,
     LoadString(below).thrown)

LEMMA ElementIs ==
  ASSUME NEW in, Stream(in), in.value \in Seq(Seq(Bytes))
  PROVE  /\ Stream(Element(in))
         /\ Element(in).value \in Seq(Seq(Bytes))
         /\ in.thrown => Element(in).thrown
<1> DEFINE last == LoadString(in)
           S == Seq(Bytes)
<1>1. Stream(last) /\ last.value \in S /\ (in.thrown => last.thrown)
  BY StringIs
<1>2. Element(in) = [value |-> Append(in.value, last.value), rest |-> last.rest,
                     thrown |-> last.thrown]
  BY DEF Element, In
<1> HIDE DEF last, S
<1>3. Append(in.value, last.value) \in Seq(S)
  BY <1>1, AppendProperties DEF S
<1> QED
  BY <1>1, <1>2, <1>3 DEF Stream, S

LEMMA ElementIsLoaded ==
  ASSUME NEW str \in Seq(Bytes), Len(str) < SizeLimit, NEW rest \in Seq(Bytes),
         NEW value
  PROVE  Element(In(value, SaveString(str) \o rest, FALSE))
           = In(Append(value, str), rest, FALSE)
<1> DEFINE in == In(value, SaveString(str) \o rest, FALSE)
<1>1. in.rest = SaveString(str) \o rest /\ in.thrown = FALSE /\ in.value = value
  BY DEF In
<1> HIDE DEF in
<1>2. LoadString(in) = In(str, rest, FALSE)
  BY <1>1, StringIsLoaded
<1>3. Element(in) = In(Append(value, str), rest, FALSE)
  BY <1>1, <1>2 DEF Element, In
<1> QED
  BY <1>3 DEF in

LEMMA LoadTupleDef ==
  ASSUME NEW in
  PROVE  LoadTuple(in, 3) = Element(Element(Element(In(<<>>, in.rest, in.thrown))))
<1> DEFINE none == In(<<>>, in.rest, in.thrown)
           Def(f) == f = [h \in 0..3 |-> IF h = 0 THEN none ELSE Element(f[h - 1])]
           apply == CHOOSE f : Def(f)
           f == [h \in 0..3 |-> IF h = 0 THEN none
                                ELSE IF h = 1 THEN Element(none)
                                ELSE IF h = 2 THEN Element(Element(none))
                                ELSE Element(Element(Element(none)))]
<1>1. LoadTuple(in, 3) = apply[3]
  BY DEF LoadTuple, Element
<1> HIDE DEF none
<1>2. /\ f[0] = none /\ f[1] = Element(none) /\ f[2] = Element(Element(none))
      /\ f[3] = Element(Element(Element(none))) /\ DOMAIN f = 0..3
      /\ f = [h \in 0..3 |-> f[h]]
  OBVIOUS
<1> HIDE DEF f
<1>3. Def(f)
  <2>1. ASSUME NEW h \in 0..3
        PROVE  f[h] = IF h = 0 THEN none ELSE Element(f[h - 1])
    <3>1. h = 0 \/ (h = 1 /\ h - 1 = 0) \/ (h = 2 /\ h - 1 = 1) \/ (h = 3 /\ h - 1 = 2)
      OBVIOUS
    <3> QED
      BY <1>2, <3>1
  <2> QED
    BY <1>2, <2>1
<1>4. Def(apply)
  <2> HIDE DEF Def
  <2> QED
    BY <1>3, Zenon
<1> HIDE DEF apply
<1>5. /\ apply[0] = none /\ apply[1] = Element(apply[0])
      /\ apply[2] = Element(apply[1]) /\ apply[3] = Element(apply[2])
  <2>1. \A h \in 0..3 : apply[h] = IF h = 0 THEN none ELSE Element(apply[h - 1])
    BY <1>4
  <2>2. /\ 0 \in 0..3 /\ 1 \in 0..3 /\ 2 \in 0..3 /\ 3 \in 0..3
        /\ 1 - 1 = 0 /\ 2 - 1 = 1 /\ 3 - 1 = 2
    OBVIOUS
  <2> QED
    BY <2>1, <2>2
<1> QED
  BY <1>1, <1>5 DEF none

LEMMA SaveTupleIs ==
  ASSUME NEW tuple \in [1..3 -> Seq(Bytes)]
  PROVE  /\ SaveTuple(tuple) = SaveString(tuple[1])
                                 \o (SaveString(tuple[2]) \o SaveString(tuple[3]))
         /\ SaveTuple(tuple) \in Seq(Bytes)
<1> DEFINE S == Seq(Bytes)
           x == SaveString(tuple[1])
           y == SaveString(tuple[2])
           z == SaveString(tuple[3])
           n == Len(tuple)
           Def(f) == f = [h \in 0..n |-> IF h = 0 THEN <<>>
                                         ELSE Output(<<f[h - 1], SaveString(tuple[h])>>)]
           apply == CHOOSE f : Def(f)
           f == [h \in 0..3 |-> IF h = 0 THEN <<>> ELSE IF h = 1 THEN x
                                ELSE IF h = 2 THEN x \o y ELSE (x \o y) \o z]
<1>1. SaveTuple(tuple) = apply[n]
  BY DEF SaveTuple
<1>2. n = 3
  OBVIOUS
<1>3. x \in S /\ y \in S /\ z \in S /\ <<>> \in S
  BY SaveStringIs
<1> HIDE DEF n
<1>4. x \o y \in S /\ (x \o y) \o z \in S /\ <<>> \o x = x
  <2> HIDE DEF x, y, z, S
  <2>1. x \o y \in S
    BY <1>3, ConcatProperties DEF S
  <2> QED
    BY <1>3, <2>1, ConcatProperties, ConcatEmptySeq DEF S
<1>5. /\ f[0] = <<>> /\ f[1] = x /\ f[2] = x \o y /\ f[3] = (x \o y) \o z
      /\ DOMAIN f = 0..3 /\ f = [h \in 0..3 |-> f[h]]
  OBVIOUS
<1> HIDE DEF f
<1>6. Def(f)
  <2>1. ASSUME NEW h \in 0..3
        PROVE  f[h] = IF h = 0 THEN <<>> ELSE Output(<<f[h - 1], SaveString(tuple[h])>>)
    <3>1. CASE h = 0
      BY <1>5, <3>1
    <3>2. CASE h = 1
      <4>1. Output(<<f[0], SaveString(tuple[1])>>) = <<>> \o x
        BY <1>3, <1>5, OutputTwo
      <4>2. f[h] = x
        BY <1>5, <3>2
      <4>3. h # 0 /\ h - 1 = 0
        BY <3>2
      <4>4. Output(<<f[h - 1], SaveString(tuple[h])>>) = <<>> \o x
        BY <3>2, <4>1, <4>3
      <4> QED
        BY <1>4, <4>2, <4>3, <4>4
    <3>3. CASE h = 2
      <4>1. Output(<<f[1], SaveString(tuple[2])>>) = x \o y
        BY <1>3, <1>5, OutputTwo
      <4>2. f[h] = x \o y
        BY <1>5, <3>3
      <4>3. h # 0 /\ h - 1 = 1
        BY <3>3
      <4>4. Output(<<f[h - 1], SaveString(tuple[h])>>) = x \o y
        BY <3>3, <4>1, <4>3
      <4> QED
        BY <1>4, <4>2, <4>3, <4>4
    <3>4. CASE h = 3
      <4>1. Output(<<f[2], SaveString(tuple[3])>>) = (x \o y) \o z
        BY <1>3, <1>4, <1>5, OutputTwo
      <4>2. f[h] = (x \o y) \o z
        BY <1>5, <3>4
      <4>3. h # 0 /\ h - 1 = 2
        BY <3>4
      <4>4. Output(<<f[h - 1], SaveString(tuple[h])>>) = (x \o y) \o z
        BY <3>4, <4>1, <4>3
      <4> QED
        BY <1>4, <4>2, <4>3, <4>4
    <3> QED
      BY <3>1, <3>2, <3>3, <3>4
  <2> QED
    BY <1>2, <1>5, <2>1
<1>7. Def(apply)
  <2> HIDE DEF Def
  <2> QED
    BY <1>6, Zenon
<1> HIDE DEF apply, x, y, z, S
<1>8. /\ apply[0] = <<>> /\ apply[1] = Output(<<apply[0], x>>)
      /\ apply[2] = Output(<<apply[1], y>>) /\ apply[3] = Output(<<apply[2], z>>)
  <2>1. \A h \in 0..3 : apply[h] = IF h = 0 THEN <<>>
                                   ELSE Output(<<apply[h - 1], SaveString(tuple[h])>>)
    BY <1>2, <1>7
  <2>2. /\ 0 \in 0..3 /\ 1 \in 0..3 /\ 2 \in 0..3 /\ 3 \in 0..3
        /\ 1 - 1 = 0 /\ 2 - 1 = 1 /\ 3 - 1 = 2
    OBVIOUS
  <2> QED
    BY <2>1, <2>2 DEF x, y, z
<1>9. apply[1] = x
  BY <1>3, <1>4, <1>8, OutputTwo DEF S
<1>10. apply[2] = x \o y
  BY <1>3, <1>8, <1>9, OutputTwo DEF S
<1>11. apply[3] = (x \o y) \o z
  BY <1>3, <1>4, <1>8, <1>10, OutputTwo DEF S
<1>12. (x \o y) \o z = x \o (y \o z)
  BY <1>3, ConcatAssociative DEF S
<1> QED
  BY <1>1, <1>2, <1>4, <1>11, <1>12 DEF x, y, z, S

LEMMA LoadTupleIs ==
  ASSUME NEW in, Stream(in)
  PROVE  /\ Stream(LoadTuple(in, 3))
         /\ LoadTuple(in, 3).value \in Seq(Seq(Bytes))
         /\ in.thrown => LoadTuple(in, 3).thrown
<1> DEFINE a == In(<<>>, in.rest, in.thrown)
           b == Element(a)
           c == Element(b)
           d == Element(c)
<1>1. LoadTuple(in, 3) = d
  BY LoadTupleDef
<1>2. Stream(a) /\ a.value \in Seq(Seq(Bytes)) /\ (in.thrown => a.thrown)
  BY DEF In, Stream
<1> HIDE DEF a
<1>3. Stream(b) /\ b.value \in Seq(Seq(Bytes)) /\ (a.thrown => b.thrown)
  BY <1>2, ElementIs
<1> HIDE DEF b
<1>4. Stream(c) /\ c.value \in Seq(Seq(Bytes)) /\ (b.thrown => c.thrown)
  BY <1>3, ElementIs
<1> HIDE DEF c
<1>5. Stream(d) /\ d.value \in Seq(Seq(Bytes)) /\ (c.thrown => d.thrown)
  BY <1>4, ElementIs
<1> HIDE DEF d
<1> QED
  BY <1>1, <1>2, <1>3, <1>4, <1>5

LEMMA ThreeAppended ==
  ASSUME NEW x, NEW y, NEW z
  PROVE  Append(Append(Append(<<>>, x), y), z) = <<x, y, z>>
<1> DEFINE S == {x, y, z}
           one == Append(<<>>, x)
           two == Append(one, y)
           three == Append(two, z)
<1>1. <<x, y, z>> \in Seq(S) /\ <<>> \in Seq(S) /\ Len(<<>>) = 0
  OBVIOUS
<1>2. x \in S /\ y \in S /\ z \in S
  OBVIOUS
<1> HIDE DEF S, one, two, three
<1>3. one \in Seq(S) /\ Len(one) = 1 /\ one[1] = x
  BY <1>1, <1>2, AppendProperties DEF one
<1>4. two \in Seq(S) /\ Len(two) = 2 /\ two[1] = x /\ two[2] = y
  <2>1. /\ two \in Seq(S) /\ Len(two) = Len(one) + 1
        /\ \A i \in 1..Len(one) : two[i] = one[i]
        /\ two[Len(one) + 1] = y
    BY <1>2, <1>3, AppendProperties DEF two
  <2>2. 1 \in 1..Len(one) /\ Len(one) + 1 = 2
    BY <1>3
  <2> QED
    BY <1>3, <2>1, <2>2
<1>5. /\ three \in Seq(S) /\ Len(three) = 3
      /\ three[1] = x /\ three[2] = y /\ three[3] = z
  <2>1. /\ three \in Seq(S) /\ Len(three) = Len(two) + 1
        /\ \A i \in 1..Len(two) : three[i] = two[i]
        /\ three[Len(two) + 1] = z
    BY <1>2, <1>4, AppendProperties DEF three
  <2>2. 1 \in 1..Len(two) /\ 2 \in 1..Len(two) /\ Len(two) + 1 = 3
    BY <1>4
  <2> QED
    BY <1>4, <2>1, <2>2
<1>6. \A i \in 1..Len(three) : three[i] = <<x, y, z>>[i]
  <2> TAKE i \in 1..Len(three)
  <2>1. i = 1 \/ i = 2 \/ i = 3
    BY <1>5
  <2> QED
    BY <1>5, <2>1
<1>7. three = <<x, y, z>>
  <2>1. Len(<<x, y, z>>) = 3
    OBVIOUS
  <2> QED
    BY <1>1, <1>5, <1>6, <2>1, SeqEqual
<1> QED
  BY <1>7 DEF one, two, three

LEMMA TupleIsLoaded ==
  ASSUME NEW tuple \in [1..3 -> Seq(Bytes)], \A p \in 1..3 : Len(tuple[p]) < SizeLimit,
         NEW rest \in Seq(Bytes), NEW in,
         in.rest = SaveTuple(tuple) \o rest, in.thrown = FALSE
  PROVE  LoadTuple(in, 3) = In(tuple, rest, FALSE)
<1> DEFINE x == SaveString(tuple[1])
           y == SaveString(tuple[2])
           z == SaveString(tuple[3])
           one == Append(<<>>, tuple[1])
           two == Append(one, tuple[2])
           three == Append(two, tuple[3])
<1>1. /\ tuple[1] \in Seq(Bytes) /\ tuple[2] \in Seq(Bytes) /\ tuple[3] \in Seq(Bytes)
      /\ Len(tuple[1]) < SizeLimit /\ Len(tuple[2]) < SizeLimit /\ Len(tuple[3]) < SizeLimit
  OBVIOUS
<1>2. x \in Seq(Bytes) /\ y \in Seq(Bytes) /\ z \in Seq(Bytes)
  BY <1>1, SaveStringIs
<1>3. in.rest = (x \o (y \o z)) \o rest
  BY SaveTupleIs
<1>4. three = tuple
  <2>1. tuple = <<tuple[1], tuple[2], tuple[3]>>
    OBVIOUS
  <2>2. three = <<tuple[1], tuple[2], tuple[3]>>
    BY ThreeAppended
  <2> QED
    BY <2>1, <2>2
<1>5. LoadTuple(in, 3) = Element(Element(Element(In(<<>>, in.rest, FALSE))))
  BY LoadTupleDef
<1> HIDE DEF x, y, z, one, two, three
<1>6. /\ in.rest = x \o (y \o (z \o rest))
      /\ z \o rest \in Seq(Bytes) /\ y \o (z \o rest) \in Seq(Bytes)
  <2>1. in.rest = Then(Then(x, Then(y, z)), rest)
    BY <1>3 DEF Then
  <2>2. /\ Then(z, rest) \in Seq(Bytes) /\ Then(y, z) \in Seq(Bytes)
        /\ Then(y, Then(z, rest)) \in Seq(Bytes)
    BY <1>2, ThenInTurn
  <2>3. in.rest = Then(x, Then(y, Then(z, rest)))
    BY <1>2, <2>1, <2>2, ThenInTurn
  <2> QED
    BY <2>2, <2>3 DEF Then
<1>7. Element(In(<<>>, in.rest, FALSE)) = In(one, y \o (z \o rest), FALSE)
  BY <1>1, <1>6, ElementIsLoaded DEF x, one
<1>8. Element(In(one, y \o (z \o rest), FALSE)) = In(two, z \o rest, FALSE)
  BY <1>1, <1>6, ElementIsLoaded DEF y, two
<1>9. Element(In(two, z \o rest, FALSE)) = In(three, rest, FALSE)
  BY <1>1, ElementIsLoaded DEF z, three
<1> QED
  BY <1>4, <1>5, <1>7, <1>8, <1>9

-----------------------------------------------------------------------------
(* The items of a map: what an archive reads, and what a store writes.     *)
MapItems == [key : Seq(Bytes), value : Seq(Seq(Bytes))]

StoreItems ==
  {item \in [key : Seq(Bytes), value : [1..3 -> Seq(Bytes)]] :
     Len(item.key) < SizeLimit /\ \A p \in 1..3 : Len(item.value[p]) < SizeLimit}

Loaded == [value : Seq(MapItems), rest : Seq(Bytes), thrown : BOOLEAN]

LEMMA MapItemIs ==
  ASSUME NEW in, Stream(in)
  PROVE  /\ Stream(LoadMapItem(in))
         /\ LoadMapItem(in).value \in MapItems
         /\ in.thrown => LoadMapItem(in).thrown
<1> DEFINE key == LoadString(in)
           value == LoadTuple(key, 3)
<1>1. LoadMapItem(in) = [value |-> [key |-> key.value, value |-> value.value],
                         rest |-> value.rest, thrown |-> value.thrown]
  BY DEF LoadMapItem, In
<1>2. Stream(key) /\ key.value \in Seq(Bytes) /\ (in.thrown => key.thrown)
  BY StringIs
<1> HIDE DEF key
<1>3. Stream(value) /\ value.value \in Seq(Seq(Bytes)) /\ (key.thrown => value.thrown)
  BY <1>2, LoadTupleIs
<1> HIDE DEF value
<1> QED
  BY <1>1, <1>2, <1>3 DEF Stream, MapItems

LEMMA EmplaceIs ==
  ASSUME NEW map \in Loaded
  PROVE  /\ Emplace(map) \in Loaded
         /\ map.thrown => Emplace(map).thrown
<1> DEFINE item == LoadMapItem(map)
<1>1. Stream(map) /\ map.value \in Seq(MapItems)
  BY DEF Loaded, Stream
<1>2. Stream(item) /\ item.value \in MapItems /\ (map.thrown => item.thrown)
  BY <1>1, MapItemIs
<1>3. Emplace(map) = [value |-> Append(map.value, item.value), rest |-> item.rest,
                      thrown |-> item.thrown]
  BY DEF Emplace, In
<1> HIDE DEF item
<1>4. Append(map.value, item.value) \in Seq(MapItems)
  BY <1>1, <1>2, AppendProperties
<1> QED
  BY <1>2, <1>3, <1>4 DEF Stream, Loaded

LEMMA SaveMapItemIs ==
  ASSUME NEW item \in StoreItems
  PROVE  /\ SaveMapItem(item) = SaveString(item.key) \o SaveTuple(item.value)
         /\ SaveMapItem(item) \in Seq(Bytes)
<1> DEFINE x == SaveString(item.key)
           y == SaveTuple(item.value)
<1>1. x \in Seq(Bytes) /\ y \in Seq(Bytes)
  BY SaveStringIs, SaveTupleIs DEF StoreItems
<1>2. SaveMapItem(item) = Output(<<x, y>>)
  BY DEF SaveMapItem
<1> HIDE DEF x, y
<1>3. SaveMapItem(item) = x \o y
  BY <1>1, <1>2, OutputTwo
<1> QED
  BY <1>1, <1>3, ConcatProperties DEF x, y

LEMMA EmplaceIsLoaded ==
  ASSUME NEW item \in StoreItems, NEW rest \in Seq(Bytes), NEW value
  PROVE  Emplace(In(value, SaveMapItem(item) \o rest, FALSE))
           = In(Append(value, item), rest, FALSE)
<1> DEFINE map == In(value, SaveMapItem(item) \o rest, FALSE)
           x == SaveString(item.key)
           y == SaveTuple(item.value)
           key == LoadString(map)
           tuple == LoadTuple(key, 3)
<1>1. /\ item.key \in Seq(Bytes) /\ item.value \in [1..3 -> Seq(Bytes)]
      /\ Len(item.key) < SizeLimit /\ \A p \in 1..3 : Len(item.value[p]) < SizeLimit
      /\ item = [key |-> item.key, value |-> item.value]
  BY DEF StoreItems
<1>2. x \in Seq(Bytes) /\ y \in Seq(Bytes)
  BY <1>1, SaveStringIs, SaveTupleIs
<1>3. map.value = value /\ map.rest = SaveMapItem(item) \o rest /\ map.thrown = FALSE
  BY DEF In
<1>4. SaveMapItem(item) = x \o y
  BY SaveMapItemIs
<1>5. Emplace(map) = In(Append(map.value, [key |-> key.value, value |-> tuple.value]),
                        tuple.rest, tuple.thrown)
  BY DEF Emplace, LoadMapItem, In
<1> HIDE DEF map, x, y
<1>6. map.rest = x \o (y \o rest) /\ y \o rest \in Seq(Bytes)
  BY <1>2, <1>3, <1>4, ConcatAssociative, ConcatProperties
<1>7. key = In(item.key, y \o rest, FALSE)
  BY <1>1, <1>3, <1>6, StringIsLoaded DEF x
<1> HIDE DEF key
<1>8. key.value = item.key /\ key.rest = y \o rest /\ key.thrown = FALSE
  BY <1>7 DEF In
<1>9. tuple = In(item.value, rest, FALSE)
  BY <1>1, <1>8, TupleIsLoaded DEF y
<1> HIDE DEF tuple
<1>10. tuple.value = item.value /\ tuple.rest = rest /\ tuple.thrown = FALSE
  BY <1>9 DEF In
<1> QED
  BY <1>1, <1>3, <1>5, <1>8, <1>10 DEF map

-----------------------------------------------------------------------------
(* Maps: the stream from each item on, and the map up to each.             *)
LEMMA SaveMapDef ==
  ASSUME NEW items \in Seq(StoreItems)
  PROVE  \E tail \in [0..Len(items) -> Seq(Bytes)] :
           /\ SaveMap(items) = SaveNumber(Len(items)) \o tail[0]
           /\ \A i \in 1..Len(items) : tail[i - 1] = SaveMapItem(items[i]) \o tail[i]
           /\ tail[Len(items)] = <<>>
<1> DEFINE n == Len(items)
           S == Seq(Bytes)
           size == SaveNumber(n)
           part(i) == SaveMapItem(items[i])
           parts == <<Output(<<size>>)>> \o [i \in DOMAIN items |-> part(i)]
<1>1. n \in Nat /\ DOMAIN items = 1..n /\ \A i \in 1..n : items[i] \in StoreItems
  BY LenProperties, ElementOfSeq
<1>2. size \in S /\ Output(<<size>>) = size
  BY <1>1, SaveNumberIs, OutputOne
<1>3. \A i \in 1..n : part(i) \in S
  BY <1>1, SaveMapItemIs
<1>4. SaveMap(items) = Output(parts)
  BY DEF SaveMap, SaveSizeTag
<1> HIDE DEF n, S, size, part
<1>5. /\ parts \in Seq(S) /\ Len(parts) = n + 1 /\ parts[1] = size
      /\ \A i \in 1..n : parts[i + 1] = part(i)
  <2> DEFINE one == <<size>>
             others == [i \in 1..n |-> part(i)]
  <2>1. one \in Seq(S) /\ Len(one) = 1 /\ one[1] = size
    BY <1>2
  <2>2. others \in Seq(S) /\ Len(others) = n /\ \A i \in 1..n : others[i] = part(i)
    BY <1>1, <1>3
  <2>3. parts = one \o others
    BY <1>1, <1>2
  <2> HIDE DEF parts, one, others
  <2>4. /\ one \o others \in Seq(S) /\ Len(one \o others) = Len(one) + Len(others)
        /\ \A i \in 1..(Len(one) + Len(others)) :
             (one \o others)[i] = IF i <= Len(one) THEN one[i] ELSE others[i - Len(one)]
    BY <2>1, <2>2, ConcatProperties
  <2>5. parts[1] = size
    <3>1. 1 \in 1..(Len(one) + Len(others)) /\ 1 <= Len(one)
      BY <1>1, <2>1, <2>2
    <3> QED
      BY <2>1, <2>3, <2>4, <3>1
  <2>6. ASSUME NEW i \in 1..n
        PROVE  parts[i + 1] = part(i)
    <3>1. /\ i + 1 \in 1..(Len(one) + Len(others)) /\ ~(i + 1 <= Len(one))
          /\ i + 1 - Len(one) = i
      BY <1>1, <2>1, <2>2
    <3> QED
      BY <2>2, <2>3, <2>4, <3>1
  <2>7. parts \in Seq(S) /\ Len(parts) = n + 1
    BY <1>1, <2>1, <2>2, <2>3, <2>4
  <2> QED
    BY <2>5, <2>6, <2>7
<1> HIDE DEF parts
<1>6. PICK upTo \in [0..(n + 1) -> S] :
        /\ upTo[0] = <<>>
        /\ \A i \in 1..(n + 1) : upTo[i] = Then(upTo[i - 1], parts[i])
        /\ Output(parts) = upTo[n + 1]
  <2>1. \E upTo \in [0..Len(parts) -> Seq(Bytes)] :
          /\ upTo[0] = <<>>
          /\ \A i \in 1..Len(parts) : upTo[i] = upTo[i - 1] \o parts[i]
          /\ Output(parts) = upTo[Len(parts)]
    BY <1>5, OutputDef DEF S
  <2> QED
    BY <1>5, <2>1 DEF S, Then
<1> DEFINE step == [k \in 1..n |-> [x \in S |-> Then(part(n - k + 1), x)]]
           c == <<>>
<1>7. PICK back : FollowsSteps(back, n, S, c, step)
  <2>1. ASSUME NEW k \in 1..n, NEW x \in S
        PROVE  Then(part(n - k + 1), x) \in S
    <3>1. n - k + 1 \in 1..n
      BY <1>1
    <3>2. part(n - k + 1) \in S
      BY <1>3, <3>1
    <3> QED
      BY <3>2, ThenInTurn DEF S
  <2>2. step \in [1..n -> [S -> S]]
    BY <2>1
  <2>3. c \in S
    BY EmptySeq DEF S
  <2> HIDE DEF step, c
  <2> QED
    BY <1>1, <2>2, <2>3, FunctionOfSteps
<1>8. back \in [0..n -> S] /\ back[0] = <<>> /\ \A k \in 1..n : back[k] = step[k][back[k - 1]]
  BY <1>7 DEF FollowsSteps
<1>9. \A k \in 1..n : back[k] = Then(part(n - k + 1), back[k - 1])
  <2> TAKE k \in 1..n
  <2>1. k - 1 \in 0..n
    BY <1>1
  <2>2. back[k - 1] \in S
    BY <1>8, <2>1
  <2> QED
    BY <1>8, <2>2
<1> DEFINE tail == [i \in 0..n |-> back[n - i]]
<1>10. tail \in [0..n -> S] /\ tail[n] = <<>>
  <2>1. \A i \in 0..n : n - i \in 0..n
    BY <1>1
  <2>2. n \in 0..n /\ n - n = 0
    BY <1>1
  <2> QED
    BY <1>8, <2>1, <2>2
<1>11. ASSUME NEW i \in 1..n
       PROVE  tail[i - 1] = Then(part(i), tail[i])
  <2> DEFINE k == n - i + 1
  <2>1. /\ k \in 1..n /\ n - k + 1 = i /\ k - 1 = n - i
        /\ i - 1 \in 0..n /\ n - (i - 1) = k /\ i \in 0..n
    BY <1>1
  <2>2. tail[i - 1] = back[k] /\ tail[i] = back[k - 1]
    BY <2>1
  <2> HIDE DEF k, tail
  <2>3. back[k] = Then(part(n - k + 1), back[k - 1])
    BY <1>9, <2>1
  <2>4. n - k + 1 = i
    BY <2>1
  <2>5. back[k] = Then(part(i), back[k - 1])
    BY ONLY <2>3, <2>4, Zenon
  <2> QED
    BY ONLY <2>2, <2>5, Zenon
<1> HIDE DEF tail
<1> DEFINE T == {i \in 0..n : Then(upTo[i + 1], tail[i]) = Then(size, tail[0])}
<1>12. upTo[1] = size
  <2>1. 1 \in 1..(n + 1) /\ 1 - 1 = 0
    BY <1>1
  <2>2. upTo[1] = <<>> \o size
    BY <1>5, <1>6, <2>1 DEF Then
  <2> QED
    BY <1>2, <2>2, ConcatEmptySeq DEF S
<1>13. 0 \in T
  BY <1>1, <1>12
<1>14. ASSUME NEW i \in 0..(n - 1), i \in T
       PROVE  i + 1 \in T
  <2> DEFINE j == i + 1
  <2>1. /\ j \in 1..n /\ j + 1 \in 1..(n + 1) /\ j + 1 - 1 = j
        /\ j - 1 = i /\ j \in 0..(n + 1) /\ j \in 0..n
    BY <1>1
  <2>6. Then(upTo[j], tail[i]) = Then(size, tail[0])
    BY <1>14
  <2> HIDE DEF j
  <2>2. upTo[j + 1] = Then(upTo[j], part(j))
    <3>1. upTo[j + 1] = Then(upTo[j + 1 - 1], parts[j + 1])
      BY <1>6, <2>1
    <3> QED
      BY <1>5, <2>1, <3>1
  <2>3. tail[i] = Then(part(j), tail[j])
    <3>1. tail[j - 1] = Then(part(j), tail[j])
      BY <1>11, <2>1
    <3> QED
      BY <2>1, <3>1
  <2>4. upTo[j] \in Seq(Bytes) /\ part(j) \in Seq(Bytes) /\ tail[j] \in Seq(Bytes)
    BY <1>3, <1>6, <1>10, <2>1 DEF S
  <2>5. Then(upTo[j + 1], tail[j]) = Then(upTo[j], tail[i])
    <3>1. Then(Then(upTo[j], part(j)), tail[j]) = Then(upTo[j], Then(part(j), tail[j]))
      BY <2>4, ThenInTurn
    <3> QED
      BY <2>2, <2>3, <3>1
  <2>7. j \in T
    BY <2>1, <2>5, <2>6
  <2> QED
    BY <2>7 DEF j
<1>15. \A i \in 0..n : i \in T
  <2> HIDE DEF T
  <2> QED
    BY <1>1, <1>13, <1>14, Induction
<1>16. SaveMap(items) = Then(size, tail[0])
  <2>1. n \in 0..n /\ n + 1 \in 0..(n + 1)
    BY <1>1
  <2>2. Then(upTo[n + 1], tail[n]) = Then(size, tail[0])
    BY <1>15, <2>1
  <2>3. upTo[n + 1] \o <<>> = upTo[n + 1]
    BY <1>6, <2>1, ConcatEmptySeq DEF S
  <2> QED
    BY <1>4, <1>6, <1>10, <2>2, <2>3 DEF Then
<1> QED
  BY <1>10, <1>11, <1>16 DEF n, S, size, part, Then

LEMMA LoadMapDef ==
  ASSUME NEW in, Stream(in)
  PROVE  \E upTo \in [0..LoadNumber(in).value -> Loaded] :
           /\ upTo[0] = In(<<>>, LoadNumber(in).rest, LoadNumber(in).thrown)
           /\ \A n \in 1..LoadNumber(in).value : upTo[n] = Emplace(upTo[n - 1])
           /\ LoadMap(in) = upTo[LoadNumber(in).value]
<1> DEFINE size == LoadNumber(in)
           top == size.value
           none == In(<<>>, size.rest, size.thrown)
           step == [n \in 1..top |-> [map \in Loaded |-> Emplace(map)]]
           Def(f) == f = [n \in 0..top |-> IF n = 0 THEN none ELSE Emplace(f[n - 1])]
           upTo == CHOOSE f : Def(f)
<1>1. Stream(size) /\ top \in Nat
  BY NumberIs
<1>2. none \in Loaded
  BY <1>1, EmptySeq DEF In, Loaded, Stream
<1>3. LoadMap(in) = upTo[top]
  BY DEF LoadMap, LoadSizeTag
<1> HIDE DEF size, none
<1>4. PICK f : FollowsSteps(f, top, Loaded, none, step)
  <2>1. step \in [1..top -> [Loaded -> Loaded]]
    BY EmplaceIs
  <2> HIDE DEF step, top
  <2> QED
    BY <1>1, <1>2, <2>1, FunctionOfSteps
<1> HIDE DEF top
<1>5. f \in [0..top -> Loaded] /\ f[0] = none /\ \A n \in 1..top : f[n] = step[n][f[n - 1]]
  BY <1>4 DEF FollowsSteps
<1>6. Def(f)
  <2>1. ASSUME NEW n \in 0..top
        PROVE  f[n] = IF n = 0 THEN none ELSE Emplace(f[n - 1])
    <3>1. CASE n = 0
      BY <1>5, <3>1
    <3>2. CASE n # 0
      <4>1. n \in 1..top /\ n - 1 \in 0..top
        BY <1>1, <3>2
      <4>2. f[n - 1] \in Loaded
        BY <1>5, <4>1
      <4> QED
        BY <1>5, <3>2, <4>1, <4>2
    <3> QED
      BY <3>1, <3>2
  <2> QED
    BY <1>5, <2>1
<1>7. Def(upTo)
  <2> HIDE DEF Def
  <2> QED
    BY <1>6, Zenon
<1> HIDE DEF upTo
<1>8. upTo[0] = none /\ \A n \in 1..top : upTo[n] = Emplace(upTo[n - 1])
  <2>1. 0 \in 0..top /\ \A n \in 1..top : n \in 0..top /\ n # 0
    BY <1>1
  <2> QED
    BY <1>7, <2>1
<1>9. \A n \in 0..top : upTo[n] \in Loaded
  <2>1. ASSUME NEW n \in 1..top, upTo[n - 1] \in Loaded
        PROVE  upTo[n] \in Loaded
    BY <1>8, <2>1, EmplaceIs
  <2>2. upTo[0] \in Loaded
    BY <1>2, <1>8
  <2> QED
    BY <1>1, <2>1, <2>2, StepsKeep
<1>10. upTo \in [0..top -> Loaded]
  BY <1>7, <1>9
<1> QED
  BY <1>3, <1>8, <1>10 DEF size, top, none

(* The items in front of a stream that goes on in any way are read.        *)
LEMMA FrontIsLoaded ==
  ASSUME NEW items \in Seq(StoreItems), NEW k \in 0..Len(items),
         NEW tail \in [0..k -> Seq(Bytes)], NEW upTo,
         \A i \in 1..k : tail[i - 1] = SaveMapItem(items[i]) \o tail[i],
         upTo[0] = In(<<>>, tail[0], FALSE),
         \A i \in 1..k : upTo[i] = Emplace(upTo[i - 1])
  PROVE  upTo[k] = In(SubSeq(items, 1, k), tail[k], FALSE)
<1> DEFINE n == Len(items)
           front(i) == SubSeq(items, 1, i)
           T == {i \in 0..k : upTo[i] = In(front(i), tail[i], FALSE)}
<1>1. n \in Nat /\ k \in Nat /\ k <= n /\ \A i \in 1..n : items[i] \in StoreItems
  BY LenProperties, ElementOfSeq
<1>2. 0 \in T
  <2>1. front(0) = <<>>
    BY SubSeqEmpty
  <2> HIDE DEF front
  <2>2. upTo[0] = In(front(0), tail[0], FALSE)
    BY <2>1, Zenon
  <2>3. 0 \in 0..k
    BY <1>1
  <2> QED
    BY <2>2, <2>3
<1>3. ASSUME NEW h \in 0..(k - 1), h \in T
      PROVE  h + 1 \in T
  <2> DEFINE j == h + 1
  <2>1. /\ j \in 1..k /\ j - 1 = h /\ j \in 0..k /\ 1 \in 1..n /\ j \in 1..n
        /\ j \in 1..Len(items) /\ h \in Nat /\ h <= n
    BY <1>1
  <2>2. upTo[h] = In(front(h), tail[h], FALSE)
    BY <1>3
  <2> HIDE DEF j
  <2>3. front(j) = Append(front(h), items[j])
    <3>1. front(j) = front(j - 1) \o <<items[j]>>
      <4>1. 1 \in 1..Len(items) /\ j \in 1..Len(items)
        BY <2>1
      <4> QED
        BY <4>1, SubSeqRecursiveSecond
    <3>2. front(h) \in Seq(StoreItems)
      <4>1. h \in Int /\ \A i \in 1..h : items[i] \in StoreItems
        BY <1>1, <2>1
      <4> QED
        BY <4>1, SubSeqProperties
    <3>3. items[j] \in StoreItems
      BY <1>1, <2>1
    <3> HIDE DEF front
    <3>4. Append(front(h), items[j]) = front(h) \o <<items[j]>>
      BY <3>2, <3>3, AppendIsConcat
    <3>5. front(j - 1) = front(h)
      BY <2>1
    <3> QED
      BY <3>1, <3>4, <3>5
  <2> HIDE DEF front
  <2>4. upTo[j] = Emplace(upTo[h]) /\ tail[h] = SaveMapItem(items[j]) \o tail[j]
    <3>1. upTo[j] = Emplace(upTo[j - 1]) /\ tail[j - 1] = SaveMapItem(items[j]) \o tail[j]
      BY <2>1
    <3> QED
      BY <2>1, <3>1
  <2>5. items[j] \in StoreItems /\ tail[j] \in Seq(Bytes)
    BY <1>1, <2>1
  <2>6. Emplace(In(front(h), SaveMapItem(items[j]) \o tail[j], FALSE))
          = In(Append(front(h), items[j]), tail[j], FALSE)
    BY <2>5, EmplaceIsLoaded
  <2>7. upTo[j] = In(front(j), tail[j], FALSE)
    BY <2>2, <2>3, <2>4, <2>6
  <2>8. j \in T
    BY <2>1, <2>7
  <2> QED
    BY <2>8 DEF j
<1>4. \A i \in 0..k : i \in T
  <2> HIDE DEF T
  <2> QED
    BY <1>1, <1>2, <1>3, Induction
<1>5. k \in T
  <2>1. k \in 0..k
    BY <1>1
  <2> QED
    BY <1>4, <2>1
<1> QED
  BY <1>5

(* Of n items behind a size a map is read, one after the other.            *)
LoadsItems(in, n, rest) ==
  \E upTo \in [0..n -> Loaded] :
    /\ upTo[0] = In(<<>>, rest, FALSE)
    /\ \A i \in 1..n : upTo[i] = Emplace(upTo[i - 1])
    /\ LoadMap(in) = upTo[n]

LEMMA SizeIsLoaded ==
  ASSUME NEW n \in Nat, n < SizeLimit, NEW rest \in Seq(Bytes), NEW in,
         in.rest = SaveNumber(n) \o rest, in.thrown = FALSE
  PROVE  LoadsItems(in, n, rest)
<1>1. Stream(in)
  <2>1. SaveNumber(n) \o rest \in Seq(Bytes)
    BY SaveNumberIs, ConcatProperties
  <2> QED
    BY <2>1 DEF Stream
<1>2. LoadNumber(in) = In(n, rest, FALSE)
  BY NumberIsLoaded
<1>3. /\ LoadNumber(in).value = n /\ LoadNumber(in).rest = rest
      /\ LoadNumber(in).thrown = FALSE
  BY <1>2 DEF In
<1>4. \E upTo \in [0..LoadNumber(in).value -> Loaded] :
        /\ upTo[0] = In(<<>>, LoadNumber(in).rest, LoadNumber(in).thrown)
        /\ \A i \in 1..LoadNumber(in).value : upTo[i] = Emplace(upTo[i - 1])
        /\ LoadMap(in) = upTo[LoadNumber(in).value]
  BY <1>1, LoadMapDef
<1> QED
  BY <1>3, <1>4 DEF LoadsItems

(* What was written of a map is read, and all of it.                       *)
LEMMA MapIsLoaded ==
  ASSUME NEW items \in Seq(StoreItems), Len(items) < SizeLimit
  PROVE  /\ SaveMap(items) \in Seq(Bytes)
         /\ LoadMap(Open(SaveMap(items))) = In(items, <<>>, FALSE)
<1> DEFINE n == Len(items)
           stream == SaveMap(items)
           in == Open(stream)
<1>1. n \in Nat /\ n \in 0..n /\ 0 \in 0..n /\ SaveNumber(n) \in Seq(Bytes)
  BY LenProperties, SaveNumberIs
<1>2. PICK tail \in [0..n -> Seq(Bytes)] :
        /\ stream = SaveNumber(n) \o tail[0]
        /\ \A i \in 1..n : tail[i - 1] = SaveMapItem(items[i]) \o tail[i]
        /\ tail[n] = <<>>
  BY SaveMapDef
<1>3. in.rest = stream /\ in.thrown = FALSE
  BY DEF Open, In
<1> HIDE DEF stream, in
<1>4. tail[0] \in Seq(Bytes)
  BY <1>1
<1>5. stream \in Seq(Bytes)
  BY <1>1, <1>2, <1>4, ConcatProperties
<1>6. PICK upTo \in [0..n -> Loaded] :
        /\ upTo[0] = In(<<>>, tail[0], FALSE)
        /\ \A i \in 1..n : upTo[i] = Emplace(upTo[i - 1])
        /\ LoadMap(in) = upTo[n]
  <2>1. n < SizeLimit
    OBVIOUS
  <2>2. in.rest = SaveNumber(n) \o tail[0]
    BY <1>2, <1>3
  <2> HIDE DEF n
  <2>3. LoadsItems(in, n, tail[0])
    BY <1>1, <1>3, <1>4, <2>1, <2>2, SizeIsLoaded
  <2> QED
    BY <2>3 DEF LoadsItems
<1>7. upTo[n] = In(SubSeq(items, 1, n), tail[n], FALSE)
  BY <1>1, <1>2, <1>6, FrontIsLoaded
<1>8. SubSeq(items, 1, n) = items
  BY SubSeqFull
<1> QED
  BY <1>2, <1>5, <1>6, <1>7, <1>8 DEF stream, in

(* Of an empty stream no map is read.                                      *)
LEMMA NothingLoads == LoadMap(Open(<<>>)).thrown
<1> DEFINE in == Open(<<>>)
<1>1. in.rest = <<>> /\ in.thrown = FALSE
  BY DEF Open, In
<1> HIDE DEF in
<1>2. Stream(in)
  BY <1>1, EmptySeq DEF Stream
<1>3. LoadNumber(in).thrown
  <2>1. Len(in.rest) < SizeBytes
    BY <1>1, SizeBytesIs
  <2>2. loadBinary(in, SizeBytes).thrown
    BY <2>1 DEF loadBinary, In
  <2> QED
    BY <2>2 DEF LoadNumber, In
<1>4. LoadNumber(in).value = 0
  BY <1>2, <1>3, NumberIs
<1>5. PICK upTo \in [0..LoadNumber(in).value -> Loaded] :
        /\ upTo[0] = In(<<>>, LoadNumber(in).rest, LoadNumber(in).thrown)
        /\ LoadMap(in) = upTo[LoadNumber(in).value]
  BY <1>2, LoadMapDef
<1>6. LoadMap(in) = In(<<>>, LoadNumber(in).rest, LoadNumber(in).thrown)
  BY <1>4, <1>5
<1> QED
  BY <1>3, <1>6 DEF in, In

-----------------------------------------------------------------------------
(* Streams that lost their last bytes and have others instead.             *)
Filled(s, missing, rest) == SubSeq(s, 1, Len(s) - missing) \o rest

(* What stands in front of the loss is as it was.                          *)
LEMMA FilledBehind ==
  ASSUME NEW x \in Seq(Bytes), NEW y \in Seq(Bytes), NEW rest \in Seq(Bytes),
         NEW missing \in 0..Len(y)
  PROVE  /\ Filled(y, missing, rest) \in Seq(Bytes)
         /\ Filled(x \o y, missing, rest) = x \o Filled(y, missing, rest)
<1> DEFINE n == Len(y) - missing
           a == SubSeq(y, 1, n)
           b == SubSeq(y, n + 1, Len(y))
           whole == x \o y
<1>1. Len(y) \in Nat /\ Len(x) \in Nat /\ missing \in Nat /\ n \in Nat /\ n <= Len(y)
  BY LenProperties
<1>2. a \in Seq(Bytes) /\ Len(a) = n /\ b \in Seq(Bytes) /\ y = a \o b
  BY <1>1, Splits
<1>3. Filled(y, missing, rest) = a \o rest
  BY DEF Filled
<1> HIDE DEF a, b
<1>4. x \o a \in Seq(Bytes) /\ Len(x \o a) = Len(x) + n
  BY <1>2, ConcatProperties
<1>5. whole = (x \o a) \o b
  <2>1. (x \o a) \o b = x \o (a \o b)
    BY <1>2, ConcatAssociative
  <2> QED
    BY <1>2, <2>1
<1>6. Len(whole) = Len(x) + Len(y)
  BY ConcatProperties
<1> HIDE DEF whole
<1>7. Len(whole) - missing = Len(x \o a)
  BY <1>1, <1>4, <1>6
<1>8. SubSeq(whole, 1, Len(x \o a)) = x \o a
  BY <1>2, <1>4, <1>5, SplitsAt
<1>9. Filled(whole, missing, rest) = (x \o a) \o rest
  BY <1>7, <1>8 DEF Filled
<1>10. (x \o a) \o rest = x \o (a \o rest)
  BY <1>2, ConcatAssociative
<1>11. a \o rest \in Seq(Bytes)
  BY <1>2, ConcatProperties
<1> QED
  BY <1>3, <1>9, <1>10, <1>11 DEF whole

LEMMA FrontOfItems ==
  ASSUME NEW items \in Seq(StoreItems), NEW k \in 0..Len(items)
  PROVE  /\ SubSeq(items, 1, k) \in Seq(StoreItems) /\ Len(SubSeq(items, 1, k)) = k
         /\ \A i \in 1..k : SubSeq(items, 1, k)[i] = items[i]
<1>1. /\ k \in Int /\ 1 \in Int /\ k >= 0 /\ k - 1 + 1 = k
      /\ \A i \in 1..k : items[i] \in StoreItems /\ 1 + i - 1 = i
  BY LenProperties, ElementOfSeq
<1>2. /\ SubSeq(items, 1, k) \in Seq(StoreItems)
      /\ Len(SubSeq(items, 1, k)) = IF 1 <= k THEN k - 1 + 1 ELSE 0
      /\ \A i \in 1..(k - 1 + 1) : SubSeq(items, 1, k)[i] = items[1 + i - 1]
  BY <1>1, SubSeqProperties
<1> QED
  BY <1>1, <1>2

(* The first items of a stream end where those behind them begin.          *)
LEMMA UpToIs ==
  ASSUME NEW items \in Seq(StoreItems), NEW k \in 0..Len(items),
         NEW tail \in [0..Len(items) -> Seq(Bytes)],
         SaveMap(items) = SaveNumber(Len(items)) \o tail[0],
         \A i \in 1..Len(items) : tail[i - 1] = SaveMapItem(items[i]) \o tail[i]
  PROVE  /\ UpTo(items, k) + Len(tail[k]) = Len(SaveMap(items))
         /\ \A i \in 0..k : Len(tail[k]) <= Len(tail[i])
<1> DEFINE n == Len(items)
           front == SubSeq(items, 1, k)
           size(i) == Len(SaveMapItem(items[i]))
<1>1. n \in Nat /\ k \in Nat /\ k <= n /\ \A i \in 1..n : items[i] \in StoreItems
  BY LenProperties, ElementOfSeq
<1>2. front \in Seq(StoreItems) /\ Len(front) = k /\ \A i \in 1..k : front[i] = items[i]
  BY FrontOfItems
<1> HIDE DEF front
<1>3. PICK back \in [0..k -> Seq(Bytes)] :
        /\ SaveMap(front) = SaveNumber(k) \o back[0]
        /\ \A i \in 1..k : back[i - 1] = SaveMapItem(front[i]) \o back[i]
        /\ back[k] = <<>>
  BY <1>2, SaveMapDef
<1>4. \A i \in 0..k : /\ tail[i] \in Seq(Bytes) /\ Len(tail[i]) \in Nat
                     /\ back[i] \in Seq(Bytes) /\ Len(back[i]) \in Nat
  <2> TAKE i \in 0..k
  <2>1. i \in 0..n
    BY <1>1
  <2>2. tail[i] \in Seq(Bytes) /\ back[i] \in Seq(Bytes)
    BY <1>3, <2>1
  <2> QED
    BY <2>2, LenProperties
<1>5. ASSUME NEW i \in 1..k
      PROVE  /\ size(i) \in Nat /\ Len(tail[i - 1]) = size(i) + Len(tail[i])
             /\ Len(back[i - 1]) = size(i) + Len(back[i])
  <2> DEFINE x == SaveMapItem(items[i])
  <2>1. i \in 1..n /\ i \in 0..k
    BY <1>1
  <2>2. x \in Seq(Bytes)
    BY <1>1, <2>1, SaveMapItemIs
  <2>3. front[i] = items[i]
    BY <1>2
  <2>4. tail[i - 1] = x \o tail[i] /\ back[i - 1] = x \o back[i]
    BY <1>3, <2>1, <2>3
  <2>5. tail[i] \in Seq(Bytes) /\ back[i] \in Seq(Bytes)
    BY <1>4, <2>1
  <2>6. Len(x) \in Nat
    BY <2>2, LenProperties
  <2> HIDE DEF x
  <2>7. Len(x \o tail[i]) = Len(x) + Len(tail[i]) /\ Len(x \o back[i]) = Len(x) + Len(back[i])
    BY <2>2, <2>5, ConcatProperties
  <2> QED
    BY <2>4, <2>6, <2>7 DEF x
<1> HIDE DEF size
<1> DEFINE T == {i \in 0..k : Len(tail[i]) - Len(back[i]) = Len(tail[0]) - Len(back[0])}
<1>6. 0 \in T
  BY <1>1
<1>7. ASSUME NEW i \in 0..(k - 1), i \in T
      PROVE  i + 1 \in T
  <2> DEFINE j == i + 1
  <2>1. j \in 1..k /\ j - 1 = i /\ j \in 0..k /\ i \in 0..k /\ 0 \in 0..k
    BY <1>1
  <2> HIDE DEF j
  <2>2. /\ size(j) \in Nat /\ Len(tail[i]) = size(j) + Len(tail[j])
        /\ Len(back[i]) = size(j) + Len(back[j])
    BY <1>5, <2>1
  <2>3. Len(tail[i]) - Len(back[i]) = Len(tail[0]) - Len(back[0])
    BY <1>7
  <2>5. Len(tail[j]) \in Nat /\ Len(back[j]) \in Nat
    BY <1>4, <2>1
  <2>6. Len(tail[0]) \in Nat /\ Len(back[0]) \in Nat
    BY <1>4, <2>1
  <2>4. Len(tail[j]) - Len(back[j]) = Len(tail[0]) - Len(back[0])
    <3> DEFINE a == Len(tail[i])
               b == Len(back[i])
               c == Len(tail[j])
               d == Len(back[j])
               e == Len(tail[0]) - Len(back[0])
               s == size(j)
    <3>1. a = s + c /\ b = s + d /\ a - b = e /\ s \in Nat /\ c \in Nat /\ d \in Nat
      BY <2>2, <2>3, <2>5
    <3> HIDE DEF a, b, c, d, e, s
    <3>2. c - d = e
      BY <3>1
    <3> QED
      BY <3>2 DEF c, d, e
  <2> QED
    BY <2>1, <2>4 DEF j
<1>8. \A i \in 0..k : i \in T
  <2> HIDE DEF T
  <2> QED
    BY <1>1, <1>6, <1>7, Induction
<1>9. 0 \in 0..k /\ k \in 0..k /\ Len(back[k]) = 0
  BY <1>1, <1>3
<1>10. \A i \in 0..k : Len(tail[i]) - Len(back[i]) = Len(tail[k])
  <2>1. Len(tail[k]) - Len(back[k]) = Len(tail[0]) - Len(back[0])
    BY <1>8, <1>9
  <2>2. Len(tail[k]) = Len(tail[0]) - Len(back[0])
    BY <1>4, <1>9, <2>1
  <2> TAKE i \in 0..k
  <2>3. Len(tail[i]) - Len(back[i]) = Len(tail[0]) - Len(back[0])
    BY <1>8
  <2> QED
    BY <2>2, <2>3
<1>11. Len(SaveMap(items)) = SizeBytes + Len(tail[0]) /\ UpTo(items, k) = SizeBytes + Len(back[0])
  <2>1. tail[0] \in Seq(Bytes) /\ back[0] \in Seq(Bytes)
    BY <1>4, <1>9
  <2>2. \A h \in Nat : SaveNumber(h) \in Seq(Bytes) /\ Len(SaveNumber(h)) = SizeBytes
    BY SaveNumberIs
  <2>3. /\ Len(SaveNumber(n) \o tail[0]) = Len(SaveNumber(n)) + Len(tail[0])
        /\ Len(SaveNumber(k) \o back[0]) = Len(SaveNumber(k)) + Len(back[0])
    BY <1>1, <2>1, <2>2, ConcatProperties
  <2>4. UpTo(items, k) = Len(SaveMap(front))
    BY DEF UpTo, front
  <2> QED
    BY <1>1, <1>3, <2>2, <2>3, <2>4
<1>12. UpTo(items, k) + Len(tail[k]) = Len(SaveMap(items))
  <2>1. Len(tail[0]) - Len(back[0]) = Len(tail[k])
    BY <1>9, <1>10
  <2>2. Len(tail[0]) \in Nat /\ Len(back[0]) \in Nat /\ Len(tail[k]) \in Nat
    BY <1>4, <1>9
  <2> DEFINE t == Len(tail[0])
             b == Len(back[0])
             r == Len(tail[k])
             whole == Len(SaveMap(items))
             part == UpTo(items, k)
  <2>3. /\ t \in Nat /\ b \in Nat /\ r \in Nat /\ t - b = r
        /\ whole = SizeBytes + t /\ part = SizeBytes + b
    BY <1>11, <2>1, <2>2
  <2> HIDE DEF t, b, r, whole, part
  <2>4. part + r = whole
    BY <2>3, SizeBytesIs
  <2> QED
    BY <2>4 DEF r, whole, part
<1>13. ASSUME NEW i \in 0..k
       PROVE  Len(tail[k]) <= Len(tail[i])
  <2>1. Len(tail[i]) - Len(back[i]) = Len(tail[k])
    BY <1>10
  <2> QED
    BY <1>4, <2>1
<1> QED
  BY <1>12, <1>13

(* A map that gets another item keeps those it had.                        *)
LEMMA EmplaceGrows ==
  ASSUME NEW map \in Loaded, NEW k \in 0..Len(map.value)
  PROVE  /\ Len(Emplace(map).value) = Len(map.value) + 1
         /\ SubSeq(Emplace(map).value, 1, k) = SubSeq(map.value, 1, k)
<1> DEFINE item == LoadMapItem(map)
           old == map.value
           new == Append(old, item.value)
<1>1. Stream(map) /\ old \in Seq(MapItems)
  BY DEF Loaded, Stream
<1>2. item.value \in MapItems
  BY <1>1, MapItemIs
<1>3. Emplace(map).value = new
  BY DEF Emplace, In
<1> HIDE DEF item
<1>4. /\ new \in Seq(MapItems) /\ Len(new) = Len(old) + 1
      /\ \A i \in 1..Len(old) : new[i] = old[i]
  BY <1>1, <1>2, AppendProperties
<1> HIDE DEF old, new
<1>5. Len(old) \in Nat /\ k \in 0..Len(old) /\ k \in Int /\ 1 \in Int
  BY <1>1, LenProperties DEF old
<1>6. \A i \in 1..k : i \in 1..Len(old) /\ i \in 1..Len(new) /\ 1 + i - 1 = i
  BY <1>4, <1>5
<1>7. \A i \in 1..k : old[i] \in MapItems /\ new[i] \in MapItems
  BY <1>1, <1>4, <1>6, ElementOfSeq
<1> DEFINE x == SubSeq(new, 1, k)
           y == SubSeq(old, 1, k)
<1>8. /\ x \in Seq(MapItems) /\ Len(x) = (IF 1 <= k THEN k - 1 + 1 ELSE 0)
      /\ \A i \in 1..(k - 1 + 1) : x[i] = new[1 + i - 1]
  BY <1>5, <1>7, SubSeqProperties
<1>9. /\ y \in Seq(MapItems) /\ Len(y) = (IF 1 <= k THEN k - 1 + 1 ELSE 0)
      /\ \A i \in 1..(k - 1 + 1) : y[i] = old[1 + i - 1]
  BY <1>5, <1>7, SubSeqProperties
<1> HIDE DEF x, y
<1>10. Len(x) = Len(y) /\ \A i \in 1..Len(x) : x[i] = y[i]
  BY <1>4, <1>5, <1>6, <1>8, <1>9
<1>11. x = y
  BY <1>8, <1>9, <1>10, SeqEqual
<1> QED
  BY <1>3, <1>4, <1>11 DEF old, x, y

(* What a torn stream is read as begins with what was saved, as far as the *)
(* stream does, and has as many items.                                     *)
LEMMA TornIsLoaded ==
  ASSUME NEW items \in Seq(StoreItems), Len(items) < SizeLimit,
         NEW missing \in 0..Len(SaveMap(items)), NEW rest \in Seq(Bytes),
         NEW k \in 0..Len(items), UpTo(items, k) <= Len(SaveMap(items)) - missing,
         NEW map, map = LoadMap(Open(Filled(SaveMap(items), missing, rest)))
  PROVE  /\ Len(map.value) = Len(items)
         /\ SubSeq(map.value, 1, k) = SubSeq(items, 1, k)
<1> DEFINE n == Len(items)
           stream == SaveMap(items)
           in == Open(Filled(stream, missing, rest))
           front == SubSeq(items, 1, k)
<1>1. /\ n \in Nat /\ k \in Nat /\ k <= n /\ 0 \in 0..n /\ n \in 0..n /\ k \in 0..n
      /\ SaveNumber(n) \in Seq(Bytes)
  BY LenProperties, SaveNumberIs
<1>2. PICK tail \in [0..n -> Seq(Bytes)] :
        /\ stream = SaveNumber(n) \o tail[0]
        /\ \A i \in 1..n : tail[i - 1] = SaveMapItem(items[i]) \o tail[i]
        /\ tail[n] = <<>>
  BY SaveMapDef
<1>3. \A i \in 0..n : tail[i] \in Seq(Bytes) /\ Len(tail[i]) \in Nat
  BY <1>2, LenProperties
<1>4. Len(stream) = UpTo(items, k) + Len(tail[k]) /\ \A i \in 0..k : Len(tail[k]) <= Len(tail[i])
  BY <1>2, UpToIs
<1>5. front \in Seq(StoreItems) /\ Len(front) = k
  BY FrontOfItems
<1>6. in.rest = Filled(stream, missing, rest) /\ in.thrown = FALSE
  BY DEF Open, In
<1>7. map = LoadMap(in)
  OBVIOUS
<1>8. Len(stream) \in Nat /\ UpTo(items, k) \in Nat /\ missing \in Nat
  <2>1. stream \in Seq(Bytes) /\ SaveMap(front) \in Seq(Bytes)
    <3>1. Len(front) < SizeLimit
      <4>1. SizeLimit \in Nat
        BY LimitDef, SizeBytesIs
      <4> QED
        BY <1>1, <1>5, <4>1
    <3> QED
      BY <1>5, <3>1, MapIsLoaded
  <2>2. Len(stream) \in Nat /\ Len(SaveMap(front)) \in Nat
    BY <2>1, LenProperties
  <2> QED
    BY <2>2 DEF UpTo
<1> HIDE DEF stream, in, front
<1>9. \A i \in 0..k : i \in 0..n /\ missing \in 0..Len(tail[i])
  <2> TAKE i \in 0..k
  <2>1. i \in 0..n
    BY <1>1
  <2>2. UpTo(items, k) <= Len(stream) - missing
    BY DEF stream
  <2>3. Len(tail[i]) \in Nat /\ Len(tail[k]) \in Nat /\ Len(tail[k]) <= Len(tail[i])
    BY <1>1, <1>3, <1>4, <2>1
  <2> QED
    BY <1>4, <1>8, <2>1, <2>2, <2>3
<1> DEFINE torn == [i \in 0..k |-> Filled(tail[i], missing, rest)]
<1>10. ASSUME NEW i \in 0..k
       PROVE  torn[i] \in Seq(Bytes)
  <2>1. Filled(tail[i], missing, rest) \in Seq(Bytes)
    BY <1>1, <1>3, <1>9, FilledBehind
  <2> QED
    BY <2>1
<1>11. ASSUME NEW i \in 1..k
       PROVE  torn[i - 1] = SaveMapItem(items[i]) \o torn[i]
  <2> DEFINE x == SaveMapItem(items[i])
  <2>1. i \in 1..n /\ i - 1 \in 0..k /\ i \in 0..k
    BY <1>1
  <2>2. x \in Seq(Bytes)
    <3>1. items[i] \in StoreItems
      BY <2>1, ElementOfSeq
    <3> QED
      BY <3>1, SaveMapItemIs
  <2>3. tail[i - 1] = x \o tail[i]
    BY <1>2, <2>1
  <2> HIDE DEF x
  <2>4. Filled(x \o tail[i], missing, rest) = x \o Filled(tail[i], missing, rest)
    BY <1>3, <1>9, <2>1, <2>2, FilledBehind
  <2> QED
    BY <2>1, <2>3, <2>4 DEF x
<1>12. in.rest = SaveNumber(n) \o torn[0] /\ 0 \in 0..k
  <2>1. 0 \in 0..k
    BY <1>1
  <2>2. Filled(SaveNumber(n) \o tail[0], missing, rest)
          = SaveNumber(n) \o Filled(tail[0], missing, rest)
    BY <1>1, <1>3, <1>9, <2>1, FilledBehind
  <2> QED
    BY <1>2, <1>6, <2>1, <2>2
<1>13. torn \in [0..k -> Seq(Bytes)]
  BY <1>10
<1> HIDE DEF torn
<1>14. torn[0] \in Seq(Bytes)
  BY <1>10, <1>12
<1>15. PICK upTo \in [0..n -> Loaded] :
        /\ upTo[0] = In(<<>>, torn[0], FALSE)
        /\ \A i \in 1..n : upTo[i] = Emplace(upTo[i - 1])
        /\ LoadMap(in) = upTo[n]
  <2>1. n < SizeLimit
    OBVIOUS
  <2> HIDE DEF n
  <2>2. LoadsItems(in, n, torn[0])
    BY <1>1, <1>6, <1>12, <1>14, <2>1, SizeIsLoaded
  <2> QED
    BY <2>2 DEF LoadsItems
<1>16. upTo[k] = In(front, torn[k], FALSE)
  <2>1. \A i \in 1..k : i \in 1..n
    BY <1>1
  <2> QED
    BY <1>11, <1>13, <1>15, <2>1, FrontIsLoaded DEF front
<1> DEFINE T == {h \in 0..(n - k) : /\ Len(upTo[k + h].value) = k + h
                                    /\ SubSeq(upTo[k + h].value, 1, k) = front}
<1>17. 0 \in T
  <2>1. upTo[k].value = front /\ k + 0 = k /\ 0 \in 0..(n - k)
    BY <1>1, <1>16 DEF In
  <2>2. SubSeq(front, 1, k) = front
    BY <1>5, SubSeqFull
  <2> QED
    BY <1>5, <2>1, <2>2
<1>18. ASSUME NEW h \in 0..(n - k - 1), h \in T
       PROVE  h + 1 \in T
  <2> DEFINE i == k + h
             j == k + (h + 1)
  <2>1. j \in 1..n /\ j - 1 = i /\ i \in 0..n /\ j = i + 1 /\ i \in Nat /\ k <= i /\ h + 1 \in 0..(n - k)
    BY <1>1
  <2>2. Len(upTo[i].value) = i /\ SubSeq(upTo[i].value, 1, k) = front
    BY <1>18
  <2> HIDE DEF i, j
  <2>3. upTo[j] = Emplace(upTo[i])
    <3>1. upTo[j] = Emplace(upTo[j - 1])
      BY <1>15, <2>1
    <3> QED
      BY <2>1, <3>1
  <2>4. upTo[i] \in Loaded /\ k \in 0..Len(upTo[i].value)
    <3>1. k \in 0..i
      BY <1>1, <2>1
    <3> QED
      BY <2>1, <2>2, <3>1
  <2>5. /\ Len(Emplace(upTo[i]).value) = Len(upTo[i].value) + 1
        /\ SubSeq(Emplace(upTo[i]).value, 1, k) = SubSeq(upTo[i].value, 1, k)
    BY <2>4, EmplaceGrows
  <2>6. Len(upTo[j].value) = j /\ SubSeq(upTo[j].value, 1, k) = front
    BY <2>1, <2>2, <2>3, <2>5
  <2> QED
    BY <2>1, <2>6 DEF j
<1>19. n - k \in T
  <2>1. n - k \in Nat /\ n - k \in 0..(n - k)
    BY <1>1
  <2> HIDE DEF T
  <2> QED
    BY <1>17, <1>18, <2>1, Induction
<1>20. Len(upTo[n].value) = n /\ SubSeq(upTo[n].value, 1, k) = front
  <2>1. k + (n - k) = n
    BY <1>1
  <2> QED
    BY <1>19, <2>1
<1> QED
  BY <1>7, <1>15, <1>20 DEF front

-----------------------------------------------------------------------------
(* The items of a store, in any order of iteration, fit their sizes.       *)
LEMMA StoreFits ==
  ASSUME NEW b, NEW i \in Positions, NEW order \in Orders(b, i)
  PROVE  /\ Items(order, i) \in Seq(StoreItems)
         /\ Len(Items(order, i)) < SizeLimit
<1>1. PICK n \in 0..MaxRecords : order \in [1..n -> Universe]
  BY DEF Orders
<1>2. MaxRecords \in Nat /\ MaxRecords < SizeLimit
  BY FS_CardinalityType, MaxCopiesAssumption, MaxRecordsAssumption DEF MaxRecords
<1>3. SizeLimit \in Nat
  BY LimitDef, SizeBytesIs
<1>4. n \in Nat /\ n < SizeLimit
  BY <1>2, <1>3
<1>5. ASSUME NEW k \in 1..n
      PROVE  Item(order[k], i) \in StoreItems
  <2> DEFINE t == order[k]
  <2>1. t \in Terms \X Terms \X Terms
    BY <1>1, UniverseAssumption
  <2>2. \A p \in 1..3 : t[p] \in Terms
    BY <2>1
  <2> HIDE DEF t
  <2>3. \A p \in 1..3 : Text[t[p]] \in Seq(Bytes) /\ Len(Text[t[p]]) < SizeLimit
    BY <2>2, TextAssumption
  <2>4. Item(t, i) = [key |-> Text[t[i]], value |-> [p \in 1..3 |-> Text[t[p]]]]
    BY DEF Item, Positions
  <2>5. i \in 1..3
    BY DEF Positions
  <2>6. Item(t, i) \in StoreItems
    BY <2>3, <2>4, <2>5 DEF StoreItems
  <2> QED
    BY <2>6 DEF t
<1>6. Items(order, i) = [k \in 1..n |-> Item(order[k], i)]
  BY <1>1 DEF Items
<1>7. Items(order, i) \in [1..n -> StoreItems]
  BY <1>5, <1>6
<1> QED
  BY <1>4, <1>7

(* A start reads what a SAVE wrote: for every store, every iteration order,*)
(* every length of the terms and every width of a size that holds them.    *)
THEOREM StoresAreLoaded == Spec => []SavedIsLoaded
<1>1. SavedIsLoaded
  <2> SUFFICES ASSUME NEW i \in Positions, NEW order \in Orders(m[i], i)
               PROVE  loadDataFromFile(saveDataToFile(order, i))
                        = {In(Items(order, i), <<>>, FALSE)}
    BY DEF SavedIsLoaded
  <2> DEFINE data == SaveMap(Items(order, i))
             file == saveDataToFile(order, i)
             rests(n) == {r \in Unwritten(n) : r \in Seq(Bytes) /\ Len(r) = n}
  <2>1. data \in Seq(Bytes) /\ LoadMap(Open(data)) = In(Items(order, i), <<>>, FALSE)
    BY StoreFits, MapIsLoaded
  <2>2. file.length = Len(data) /\ file.data = data
    BY DEF saveDataToFile, Compress
  <2>3. Uncompress(file) = IF file.length = Unreadable THEN {<<>>}
                           ELSE {file.data \o rest : rest \in rests(file.length - Len(file.data))}
    BY DEF Uncompress
  <2> HIDE DEF data, file, rests
  <2>4. Len(data) \in Nat /\ Len(data) # -1 /\ Len(data) - Len(data) = 0
    <3>1. Len(data) \in Nat
      BY <2>1, LenProperties
    <3> QED
      BY <3>1
  <2>5. rests(0) = {<<>>}
    BY UnwrittenAssumption, EmptySeq DEF rests
  <2>6. Uncompress(file) = {data}
    <3>1. data \o <<>> = data
      BY <2>1, ConcatEmptySeq
    <3>2. Uncompress(file) = {file.data \o rest : rest \in rests(0)}
      BY <2>2, <2>3, <2>4 DEF Unreadable
    <3> QED
      BY <2>2, <2>5, <3>1, <3>2
  <2>7. loadDataFromFile(file) = {LoadMap(Open(data))}
    BY <2>6 DEF loadDataFromFile
  <2> QED
    BY <2>1, <2>7 DEF file
<1> QED
  BY <1>1, PTL

(* A cut file is refused, or taken for a database that begins like the one *)
(* that was saved and has as many rows: for every store, every order, every*)
(* place of the cut, and whatever is found behind it.                      *)
THEOREM CutStoresKeepBeginnings == Spec => []CutKeepsBeginning
<1>1. CutKeepsBeginning
  <2> SUFFICES ASSUME NEW i \in Positions, NEW order \in Orders(m[i], i),
                      NEW file \in Cuts(saveDataToFile(order, i)),
                      NEW map \in loadDataFromFile(file), ~map.thrown
               PROVE  /\ file.length # Unreadable
                      /\ \A k \in 0..Len(Items(order, i)) :
                           UpTo(Items(order, i), k) <= Len(file.data) =>
                             /\ Len(map.value) = Len(Items(order, i))
                             /\ SubSeq(map.value, 1, k) = SubSeq(Items(order, i), 1, k)
    BY DEF CutKeepsBeginning
  <2> DEFINE items == Items(order, i)
             stream == SaveMap(items)
             whole == saveDataToFile(order, i)
  <2>1. items \in Seq(StoreItems) /\ Len(items) < SizeLimit
    BY StoreFits
  <2>2. stream \in Seq(Bytes)
    BY <2>1, MapIsLoaded
  <2>3. whole = [length |-> Len(stream), data |-> stream]
    BY DEF saveDataToFile, Compress
  <2>4. PICK data \in Uncompress(file) : map = LoadMap(Open(data))
    BY DEF loadDataFromFile
  <2> HIDE DEF items, stream, whole
  <2>5. CASE file = [length |-> Unreadable, data |-> <<>>]
    <3>1. data = <<>>
      BY <2>4, <2>5 DEF Uncompress
    <3>2. LoadMap(Open(<<>>)).thrown
      BY NothingLoads
    <3> QED
      BY <2>4, <3>1, <3>2
  <2>6. CASE file # [length |-> Unreadable, data |-> <<>>]
    <3>1. PICK n \in 0..(Len(stream) - 1) : file = [whole EXCEPT !.data = SubSeq(@, 1, n)]
      BY <2>3, <2>6 DEF Cuts, whole
    <3>2. Len(stream) \in Nat /\ n \in Nat /\ n <= Len(stream) /\ Len(stream) # -1
      <4>1. Len(stream) \in Nat
        BY <2>2, LenProperties
      <4> QED
        BY <4>1
    <3> DEFINE head == SubSeq(stream, 1, n)
               missing == Len(stream) - n
    <3>3. head \in Seq(Bytes) /\ Len(head) = n
      BY <2>2, <3>2, Splits
    <3>4. file.length = Len(stream) /\ file.data = head
      BY <2>3, <3>1
    <3>5. PICK rest \in Seq(Bytes) : data = head \o rest
      BY <2>4, <3>2, <3>4 DEF Uncompress, Unreadable
    <3>6. missing \in 0..Len(stream) /\ Len(stream) - missing = n
      BY <3>2
    <3>7. data = Filled(stream, missing, rest)
      BY <3>5, <3>6 DEF Filled
    <3> HIDE DEF head, missing
    <3>8. ASSUME NEW k \in 0..Len(items), UpTo(items, k) <= Len(file.data)
          PROVE  /\ Len(map.value) = Len(items)
                 /\ SubSeq(map.value, 1, k) = SubSeq(items, 1, k)
      <4>1. UpTo(items, k) <= Len(stream) - missing
        BY <3>3, <3>4, <3>6, <3>8
      <4>2. map = LoadMap(Open(Filled(stream, missing, rest)))
        BY <2>4, <3>7
      <4> QED
        BY <2>1, <3>6, <4>1, <4>2, TornIsLoaded DEF stream
    <3> QED
      BY <3>2, <3>4, <3>8 DEF Unreadable, items
  <2> QED
    BY <2>5, <2>6
<1> QED
  BY <1>1, PTL
=============================================================================
