-------------------------- MODULE QueryParser_proofs --------------------------
(***************************************************************************)
(* That every statement is parsed into a Query, and a well-formed one into *)
(* the Query that it says, for every set of statements of every length.    *)
(***************************************************************************)
EXTENDS QueryParser, Recursion, FiniteSetTheorems

LEMMA AtomsAre ==
  /\ Space # Quote /\ UpperLimit \notin {Space, Quote} /\ LowerLimit \notin {Space, Quote}
  /\ \A w \in Numerals : w \notin {Space, Quote}
  /\ \A w \in DOMAIN to_upper : w \notin {Space, Quote}
BY AtomsAssumption DEF Words

(* find and rfind: the first and the last place of an atom.                *)
LEMMA FindIs ==
  ASSUME NEW s \in Seq(Atoms), NEW x, NEW from \in Nat, from >= 1
  PROVE  /\ find(s, x, from) \in 1..(Len(s) + 1)
         /\ find(s, x, from) <= Len(s) =>
              /\ from <= find(s, x, from) /\ s[find(s, x, from)] = x
              /\ \A j \in from..Len(s) : s[j] = x => find(s, x, from) <= j
         /\ find(s, x, from) > Len(s) => \A j \in from..Len(s) : s[j] # x
<1> DEFINE at == {i \in from..Len(s) : s[i] = x}
<1>1. Len(s) \in Nat
  BY LenProperties
<1>2. find(s, x, from) = IF at = {} THEN Len(s) + 1
                         ELSE CHOOSE i \in at : \A j \in at : i <= j
  BY DEF find
<1>3. CASE at = {}
  <2>1. find(s, x, from) = Len(s) + 1 /\ \A j \in from..Len(s) : s[j] # x
    BY <1>2, <1>3
  <2> QED
    BY <1>1, <2>1
<1>4. CASE at # {}
  <2>1. at \in SUBSET Nat
    BY <1>1
  <2>2. \E i \in at : \A j \in at : i <= j
    <3> HIDE DEF at
    <3> QED
      BY <1>4, <2>1, Smallest
  <2>3. find(s, x, from) \in at /\ \A j \in at : find(s, x, from) <= j
    <3> HIDE DEF at
    <3>1. find(s, x, from) = CHOOSE i \in at : \A j \in at : i <= j
      BY <1>2, <1>4
    <3> QED
      BY <2>2, <3>1
  <2> QED
    BY <1>1, <2>3
<1> QED
  BY <1>3, <1>4

LEMMA RFindIs ==
  ASSUME NEW s \in Seq(Atoms), NEW x
  PROVE  /\ rfind(s, x) \in 1..(Len(s) + 1)
         /\ rfind(s, x) <= Len(s) => s[rfind(s, x)] = x
         /\ rfind(s, x) > Len(s) => \A j \in 1..Len(s) : s[j] # x
<1> DEFINE at == {i \in 1..Len(s) : s[i] = x}
<1>1. Len(s) \in Nat
  BY LenProperties
<1>2. rfind(s, x) = IF at = {} THEN Len(s) + 1
                    ELSE CHOOSE i \in at : \A j \in at : j <= i
  BY DEF rfind
<1>3. CASE at = {}
  <2>1. rfind(s, x) = Len(s) + 1 /\ \A j \in 1..Len(s) : s[j] # x
    BY <1>2, <1>3
  <2> QED
    BY <1>1, <2>1
<1>4. CASE at # {}
  <2>1. at \in SUBSET (0..Len(s))
    BY <1>1
  <2>2. \E i \in at : \A j \in at : j <= i
    <3> HIDE DEF at
    <3> QED
      BY <1>1, <1>4, <2>1, Largest
  <2>3. rfind(s, x) \in at
    <3> HIDE DEF at
    <3>1. rfind(s, x) = CHOOSE i \in at : \A j \in at : j <= i
      BY <1>2, <1>4
    <3> QED
      BY <2>2, <3>1
  <2> QED
    BY <1>1, <2>3
<1> QED
  BY <1>3, <1>4

-----------------------------------------------------------------------------
(* Counting quotes.                                                        *)
LEMMA QuotesStep ==
  ASSUME NEW s, NEW i \in Nat
  PROVE  /\ QuotesUpTo(s, 0) = 0
         /\ QuotesUpTo(s, i) \in Nat
         /\ QuotesUpTo(s, i + 1) = QuotesUpTo(s, i) + (IF s[i + 1] = Quote THEN 1 ELSE 0)
<1> DEFINE at(k) == {j \in 1..k : s[j] = Quote}
<1>1. \A k \in Nat : IsFiniteSet(at(k))
  <2> TAKE k \in Nat
  <2>1. IsFiniteSet(1..k)
    BY FS_Interval
  <2> QED
    BY <2>1, FS_Subset
<1>2. \A k : QuotesUpTo(s, k) = Cardinality(at(k))
  BY DEF QuotesUpTo
<1>3. at(0) = {}
  OBVIOUS
<1>4. QuotesUpTo(s, 0) = 0
  BY <1>2, <1>3, FS_EmptySet
<1>5. QuotesUpTo(s, i) \in Nat
  BY <1>1, <1>2, FS_CardinalityType
<1>6. CASE s[i + 1] = Quote
  <2>1. at(i + 1) = at(i) \cup {i + 1} /\ i + 1 \notin at(i)
    BY <1>6
  <2> HIDE DEF at
  <2>2. Cardinality(at(i) \cup {i + 1}) = Cardinality(at(i)) + 1
    BY <1>1, <2>1, FS_AddElement
  <2> QED
    BY <1>2, <1>4, <1>5, <1>6, <2>1, <2>2
<1>7. CASE s[i + 1] # Quote
  <2>1. at(i + 1) = at(i)
    BY <1>7
  <2> HIDE DEF at
  <2> QED
    BY <1>2, <1>4, <1>5, <1>7, <2>1
<1> QED
  BY <1>6, <1>7

LEMMA NoQuote ==
  ASSUME NEW s, NEW i \in Nat, i >= 1, s[i] # Quote
  PROVE  QuotesUpTo(s, i) = QuotesUpTo(s, i - 1)
<1>1. i - 1 \in Nat /\ i - 1 + 1 = i
  OBVIOUS
<1>2. /\ QuotesUpTo(s, i - 1) \in Nat
      /\ QuotesUpTo(s, i - 1 + 1)
           = QuotesUpTo(s, i - 1) + (IF s[i - 1 + 1] = Quote THEN 1 ELSE 0)
  BY <1>1, QuotesStep
<1> QED
  BY <1>1, <1>2

(* There are no fewer up to a later place.                                 *)
LEMMA QuotesMonotonic ==
  ASSUME NEW s, NEW i \in Nat, NEW j \in Nat, i <= j
  PROVE  QuotesUpTo(s, i) <= QuotesUpTo(s, j)
<1> DEFINE n == j - i
           T == {k \in 0..n : QuotesUpTo(s, i) <= QuotesUpTo(s, i + k)}
<1>1. n \in Nat /\ \A k \in Nat : QuotesUpTo(s, k) \in Nat
  BY QuotesStep
<1>2. 0 \in T
  <2>1. i + 0 = i /\ 0 \in 0..n
    BY <1>1
  <2> QED
    BY <1>1, <2>1
<1>3. ASSUME NEW k \in 0..(n - 1), k \in T
      PROVE  k + 1 \in T
  <2>1. i + k \in Nat /\ i + (k + 1) = i + k + 1 /\ k + 1 \in 0..n
    BY <1>1
  <2>2. QuotesUpTo(s, i + k + 1)
          = QuotesUpTo(s, i + k) + (IF s[i + k + 1] = Quote THEN 1 ELSE 0)
    BY <2>1, QuotesStep
  <2>3. QuotesUpTo(s, i) <= QuotesUpTo(s, i + k)
    BY <1>3
  <2>4. QuotesUpTo(s, i) <= QuotesUpTo(s, i + (k + 1))
    BY <1>1, <2>1, <2>2, <2>3
  <2> QED
    BY <2>1, <2>4
<1>4. \A k \in 0..n : k \in T
  <2> HIDE DEF T
  <2> QED
    BY <1>1, <1>2, <1>3, Induction
<1>5. n \in 0..n /\ i + n = j
  BY <1>1
<1>6. n \in T
  BY <1>4, <1>5
<1> QED
  BY <1>5, <1>6

(* The n-th quote, and that there is no other.                             *)
IsQuote(s, i, n) == i \in 1..Len(s) /\ s[i] = Quote /\ QuotesUpTo(s, i) = n

LEMMA OneQuote ==
  ASSUME NEW s \in Seq(Atoms), NEW n, NEW i, NEW j, IsQuote(s, i, n), IsQuote(s, j, n)
  PROVE  i = j
<1>1. ASSUME NEW x \in Nat, NEW y \in Nat, x < y, x >= 1, s[y] = Quote
      PROVE  QuotesUpTo(s, x) # QuotesUpTo(s, y)
  <2>1. y - 1 \in Nat /\ x <= y - 1 /\ y - 1 + 1 = y
    BY <1>1
  <2>2. /\ QuotesUpTo(s, x) <= QuotesUpTo(s, y - 1)
        /\ QuotesUpTo(s, x) \in Nat /\ QuotesUpTo(s, y - 1) \in Nat
    BY <2>1, QuotesMonotonic, QuotesStep
  <2>3. QuotesUpTo(s, y - 1 + 1) = QuotesUpTo(s, y - 1) + 1
    BY <1>1, <2>1, QuotesStep
  <2> QED
    BY <2>1, <2>2, <2>3
<1>2. i \in Nat /\ j \in Nat /\ i >= 1 /\ j >= 1
  BY LenProperties DEF IsQuote
<1>3. ~(i < j) /\ ~(j < i)
  BY <1>1, <1>2 DEF IsQuote
<1> QED
  BY <1>2, <1>3

LEMMA SomeQuote ==
  ASSUME NEW s \in Seq(Atoms), NEW n \in 1..QuotesUpTo(s, Len(s))
  PROVE  \E i : IsQuote(s, i, n)
<1> DEFINE U == {i \in 0..Len(s) : n <= QuotesUpTo(s, i)}
<1>1. Len(s) \in Nat /\ \A k \in Nat : QuotesUpTo(s, k) \in Nat
  BY LenProperties, QuotesStep
<1>2. Len(s) \in U /\ U \in SUBSET Nat
  BY <1>1
<1>3. PICK i \in U : \A j \in U : i <= j
  <2> HIDE DEF U
  <2> QED
    BY <1>2, Smallest
<1>4. i \in 1..Len(s) /\ n <= QuotesUpTo(s, i)
  BY <1>1, <1>3, QuotesStep
<1>5. i - 1 \in 0..Len(s) /\ i - 1 \in Nat /\ i - 1 + 1 = i /\ ~(i <= i - 1)
  BY <1>1, <1>4
<1>6. ~(n <= QuotesUpTo(s, i - 1))
  BY <1>3, <1>5
<1>7. QuotesUpTo(s, i - 1 + 1)
        = QuotesUpTo(s, i - 1) + (IF s[i - 1 + 1] = Quote THEN 1 ELSE 0)
  BY <1>5, QuotesStep
<1>8. QuotesUpTo(s, i) \in Nat /\ QuotesUpTo(s, i - 1) \in Nat
  <2>1. i \in Nat /\ i - 1 \in Nat
    BY <1>4, <1>5
  <2> QED
    BY <1>1, <2>1
<1>9. s[i] = Quote /\ QuotesUpTo(s, i) = n
  <2>1. CASE s[i] = Quote
    <3>1. QuotesUpTo(s, i) = QuotesUpTo(s, i - 1) + 1
      BY <1>5, <1>7, <2>1
    <3> QED
      BY <1>4, <1>6, <1>8, <2>1, <3>1
  <2>2. CASE s[i] # Quote
    <3>1. QuotesUpTo(s, i) = QuotesUpTo(s, i - 1)
      BY <1>5, <1>7, <1>8, <2>2
    <3> QED
      BY <1>4, <1>6, <3>1
  <2> QED
    BY <2>1, <2>2
<1> QED
  BY <1>4, <1>9 DEF IsQuote

quoteOf(s, n) == CHOOSE i \in 1..Len(s) : s[i] = Quote /\ QuotesUpTo(s, i) = n

LEMMA QuoteOfIs ==
  ASSUME NEW s \in Seq(Atoms), NEW n \in 1..QuotesUpTo(s, Len(s))
  PROVE  IsQuote(s, quoteOf(s, n), n)
<1>1. \E i \in 1..Len(s) : s[i] = Quote /\ QuotesUpTo(s, i) = n
  BY SomeQuote DEF IsQuote
<1> QED
  BY <1>1 DEF IsQuote, quoteOf

(* The quoted values of a statement.                                       *)
LEMMA QuotedInIs ==
  ASSUME NEW s \in Seq(Atoms)
  PROVE  LET n == QuotesUpTo(s, Len(s)) \div 2 IN
         /\ n \in Nat
         /\ QuotedIn(s) \in Seq(Seq(Atoms)) /\ Len(QuotedIn(s)) = n
         /\ QuotedIn(s) = [k \in 1..n |->
              Unquote(SubSeq(s, quoteOf(s, 2*k - 1) + 1, quoteOf(s, 2*k) - 1))]
<1> DEFINE all == QuotesUpTo(s, Len(s))
           n == all \div 2
           value(k) == SubSeq(s, quoteOf(s, 2*k - 1) + 1, quoteOf(s, 2*k) - 1)
<1>1. Len(s) \in Nat /\ \A i \in 1..Len(s) : s[i] \in Atoms
  BY LenProperties, ElementOfSeq
<1>2. all \in Nat
  BY <1>1, QuotesStep
<1>3. n \in Nat
  BY <1>2
<1>4. QuotedIn(s) = [k \in 1..n |-> Unquote(value(k))]
  BY DEF QuotedIn, quoteOf
<1>5. ASSUME NEW k \in 1..n
      PROVE  Unquote(value(k)) \in Seq(Atoms)
  <2> DEFINE x == quoteOf(s, 2*k - 1)
             y == quoteOf(s, 2*k)
  <2>1. 2*k - 1 \in 1..all /\ 2*k \in 1..all
    BY <1>2
  <2>2. x \in 1..Len(s) /\ y \in 1..Len(s)
    BY <2>1, QuoteOfIs DEF IsQuote
  <2> HIDE DEF x, y
  <2>3. SubSeq(s, x + 1, y - 1) \in Seq(Atoms)
    <3>1. x + 1 \in Int /\ y - 1 \in Int /\ \A i \in (x + 1)..(y - 1) : s[i] \in Atoms
      BY <1>1, <2>2
    <3> QED
      BY <3>1, SubSeqProperties
  <2>4. Wildcard \in Seq(Atoms)
    BY DEF Wildcard, Atoms, Words
  <2>5. Unquote(SubSeq(s, x + 1, y - 1)) \in Seq(Atoms)
    BY <2>3, <2>4 DEF Unquote
  <2> QED
    BY <2>5 DEF x, y
<1> HIDE DEF value
<1>6. QuotedIn(s) \in Seq(Seq(Atoms)) /\ Len(QuotedIn(s)) = n
  BY <1>3, <1>4, <1>5
<1> QED
  BY <1>3, <1>4, <1>6 DEF value

-----------------------------------------------------------------------------
(* A statement without the three atoms of its LIMIT, at i.                 *)
Without(s, i) == SubSeq(s, 1, i - 1) \o SubSeq(s, i + 3, Len(s))

LEMMA WithoutIs ==
  ASSUME NEW s \in Seq(Atoms), NEW i \in 1..Len(s), i + 2 <= Len(s)
  PROVE  /\ Without(s, i) \in Seq(Atoms) /\ Len(Without(s, i)) = Len(s) - 3
         /\ \A j \in 1..(i - 1) : Without(s, i)[j] = s[j]
         /\ \A j \in i..(Len(s) - 3) : Without(s, i)[j] = s[j + 3]
<1> DEFINE x == SubSeq(s, 1, i - 1)
           y == SubSeq(s, i + 3, Len(s))
           n == Len(s)
<1>1. n \in Nat /\ n \in Int /\ i \in 1..n /\ i + 2 <= n /\ \A j \in 1..n : s[j] \in Atoms
  BY LenProperties, ElementOfSeq
<1> HIDE DEF n
<1>2. x \in Seq(Atoms) /\ Len(x) = i - 1 /\ \A j \in 1..(i - 1) : x[j] = s[j]
  <2>1. 1 \in Int /\ i - 1 \in Int /\ \A j \in 1..(i - 1) : s[j] \in Atoms
    BY <1>1
  <2>2. /\ x \in Seq(Atoms) /\ Len(x) = IF 1 <= i - 1 THEN i - 1 - 1 + 1 ELSE 0
        /\ \A j \in 1..(i - 1 - 1 + 1) : x[j] = s[1 + j - 1]
    BY <2>1, SubSeqProperties
  <2> HIDE DEF x
  <2> QED
    BY <1>1, <2>2
<1>3. y \in Seq(Atoms) /\ Len(y) = n - i - 2 /\ \A j \in 1..(n - i - 2) : y[j] = s[i + 2 + j]
  <2>1. i + 3 \in Int /\ \A j \in (i + 3)..n : s[j] \in Atoms
    BY <1>1
  <2>2. /\ y \in Seq(Atoms) /\ Len(y) = IF i + 3 <= n THEN n - (i + 3) + 1 ELSE 0
        /\ \A j \in 1..(n - (i + 3) + 1) : y[j] = s[i + 3 + j - 1]
    BY <1>1, <2>1, SubSeqProperties DEF n
  <2> HIDE DEF y
  <2> QED
    BY <1>1, <2>2
<1>4. Without(s, i) = x \o y
  BY DEF Without
<1> HIDE DEF x, y
<1>5. /\ x \o y \in Seq(Atoms) /\ Len(x \o y) = Len(x) + Len(y)
      /\ \A j \in 1..(Len(x) + Len(y)) :
           (x \o y)[j] = IF j <= Len(x) THEN x[j] ELSE y[j - Len(x)]
  BY <1>2, <1>3, ConcatProperties
<1>6. Len(x) + Len(y) = n - 3
  BY <1>1, <1>2, <1>3
<1>7. ASSUME NEW j \in 1..(i - 1)
      PROVE  (x \o y)[j] = s[j]
  <2>1. j \in 1..(Len(x) + Len(y)) /\ j <= Len(x)
    BY <1>1, <1>2, <1>6
  <2> QED
    BY <1>2, <1>5, <2>1
<1>8. ASSUME NEW j \in i..(n - 3)
      PROVE  (x \o y)[j] = s[j + 3]
  <2>1. /\ j \in 1..(Len(x) + Len(y)) /\ ~(j <= Len(x)) /\ j - Len(x) = j - i + 1
        /\ j - i + 1 \in 1..(n - i - 2) /\ i + 2 + (j - i + 1) = j + 3
    BY <1>1, <1>2, <1>6
  <2>2. (x \o y)[j] = y[j - i + 1]
    BY <1>5, <2>1
  <2> QED
    BY <1>3, <2>1, <2>2
<1> QED
  BY <1>4, <1>5, <1>6, <1>7, <1>8 DEF n

(* It has the same quotes, each at its place or three places earlier.      *)
LEMMA QuotesWithout ==
  ASSUME NEW s \in Seq(Atoms), NEW i \in 1..Len(s), i + 2 <= Len(s),
         s[i] # Quote, s[i + 1] # Quote, s[i + 2] # Quote
  PROVE  /\ \A j \in 0..(i - 1) : QuotesUpTo(Without(s, i), j) = QuotesUpTo(s, j)
         /\ \A j \in (i - 1)..(Len(s) - 3) :
              QuotesUpTo(Without(s, i), j) = QuotesUpTo(s, j + 3)
<1> DEFINE n == Len(s)
           t == Without(s, i)
           T == {j \in 0..(i - 1) : QuotesUpTo(t, j) = QuotesUpTo(s, j)}
           m0 == n - 3 - (i - 1)
           U == {k \in 0..m0 : QuotesUpTo(t, i - 1 + k) = QuotesUpTo(s, i - 1 + k + 3)}
<1>1. n \in Nat /\ i \in 1..n /\ i + 2 <= n /\ i - 1 \in Nat /\ m0 \in Nat
  BY LenProperties
<1>2. /\ \A j \in 1..(i - 1) : t[j] = s[j]
      /\ \A j \in i..(n - 3) : t[j] = s[j + 3]
  BY WithoutIs
<1> HIDE DEF n, t
<1>3. 0 \in T
  BY <1>1, QuotesStep
<1>4. ASSUME NEW k \in 0..(i - 1 - 1), k \in T
      PROVE  k + 1 \in T
  <2>1. k \in Nat /\ k + 1 \in 1..(i - 1) /\ k + 1 \in 0..(i - 1)
    BY <1>1
  <2>2. /\ QuotesUpTo(t, k + 1) = QuotesUpTo(t, k) + (IF t[k + 1] = Quote THEN 1 ELSE 0)
        /\ QuotesUpTo(s, k + 1) = QuotesUpTo(s, k) + (IF s[k + 1] = Quote THEN 1 ELSE 0)
    BY <2>1, QuotesStep
  <2>3. t[k + 1] = s[k + 1] /\ QuotesUpTo(t, k) = QuotesUpTo(s, k)
    BY <1>2, <1>4, <2>1
  <2> QED
    BY <2>1, <2>2, <2>3
<1>5. \A k \in 0..(i - 1) : k \in T
  <2> HIDE DEF T
  <2> QED
    BY <1>1, <1>3, <1>4, Induction
<1>6. QuotesUpTo(s, i - 1 + 3) = QuotesUpTo(s, i - 1)
  <2>1. /\ i \in Nat /\ i + 1 \in Nat /\ i + 2 \in Nat /\ i >= 1 /\ i + 1 >= 1 /\ i + 2 >= 1
        /\ i + 1 - 1 = i /\ i + 2 - 1 = i + 1 /\ i + 2 = i - 1 + 3
    BY <1>1
  <2>2. QuotesUpTo(s, i) = QuotesUpTo(s, i - 1)
    BY <2>1, NoQuote
  <2>3. QuotesUpTo(s, i + 1) = QuotesUpTo(s, i + 1 - 1)
    BY <2>1, NoQuote
  <2>4. QuotesUpTo(s, i + 2) = QuotesUpTo(s, i + 2 - 1)
    BY <2>1, NoQuote
  <2> QED
    BY <2>1, <2>2, <2>3, <2>4
<1>7. 0 \in U
  <2>1. i - 1 \in 0..(i - 1) /\ i - 1 + 0 = i - 1 /\ 0 \in 0..m0
    BY <1>1
  <2>2. QuotesUpTo(t, i - 1) = QuotesUpTo(s, i - 1)
    BY <1>5, <2>1
  <2> QED
    BY <1>6, <2>1, <2>2
<1>8. ASSUME NEW k \in 0..(m0 - 1), k \in U
      PROVE  k + 1 \in U
  <2> DEFINE a == i - 1 + k
             b == i - 1 + k + 3
  <2>1. /\ a \in Nat /\ b \in Nat /\ i - 1 + (k + 1) = a + 1 /\ i - 1 + (k + 1) + 3 = b + 1
        /\ a + 1 \in i..(n - 3) /\ a + 1 + 3 = b + 1 /\ k + 1 \in 0..m0
    BY <1>1
  <2>2. QuotesUpTo(t, a) = QuotesUpTo(s, b)
    BY <1>8
  <2> HIDE DEF a, b
  <2>3. /\ QuotesUpTo(t, a + 1) = QuotesUpTo(t, a) + (IF t[a + 1] = Quote THEN 1 ELSE 0)
        /\ QuotesUpTo(s, b + 1) = QuotesUpTo(s, b) + (IF s[b + 1] = Quote THEN 1 ELSE 0)
    BY <2>1, QuotesStep
  <2>4. t[a + 1] = s[b + 1]
    BY <1>2, <2>1
  <2>5. QuotesUpTo(t, i - 1 + (k + 1)) = QuotesUpTo(s, i - 1 + (k + 1) + 3)
    BY <2>1, <2>2, <2>3, <2>4
  <2> QED
    BY <2>1, <2>5
<1>9. \A k \in 0..m0 : k \in U
  <2> HIDE DEF U, m0
  <2> QED
    BY <1>1, <1>7, <1>8, Induction
<1>10. ASSUME NEW j \in (i - 1)..(n - 3)
       PROVE  QuotesUpTo(t, j) = QuotesUpTo(s, j + 3)
  <2>1. j - (i - 1) \in 0..m0 /\ i - 1 + (j - (i - 1)) = j
    BY <1>1
  <2>2. j - (i - 1) \in U
    BY <1>9, <2>1
  <2> QED
    BY <2>1, <2>2
<1> QED
  BY <1>5, <1>10 DEF n, t

LEMMA QuoteWithout ==
  ASSUME NEW s \in Seq(Atoms), NEW i \in 1..Len(s), i + 2 <= Len(s),
         s[i] # Quote, s[i + 1] # Quote, s[i + 2] # Quote,
         NEW n, NEW j, IsQuote(Without(s, i), j, n)
  PROVE  /\ j \in 1..(Len(s) - 3)
         /\ j < i => IsQuote(s, j, n)
         /\ j >= i => IsQuote(s, j + 3, n)
<1> DEFINE t == Without(s, i)
<1>1. /\ Len(s) \in Nat /\ Len(t) = Len(s) - 3
      /\ \A k \in 1..(i - 1) : t[k] = s[k]
      /\ \A k \in i..(Len(s) - 3) : t[k] = s[k + 3]
  BY WithoutIs, LenProperties
<1>2. /\ \A k \in 0..(i - 1) : QuotesUpTo(t, k) = QuotesUpTo(s, k)
      /\ \A k \in (i - 1)..(Len(s) - 3) : QuotesUpTo(t, k) = QuotesUpTo(s, k + 3)
  BY QuotesWithout
<1>3. j \in 1..Len(t) /\ t[j] = Quote /\ QuotesUpTo(t, j) = n
  BY DEF IsQuote
<1> HIDE DEF t
<1>4. j \in 1..(Len(s) - 3) /\ i \in 1..Len(s) /\ j \in Nat /\ i \in Nat
  BY <1>1, <1>3
<1>5. CASE j < i
  <2>1. j \in 1..(i - 1) /\ j \in 0..(i - 1) /\ j \in 1..Len(s) /\ ~(j >= i)
    BY <1>1, <1>4, <1>5
  <2>2. s[j] = Quote /\ QuotesUpTo(s, j) = n
    BY <1>1, <1>2, <1>3, <2>1
  <2> QED
    BY <1>4, <2>1, <2>2 DEF IsQuote
<1>6. CASE ~(j < i)
  <2>1. j \in i..(Len(s) - 3) /\ j \in (i - 1)..(Len(s) - 3) /\ j + 3 \in 1..Len(s)
    BY <1>1, <1>4, <1>6
  <2>2. s[j + 3] = Quote /\ QuotesUpTo(s, j + 3) = n
    BY <1>1, <1>2, <1>3, <2>1
  <2> QED
    BY <1>4, <1>6, <2>1, <2>2 DEF IsQuote
<1> QED
  BY <1>5, <1>6

(* And it has the same values between its quotes, if i is not in quotes.   *)
LEMMA QuotedInWithout ==
  ASSUME NEW s \in Seq(Atoms), NEW i \in 1..Len(s), i + 2 <= Len(s),
         s[i] # Quote, s[i + 1] # Quote, s[i + 2] # Quote, ~QuotedAt(s, i)
  PROVE  QuotedIn(Without(s, i)) = QuotedIn(s)
<1> DEFINE t == Without(s, i)
           all == QuotesUpTo(s, Len(s))
           n == all \div 2
           x(k) == quoteOf(t, 2*k - 1)
           y(k) == quoteOf(t, 2*k)
<1>1. /\ t \in Seq(Atoms) /\ Len(t) = Len(s) - 3
      /\ \A k \in 1..(i - 1) : t[k] = s[k]
      /\ \A k \in i..(Len(s) - 3) : t[k] = s[k + 3]
  BY WithoutIs
<1>2. Len(s) \in Nat /\ i \in Nat /\ i >= 1 /\ i - 1 \in Nat
  BY LenProperties
<1>3. QuotesUpTo(t, Len(t)) = all
  <2>1. Len(s) - 3 \in (i - 1)..(Len(s) - 3) /\ Len(s) - 3 + 3 = Len(s)
    BY <1>2
  <2>2. QuotesUpTo(t, Len(s) - 3) = QuotesUpTo(s, Len(s) - 3 + 3)
    BY <2>1, QuotesWithout
  <2> QED
    BY <1>1, <2>1, <2>2
<1>4. all \in Nat
  BY <1>2, QuotesStep
<1>5. /\ QuotedIn(t) = [k \in 1..n |-> Unquote(SubSeq(t, x(k) + 1, y(k) - 1))]
      /\ QuotedIn(s) = [k \in 1..n |->
           Unquote(SubSeq(s, quoteOf(s, 2*k - 1) + 1, quoteOf(s, 2*k) - 1))]
  BY <1>1, <1>3, QuotedInIs
<1>6. QuotesUpTo(t, i - 1) % 2 # 1
  <2>1. QuotesUpTo(t, i - 1) = QuotesUpTo(s, i - 1)
    <3>1. i - 1 \in 0..(i - 1)
      BY <1>2
    <3> QED
      BY <3>1, QuotesWithout
  <2>2. QuotesUpTo(s, i) = QuotesUpTo(s, i - 1)
    BY <1>2, NoQuote
  <2> QED
    BY <2>1, <2>2 DEF QuotedAt
<1>7. \A j, m1, m2 : IsQuote(s, j, m1) /\ m1 \in 1..all => quoteOf(s, m1) = j
  <2> SUFFICES ASSUME NEW j, NEW m1, IsQuote(s, j, m1), m1 \in 1..all
               PROVE  quoteOf(s, m1) = j
    OBVIOUS
  <2>1. IsQuote(s, quoteOf(s, m1), m1)
    BY QuoteOfIs
  <2> QED
    BY <2>1, OneQuote
<1> HIDE DEF all, t
<1>8. ASSUME NEW k \in 1..n
      PROVE  SubSeq(t, x(k) + 1, y(k) - 1)
               = SubSeq(s, quoteOf(s, 2*k - 1) + 1, quoteOf(s, 2*k) - 1)
  <2> DEFINE a == x(k)
             b == y(k)
  <2>1. 2*k - 1 \in 1..all /\ 2*k \in 1..all
    BY <1>4
  <2>2. IsQuote(t, a, 2*k - 1) /\ IsQuote(t, b, 2*k)
    BY <1>1, <1>3, <2>1, QuoteOfIs
  <2>3. /\ a \in 1..(Len(s) - 3) /\ b \in 1..(Len(s) - 3)
        /\ (a < i => IsQuote(s, a, 2*k - 1)) /\ (a >= i => IsQuote(s, a + 3, 2*k - 1))
        /\ (b < i => IsQuote(s, b, 2*k)) /\ (b >= i => IsQuote(s, b + 3, 2*k))
    BY <2>2, QuoteWithout DEF t
  <2>4. QuotesUpTo(t, a) = 2*k - 1 /\ QuotesUpTo(t, b) = 2*k /\ t[b] = Quote
    BY <2>2 DEF IsQuote
  <2> HIDE DEF a, b
  <2>5. a \in Nat /\ b \in Nat /\ a >= 1 /\ b >= 1 /\ k \in Nat
    BY <1>4, <2>3
  <2>6. a < b
    <3> SUFFICES ASSUME ~(a < b)
                 PROVE  FALSE
      OBVIOUS
    <3>1. QuotesUpTo(t, b) <= QuotesUpTo(t, a)
      BY <2>5, QuotesMonotonic
    <3> QED
      BY <2>4, <2>5, <3>1
  <2>7. ~(a < i /\ b >= i)
    <3> SUFFICES ASSUME a < i, b >= i
                 PROVE  FALSE
      OBVIOUS
    <3>1. /\ b - 1 \in Nat /\ a <= i - 1 /\ i - 1 <= b - 1 /\ b - 1 + 1 = b
      BY <1>2, <2>5
    <3>2. /\ QuotesUpTo(t, a) <= QuotesUpTo(t, i - 1)
          /\ QuotesUpTo(t, i - 1) <= QuotesUpTo(t, b - 1)
      BY <1>2, <2>5, <3>1, QuotesMonotonic
    <3>3. /\ QuotesUpTo(t, b - 1 + 1)
               = QuotesUpTo(t, b - 1) + (IF t[b - 1 + 1] = Quote THEN 1 ELSE 0)
          /\ QuotesUpTo(t, b - 1) \in Nat
      BY <3>1, QuotesStep
    <3>4. QuotesUpTo(t, i - 1) \in Nat
      BY <1>2, QuotesStep
    <3>5. QuotesUpTo(t, i - 1) = 2*k - 1
      BY <2>4, <2>5, <3>1, <3>2, <3>3, <3>4
    <3>6. (2*k - 1) % 2 = 1
      BY <2>5
    <3> QED
      BY <1>6, <3>5, <3>6
  <2>8. ASSUME NEW d \in {0, 3}, quoteOf(s, 2*k - 1) = a + d, quoteOf(s, 2*k) = b + d,
               \A j \in (a + 1)..(b - 1) : t[j] = s[j + d]
        PROVE  SubSeq(t, a + 1, b - 1)
                 = SubSeq(s, quoteOf(s, 2*k - 1) + 1, quoteOf(s, 2*k) - 1)
    <3> DEFINE u == quoteOf(s, 2*k - 1)
               v == quoteOf(s, 2*k)
               p == SubSeq(t, a + 1, b - 1)
               r == SubSeq(s, u + 1, v - 1)
    <3>1. d \in Nat /\ d <= 3 /\ u = a + d /\ v = b + d /\ u \in Nat /\ v \in Nat
      BY <2>5, <2>8
    <3> HIDE DEF u, v
    <3>2. /\ p \in Seq(Atoms) /\ Len(p) = b - a - 1
          /\ \A j \in 1..(b - a - 1) : p[j] = t[a + j]
      <4>1. \A j \in (a + 1)..(b - 1) : t[j] \in Atoms
        <5> TAKE j \in (a + 1)..(b - 1)
        <5>1. j \in 1..Len(t)
          BY <1>1, <1>2, <2>3, <2>5
        <5> QED
          BY <1>1, <5>1, ElementOfSeq
      <4>2. /\ p \in Seq(Atoms)
            /\ Len(p) = IF a + 1 <= b - 1 THEN b - 1 - (a + 1) + 1 ELSE 0
            /\ \A j \in 1..(b - 1 - (a + 1) + 1) : p[j] = t[a + 1 + j - 1]
        BY <2>5, <4>1, SubSeqProperties
      <4> HIDE DEF p
      <4> QED
        BY <2>5, <2>6, <4>2
    <3>3. /\ r \in Seq(Atoms) /\ Len(r) = b - a - 1
          /\ \A j \in 1..(b - a - 1) : r[j] = s[a + j + d]
      <4>1. \A j \in (u + 1)..(v - 1) : s[j] \in Atoms
        <5> TAKE j \in (u + 1)..(v - 1)
        <5>1. j \in 1..Len(s)
          BY <1>2, <2>3, <2>5, <3>1
        <5> QED
          BY <5>1, ElementOfSeq
      <4>2. /\ r \in Seq(Atoms)
            /\ Len(r) = IF u + 1 <= v - 1 THEN v - 1 - (u + 1) + 1 ELSE 0
            /\ \A j \in 1..(v - 1 - (u + 1) + 1) : r[j] = s[u + 1 + j - 1]
        BY <2>5, <3>1, <4>1, SubSeqProperties
      <4> HIDE DEF r
      <4>3. /\ v - 1 - (u + 1) + 1 = b - a - 1 /\ (u + 1 <= v - 1 <=> a + 1 <= b - 1)
            /\ a \in Nat /\ b \in Nat /\ a < b
        BY <2>5, <2>6, <3>1
      <4>4. \A j \in 1..(b - a - 1) : u + 1 + j - 1 = a + j + d
        BY <3>1, <4>3
      <4>5. Len(r) = b - a - 1
        BY <4>2, <4>3
      <4>6. \A j \in 1..(b - a - 1) : r[j] = s[a + j + d]
        BY <4>2, <4>3, <4>4
      <4> QED
        BY <4>2, <4>5, <4>6
    <3> HIDE DEF p, r
    <3>4. \A j \in 1..Len(p) : p[j] = r[j]
      <4> TAKE j \in 1..Len(p)
      <4>1. j \in 1..(b - a - 1) /\ a + j \in (a + 1)..(b - 1)
        BY <2>5, <2>6, <3>2
      <4> QED
        BY <2>8, <3>2, <3>3, <4>1
    <3>5. p = r
      BY <3>2, <3>3, <3>4, SeqEqual
    <3> QED
      BY <3>5 DEF p, r, u, v
  <2>9. CASE b < i
    <3>1. a < i /\ IsQuote(s, a, 2*k - 1) /\ IsQuote(s, b, 2*k)
      BY <1>2, <2>3, <2>5, <2>6, <2>9
    <3>2. quoteOf(s, 2*k - 1) = a + 0 /\ quoteOf(s, 2*k) = b + 0
      BY <1>7, <2>1, <2>5, <3>1
    <3>3. \A j \in (a + 1)..(b - 1) : t[j] = s[j + 0]
      <4> TAKE j \in (a + 1)..(b - 1)
      <4>1. j \in 1..(i - 1) /\ j + 0 = j
        BY <1>2, <2>5, <2>9
      <4> QED
        BY <1>1, <4>1
    <3> QED
      BY <2>8, <3>2, <3>3 DEF a, b
  <2>10. CASE ~(b < i)
    <3>1. b >= i /\ a >= i
      BY <1>2, <2>5, <2>7, <2>10
    <3>2. quoteOf(s, 2*k - 1) = a + 3 /\ quoteOf(s, 2*k) = b + 3
      BY <1>7, <2>1, <2>3, <3>1
    <3>3. \A j \in (a + 1)..(b - 1) : t[j] = s[j + 3]
      <4> TAKE j \in (a + 1)..(b - 1)
      <4>1. j \in i..(Len(s) - 3)
        BY <1>2, <2>3, <2>5, <3>1
      <4> QED
        BY <1>1, <4>1
    <3> QED
      BY <2>8, <3>2, <3>3 DEF a, b
  <2> QED
    BY <2>9, <2>10
<1> HIDE DEF x, y, n
<1>9. QuotedIn(t) = QuotedIn(s)
  BY <1>5, <1>8
<1> QED
  BY <1>9 DEF t

-----------------------------------------------------------------------------
(* The words of a well-formed statement.                                   *)
LEMMA OneKeyword ==
  ASSUME NEW s \in Seq(Atoms), WellFormed(s),
         NEW i \in Keywords(s), NEW j \in Keywords(s)
  PROVE  i = j
<1> DEFINE K == Keywords(s)
<1>1. IsFiniteSet(K) /\ Cardinality(K) \in Nat
  <2>1. Len(s) \in Nat
    BY LenProperties
  <2>2. IsFiniteSet(1..Len(s))
    BY <2>1, FS_Interval
  <2>3. K \subseteq 1..Len(s)
    BY DEF Keywords
  <2> QED
    BY <2>2, <2>3, FS_Subset, FS_CardinalityType
<1>2. Cardinality(K) <= 1
  BY DEF WellFormed
<1>3. Cardinality(K) # 0
  BY <1>1, FS_EmptySet
<1>4. Cardinality(K) = 1
  BY <1>1, <1>2, <1>3
<1>5. PICK x : K = {x}
  BY <1>1, <1>4, FS_Singleton
<1> QED
  BY <1>5

LEMMA KeywordIs ==
  ASSUME NEW s \in Seq(Atoms), WellFormed(s), NEW i \in Keywords(s)
  PROVE  /\ i \in 1..Len(s) /\ i + 2 <= Len(s) /\ ~QuotedAt(s, i)
         /\ s[i] \in {UpperLimit, LowerLimit} /\ s[i + 1] = Space /\ s[i + 2] \in Numerals
         /\ i + 2 = Len(s) \/ s[i + 3] = Space
         /\ i > 1 /\ s[i - 1] = Space
         /\ s[i] \notin {Space, Quote} /\ s[i + 1] # Quote /\ s[i + 2] \notin {Space, Quote}
<1>1. /\ i + 2 <= Len(s) /\ ~QuotedAt(s, i)
      /\ s[i + 1] = Space /\ s[i + 2] \in Numerals
      /\ (i + 2 = Len(s) \/ s[i + 3] = Space)
      /\ i > 1 /\ s[i - 1] = Space
  BY DEF WellFormed
<1>2. i \in 1..Len(s) /\ s[i] \in {UpperLimit, LowerLimit}
  BY DEF Keywords
<1> HIDE DEF QuotedAt
<1>3. s[i] \notin {Space, Quote} /\ s[i + 1] # Quote
  BY <1>1, <1>2, AtomsAre
<1>4. s[i + 2] \notin {Space, Quote}
  BY <1>1, AtomsAre
<1> QED
  BY <1>1, <1>2, <1>3, <1>4

LEMMA SubSeqOne ==
  ASSUME NEW s \in Seq(Atoms), NEW a \in 1..Len(s), NEW b, b = a
  PROVE  SubSeq(s, a, b) # <<>> /\ SubSeq(s, a, b)[1] = s[a]
<1> DEFINE x == SubSeq(s, a, a)
<1>1. Len(s) \in Nat /\ a \in Int /\ \A j \in a..a : s[j] \in Atoms
  BY LenProperties, ElementOfSeq
<1>2. /\ x \in Seq(Atoms) /\ Len(x) = IF a <= a THEN a - a + 1 ELSE 0
      /\ \A j \in 1..(a - a + 1) : x[j] = s[a + j - 1]
  BY <1>1, SubSeqProperties
<1> HIDE DEF x
<1>3. a - a + 1 = 1 /\ a <= a /\ 1 \in 1..(a - a + 1) /\ a + 1 - 1 = a
  BY <1>1
<1>4. Len(x) = 1 /\ x[1] = s[a]
  BY <1>2, <1>3
<1>5. x # <<>>
  <2> SUFFICES ASSUME x = <<>>
               PROVE  FALSE
    OBVIOUS
  <2>1. Len(x) = 0
    BY EmptySeq
  <2> QED
    BY <1>4, <2>1
<1> QED
  BY <1>4, <1>5 DEF x

LEMMA LimitIs ==
  ASSUME NEW s \in Seq(Atoms), WellFormed(s), NEW i \in Keywords(s)
  PROVE  /\ HasLimit(s)
         /\ findLimit(s) = [text |-> Without(s, i), limit |-> atoi[s[i + 2]]]
<1> DEFINE n == Len(s)
<1>1. /\ n \in Nat /\ i \in 1..n /\ i \in Nat /\ i + 2 <= n
      /\ s[i] \in {UpperLimit, LowerLimit} /\ s[i + 1] = Space /\ s[i + 2] \in Numerals
      /\ (i + 2 = n \/ s[i + 3] = Space)
      /\ s[i] # Space /\ s[i + 2] # Space
  BY KeywordIs, LenProperties
<1>2. \A j \in 1..n : s[j] \in {UpperLimit, LowerLimit} => j = i
  BY OneKeyword DEF Keywords
<1> HIDE DEF n
<1>3. LimitAt(s) = i
  <2> DEFINE u == rfind(s, UpperLimit)
             l == rfind(s, LowerLimit)
  <2>1. /\ u \in 1..(n + 1) /\ (u <= n => s[u] = UpperLimit)
        /\ (u > n => \A j \in 1..n : s[j] # UpperLimit)
    BY RFindIs DEF n
  <2>2. /\ l \in 1..(n + 1) /\ (l <= n => s[l] = LowerLimit)
        /\ (l > n => \A j \in 1..n : s[j] # LowerLimit)
    BY RFindIs DEF n
  <2>3. LimitAt(s) = IF u <= n THEN u ELSE l
    BY DEF LimitAt, n
  <2> HIDE DEF u, l
  <2>4. CASE u <= n
    <3>1. u \in 1..n
      BY <1>1, <2>1, <2>4
    <3> QED
      BY <1>2, <2>1, <2>3, <2>4, <3>1
  <2>5. CASE ~(u <= n)
    <3>1. u > n
      BY <1>1, <2>1, <2>5
    <3>2. s[i] = LowerLimit
      BY <1>1, <2>1, <3>1
    <3>3. l \in 1..n
      BY <1>1, <2>2, <3>2
    <3>4. l <= n
      BY <1>1, <3>3
    <3> QED
      BY <1>2, <2>2, <2>3, <2>5, <3>3, <3>4
  <2> QED
    BY <2>4, <2>5
<1>4. find(s, Space, i) = i + 1
  <2> DEFINE f == find(s, Space, i)
  <2>1. /\ f \in 1..(n + 1)
        /\ (f <= n => /\ i <= f /\ s[f] = Space
                      /\ \A j \in i..n : s[j] = Space => f <= j)
        /\ (f > n => \A j \in i..n : s[j] # Space)
    BY <1>1, FindIs DEF n
  <2> HIDE DEF f
  <2>2. i + 1 \in i..n
    BY <1>1
  <2>3. f <= n /\ f <= i + 1 /\ i <= f /\ s[f] = Space
    BY <1>1, <2>1, <2>2
  <2>4. f # i
    BY <1>1, <2>3
  <2> QED
    BY <1>1, <2>1, <2>3, <2>4 DEF f
<1>5. find(s, Space, i + 2) = i + 3
  <2> DEFINE f == find(s, Space, i + 2)
  <2>1. /\ f \in 1..(n + 1)
        /\ (f <= n => /\ i + 2 <= f /\ s[f] = Space
                      /\ \A j \in (i + 2)..n : s[j] = Space => f <= j)
        /\ (f > n => \A j \in (i + 2)..n : s[j] # Space)
    BY <1>1, FindIs DEF n
  <2> HIDE DEF f
  <2>2. f # i + 2
    BY <1>1, <2>1
  <2>3. CASE i + 2 = n
    BY <1>1, <2>1, <2>2, <2>3 DEF f
  <2>4. CASE i + 2 # n
    <3>1. s[i + 3] = Space /\ i + 3 \in (i + 2)..n
      BY <1>1, <2>4
    <3>2. f <= n /\ f <= i + 3 /\ i + 2 <= f
      BY <1>1, <2>1, <3>1
    <3> QED
      BY <1>1, <2>1, <2>2, <3>2 DEF f
  <2> QED
    BY <2>3, <2>4
<1> DEFINE first == find(s, Space, i)
           second == find(s, Space, first + 1)
<1>6. findLimit(s) = [text |-> SubSeq(s, 1, i - 1) \o SubSeq(s, second, Len(s)),
                      limit |-> NumberOf(SubSeq(s, first + 1, second - 1))]
  BY <1>3 DEF findLimit
<1>7. first = i + 1 /\ second = i + 3
  <2>1. first + 1 = i + 2
    BY <1>1, <1>4
  <2> QED
    BY <1>4, <1>5, <2>1
<1> HIDE DEF first, second
<1>8. NumberOf(SubSeq(s, first + 1, second - 1)) = atoi[s[i + 2]]
  <2>1. first + 1 \in 1..Len(s) /\ second - 1 = first + 1 /\ first + 1 = i + 2
    BY <1>1, <1>7 DEF n
  <2> DEFINE x == SubSeq(s, first + 1, second - 1)
  <2>2. x # <<>> /\ x[1] = s[first + 1]
    BY <2>1, SubSeqOne
  <2>3. s[first + 1] = s[i + 2]
    BY <2>1
  <2> HIDE DEF x
  <2> QED
    BY <1>1, <2>2, <2>3 DEF NumberOf, x
<1>9. SubSeq(s, second, Len(s)) = SubSeq(s, i + 3, Len(s))
  BY <1>7
<1>10. HasLimit(s)
  BY <1>1, <1>3 DEF HasLimit, n
<1> QED
  BY <1>6, <1>8, <1>9, <1>10 DEF Without

(* Its command is what it was.                                             *)
LEMMA CommandWithout ==
  ASSUME NEW s \in Seq(Atoms), WellFormed(s), NEW i \in Keywords(s)
  PROVE  /\ CommandOf(Without(s, i)) = CommandOf(s)
         /\ find(Without(s, i), Space, 1) <= Len(Without(s, i))
         /\ find(s, Space, 1) <= Len(s)
<1> DEFINE t == Without(s, i)
           f == find(s, Space, 1)
           g == find(t, Space, 1)
<1>1. Len(s) \in Nat /\ i \in 1..Len(s) /\ i + 2 <= Len(s) /\ i > 1 /\ s[i - 1] = Space
  BY KeywordIs, LenProperties
<1>2. /\ t \in Seq(Atoms) /\ Len(t) = Len(s) - 3
      /\ \A j \in 1..(i - 1) : t[j] = s[j]
  BY <1>1, WithoutIs
<1> HIDE DEF t
<1>3. /\ f \in 1..(Len(s) + 1)
      /\ (f <= Len(s) => s[f] = Space /\ \A j \in 1..Len(s) : s[j] = Space => f <= j)
      /\ (f > Len(s) => \A j \in 1..Len(s) : s[j] # Space)
  BY FindIs
<1>4. /\ g \in 1..(Len(t) + 1)
      /\ (g <= Len(t) => t[g] = Space /\ \A j \in 1..Len(t) : t[j] = Space => g <= j)
      /\ (g > Len(t) => \A j \in 1..Len(t) : t[j] # Space)
  BY <1>2, FindIs
<1>5. i - 1 \in 1..Len(s) /\ i - 1 \in 1..Len(t) /\ i - 1 \in 1..(i - 1) /\ t[i - 1] = Space
  BY <1>1, <1>2
<1> HIDE DEF f, g
<1>6. f <= Len(s) /\ f <= i - 1 /\ g <= Len(t) /\ g <= i - 1
  BY <1>1, <1>2, <1>3, <1>4, <1>5
<1>7. f \in 1..(i - 1) /\ g \in 1..(i - 1) /\ f \in 1..Len(t) /\ g \in 1..Len(s)
  BY <1>1, <1>2, <1>3, <1>4, <1>6
<1>8. f = g
  <2>1. t[f] = Space /\ s[g] = Space
    BY <1>2, <1>3, <1>4, <1>6, <1>7
  <2>2. f <= g /\ g <= f
    BY <1>3, <1>4, <1>6, <1>7, <2>1
  <2> QED
    BY <1>1, <1>7, <2>2
<1>9. SubSeq(t, 1, f - 1) = SubSeq(s, 1, f - 1)
  <2> DEFINE x == SubSeq(t, 1, f - 1)
             y == SubSeq(s, 1, f - 1)
  <2>1. /\ 1 \in Int /\ f - 1 \in Int
        /\ \A j \in 1..(f - 1) : j \in 1..(i - 1) /\ j \in 1..Len(s)
    BY <1>1, <1>7
  <2>2. \A j \in 1..(f - 1) : s[j] \in Atoms /\ t[j] = s[j]
    BY <1>2, <2>1, ElementOfSeq
  <2>3. /\ x \in Seq(Atoms) /\ Len(x) = IF 1 <= f - 1 THEN f - 1 - 1 + 1 ELSE 0
        /\ \A j \in 1..(f - 1 - 1 + 1) : x[j] = t[1 + j - 1]
    BY <2>1, <2>2, SubSeqProperties
  <2>4. /\ y \in Seq(Atoms) /\ Len(y) = IF 1 <= f - 1 THEN f - 1 - 1 + 1 ELSE 0
        /\ \A j \in 1..(f - 1 - 1 + 1) : y[j] = s[1 + j - 1]
    BY <2>1, <2>2, SubSeqProperties
  <2> HIDE DEF x, y
  <2>5. Len(x) = Len(y) /\ \A j \in 1..Len(x) : x[j] = y[j]
    <3>1. Len(x) = Len(y) /\ Len(x) = f - 1 /\ f - 1 - 1 + 1 = f - 1
      BY <1>1, <1>7, <2>3, <2>4
    <3>2. ASSUME NEW j \in 1..(f - 1)
          PROVE  x[j] = y[j]
      <4>1. 1 + j - 1 = j
        OBVIOUS
      <4>2. x[j] = t[j] /\ y[j] = s[j]
        BY <2>3, <2>4, <3>1, <4>1
      <4> QED
        BY <2>2, <4>2
    <3> QED
      BY <3>1, <3>2
  <2>6. x = y
    BY <2>3, <2>4, <2>5, SeqEqual
  <2> QED
    BY <2>6 DEF x, y
<1>10. CommandOf(t) = CommandOf(s)
  BY <1>8, <1>9, Zenon DEF CommandOf, f, g
<1> QED
  BY <1>6, <1>10 DEF f, g, t

-----------------------------------------------------------------------------
(* Every statement gives three parameters and a limit that it spells.      *)
LEMMA ParametersAre ==
  ASSUME NEW s \in Seq(Atoms)
  PROVE  /\ ParametersOf(s) \in Seq(Seq(Atoms))
         /\ FillWildcards(ParametersOf(s)) \in Seq(Seq(Atoms))
         /\ Len(FillWildcards(ParametersOf(s))) = 3
<1> DEFINE S == Seq(Atoms)
           x == ParametersOf(s)
           y == x \o Nothing
<1>1. QuotedIn(s) \in Seq(S)
  BY QuotedInIs
<1>2. x \in Seq(S)
  BY <1>1, EmptySeq DEF ParametersOf
<1>3. Wildcard \in S
  BY DEF Wildcard, Atoms, Words
<1> HIDE DEF S, x
<1>4. Nothing \in Seq(S) /\ Len(Nothing) = 3
  BY <1>3 DEF Nothing
<1>5. y \in Seq(S) /\ Len(y) = Len(x) + Len(Nothing)
  BY <1>2, <1>4, ConcatProperties
<1> HIDE DEF y
<1>6. Len(x) \in Nat /\ Len(y) \in Nat /\ Len(y) >= 3
  BY <1>2, <1>4, <1>5, LenProperties
<1>7. SubSeq(y, 1, 3) \in Seq(S) /\ Len(SubSeq(y, 1, 3)) = 3
  <2>1. \A i \in 1..3 : i \in 1..Len(y)
    BY <1>6
  <2>2. \A i \in 1..3 : y[i] \in S
    BY <1>5, <2>1, ElementOfSeq
  <2>3. /\ SubSeq(y, 1, 3) \in Seq(S)
        /\ Len(SubSeq(y, 1, 3)) = IF 1 <= 3 THEN 3 - 1 + 1 ELSE 0
    BY <2>2, SubSeqProperties
  <2> QED
    BY <2>3
<1> QED
  BY <1>2, <1>7 DEF FillWildcards, S, x, y

LEMMA FindLimitIs ==
  ASSUME NEW s \in Seq(Atoms), HasLimit(s)
  PROVE  /\ findLimit(s).text \in Seq(Atoms)
         /\ findLimit(s).limit \in Range(atoi) \cup {NoLimit}
<1> DEFINE n == Len(s)
           found == LimitAt(s)
           first == find(s, Space, found)
           second == find(s, Space, first + 1)
           word == SubSeq(s, first + 1, second - 1)
           before == SubSeq(s, 1, found - 1)
           after == SubSeq(s, second, n)
<1>1. n \in Nat /\ \A j \in 1..n : s[j] \in Atoms
  BY LenProperties, ElementOfSeq
<1>2. findLimit(s) = [text |-> before \o after, limit |-> NumberOf(word)]
  BY DEF findLimit
<1>3. found \in 1..n
  <2>1. found \in 1..(n + 1)
    BY RFindIs DEF LimitAt
  <2>2. found <= n
    BY DEF HasLimit
  <2> HIDE DEF found, n
  <2> QED
    BY <1>1, <2>1, <2>2
<1> HIDE DEF n, found
<1>4. first \in 1..(n + 1)
  BY <1>1, <1>3, FindIs DEF n
<1> HIDE DEF first
<1>5. second \in 1..(n + 1)
  BY <1>1, <1>4, FindIs DEF n
<1> HIDE DEF second, word
<1>6. before \in Seq(Atoms)
  <2>1. 1 \in Int /\ found - 1 \in Int /\ \A j \in 1..(found - 1) : s[j] \in Atoms
    BY <1>1, <1>3
  <2> QED
    BY <2>1, SubSeqProperties
<1>7. after \in Seq(Atoms)
  <2>1. second \in Int /\ n \in Int /\ \A j \in second..n : s[j] \in Atoms
    BY <1>1, <1>5
  <2> QED
    BY <2>1, SubSeqProperties
<1> HIDE DEF before, after
<1>8. before \o after \in Seq(Atoms)
  BY <1>6, <1>7, ConcatProperties
<1>9. NumberOf(word) \in Range(atoi) \cup {NoLimit}
  BY NumbersAssumption DEF NumberOf, NoLimit, Range
<1> QED
  BY <1>2, <1>8, <1>9

-----------------------------------------------------------------------------
LEMMA FreshQueryIs ==
  /\ FreshQuery.command = "" /\ FreshQuery.limit = NoLimit
  /\ FreshQuery.parameters \in Seq(Seq(Atoms)) /\ Len(FreshQuery.parameters) = 3
<1> DEFINE S == Seq(Atoms)
           e == <<>>
<1>1. e \in S
  BY EmptySeq
<1>2. FreshQuery = [command |-> "", parameters |-> <<e, e, e>>, limit |-> NoLimit]
  BY DEF FreshQuery
<1> HIDE DEF S, e
<1>3. <<e, e, e>> \in Seq(S) /\ Len(<<e, e, e>>) = 3
  BY <1>1
<1> QED
  BY <1>2, <1>3 DEF S

(* The Query and the statement have their types.                           *)
THEOREM TypeCorrect == Spec => []TypeOK
<1>1. Init => TypeOK
  BY FreshQueryIs DEF Init, TypeOK
<1>2. TypeOK /\ [Next]_vars => TypeOK'
  <2> SUFFICES ASSUME TypeOK, [Next]_vars
               PROVE  TypeOK'
    OBVIOUS
  <2>1. ASSUME NEW s \in Texts, parse(s)
        PROVE  TypeOK'
    <3> DEFINE clause == IF HasLimit(s) THEN findLimit(s)
                         ELSE [text |-> s, limit |-> q.limit]
               command == CommandOf(clause.text)
               params == ParametersOf(clause.text)
    <3>1. s \in Seq(Atoms)
      BY TextsAssumption
    <3>2. clause.text \in Seq(Atoms) /\ clause.limit \in Range(atoi) \cup {NoLimit}
      BY <3>1, FindLimitIs DEF TypeOK
    <3>3. command \in ValidCommands \cup {""}
      BY SpellingAssumption DEF CommandOf
    <3>4. FillWildcards(params) \in Seq(Seq(Atoms)) /\ Len(FillWildcards(params)) = 3
      BY <3>2, ParametersAre
    <3>5. /\ written' = s
          /\ \/ fate' = "thrown" /\ UNCHANGED q
             \/ /\ q' = [command |-> command,
                         parameters |-> IF Bare(command) THEN q.parameters
                                        ELSE FillWildcards(params),
                         limit |-> clause.limit]
                /\ UNCHANGED fate
      BY <2>1 DEF parse
    <3> HIDE DEF clause, command, params
    <3>6. CASE fate' = "thrown" /\ UNCHANGED q
      BY <3>5, <3>6 DEF TypeOK
    <3>7. CASE /\ q' = [command |-> command,
                        parameters |-> IF Bare(command) THEN q.parameters
                                       ELSE FillWildcards(params),
                        limit |-> clause.limit]
               /\ UNCHANGED fate
      <4>1. /\ q'.command = command /\ q'.limit = clause.limit
            /\ q'.parameters = IF Bare(command) THEN q.parameters
                               ELSE FillWildcards(params)
        BY <3>7
      <4> QED
        BY <3>2, <3>3, <3>4, <3>5, <3>7, <4>1 DEF TypeOK
    <3> QED
      BY <3>5, <3>6, <3>7
  <2>2. CASE Execute
    BY <2>2 DEF Execute, TypeOK
  <2>3. CASE NewRequest
    BY <2>3, FreshQueryIs DEF NewRequest, TypeOK
  <2>4. CASE UNCHANGED vars
    BY <2>4 DEF vars, TypeOK
  <2> QED
    BY <2>1, <2>2, <2>3, <2>4 DEF Next
<1> QED
  BY <1>1, <1>2, PTL DEF Spec

(* The command and the values of a statement are those of its text without *)
(* the LIMIT, and no parameter is missed for the lack of a space.          *)
LEMMA ClauseIs ==
  ASSUME NEW s \in Seq(Atoms), WellFormed(s), NEW limit
  PROVE  LET clause == IF HasLimit(s) THEN findLimit(s)
                       ELSE [text |-> s, limit |-> limit]
         IN /\ CommandOf(clause.text) = CommandOf(s)
            /\ CommandOf(s) # "" => ParametersOf(clause.text) = QuotedIn(s)
            /\ \A i \in Keywords(s) : clause.limit = atoi[s[i + 2]]
<1> DEFINE clause == IF HasLimit(s) THEN findLimit(s) ELSE [text |-> s, limit |-> limit]
<1>1. CASE Keywords(s) # {}
  <2>1. PICK i \in Keywords(s) : TRUE
    BY <1>1
  <2>2. clause = [text |-> Without(s, i), limit |-> atoi[s[i + 2]]]
    BY LimitIs
  <2>3. /\ CommandOf(Without(s, i)) = CommandOf(s)
        /\ find(Without(s, i), Space, 1) <= Len(Without(s, i))
    BY CommandWithout
  <2>4. QuotedIn(Without(s, i)) = QuotedIn(s)
    <3>1. /\ i \in 1..Len(s) /\ i + 2 <= Len(s) /\ ~QuotedAt(s, i)
          /\ s[i] # Quote /\ s[i + 1] # Quote /\ s[i + 2] # Quote
      BY KeywordIs
    <3> QED
      BY <3>1, QuotedInWithout
  <2>5. \A j \in Keywords(s) : j = i
    BY OneKeyword
  <2>6. clause.text = Without(s, i) /\ clause.limit = atoi[s[i + 2]]
    BY <2>2
  <2>7. ParametersOf(Without(s, i)) = QuotedIn(s)
    BY <2>3, <2>4 DEF ParametersOf
  <2>8. \A j \in Keywords(s) : clause.limit = atoi[s[j + 2]]
    BY <2>5, <2>6
  <2> HIDE DEF clause
  <2>9. /\ CommandOf(clause.text) = CommandOf(s)
        /\ CommandOf(s) # "" => ParametersOf(clause.text) = QuotedIn(s)
    BY <2>3, <2>6, <2>7
  <2> QED
    BY <2>8, <2>9 DEF clause
<1>2. CASE Keywords(s) = {}
  <2>1. ~HasLimit(s)
    <3> SUFFICES ASSUME HasLimit(s)
                 PROVE  FALSE
      OBVIOUS
    <3> DEFINE u == rfind(s, UpperLimit)
               l == rfind(s, LowerLimit)
               n == Len(s)
    <3>1. n \in Nat
      BY LenProperties
    <3>2. /\ u \in 1..(n + 1) /\ (u <= n => s[u] = UpperLimit)
          /\ l \in 1..(n + 1) /\ (l <= n => s[l] = LowerLimit)
      BY RFindIs
    <3>3. u <= n \/ l <= n
      BY DEF HasLimit, LimitAt
    <3>4. \A i \in 1..n : s[i] # UpperLimit /\ s[i] # LowerLimit
      BY <1>2 DEF Keywords
    <3> HIDE DEF u, l, n
    <3> QED
      BY <3>1, <3>2, <3>3, <3>4
  <2>2. clause.text = s
    BY <2>1
  <2>3. ASSUME CommandOf(s) # ""
        PROVE  ParametersOf(s) = QuotedIn(s)
    <3> DEFINE f == find(s, Space, 1)
    <3>1. f \in 1..(Len(s) + 1) /\ Len(s) \in Nat
      BY FindIs, LenProperties
    <3>2. CASE f <= Len(s)
      BY <3>2 DEF ParametersOf
    <3>3. CASE ~(f <= Len(s))
      <4>1. f - 1 = Len(s)
        BY <3>1, <3>3
      <4>2. SubSeq(s, 1, f - 1) = s
        BY <4>1, SubSeqFull
      <4>3. Len(s) = 1 /\ s[1] \in DOMAIN to_upper
        BY <2>3, <4>2 DEF CommandOf
      <4>4. s[1] # Quote
        BY <4>3, AtomsAre
      <4>5. QuotesUpTo(s, 1) = 0
        <5>1. 1 \in Nat /\ 0 \in Nat /\ 1 - 1 = 0
          OBVIOUS
        <5> QED
          BY <4>4, <5>1, NoQuote, QuotesStep
      <4>6. QuotedIn(s) \in Seq(Seq(Atoms)) /\ Len(QuotedIn(s)) = QuotesUpTo(s, Len(s)) \div 2
        BY QuotedInIs
      <4>7. QuotedIn(s) = <<>>
        <5>1. Len(QuotedIn(s)) = 0
          BY <4>3, <4>5, <4>6
        <5> QED
          BY <4>6, <5>1, EmptySeq
      <4> QED
        BY <3>3, <4>7 DEF ParametersOf
    <3> QED
      BY <3>2, <3>3
  <2> HIDE DEF clause
  <2> QED
    BY <1>2, <2>2, <2>3 DEF clause
<1> QED
  BY <1>1, <1>2

(* Every well-formed statement that a client may send means what it says.  *)
THEOREM StatementsAreUnderstood == Spec => WellFormedIsUnderstood
<1>1. ASSUME [Next]_vars, written = <<>>, written' # <<>>, WellFormed(written')
      PROVE  MeansWhatItSays(written')
  <2>1. PICK s \in Texts : parse(s)
    BY <1>1 DEF Next, Execute, NewRequest, vars
  <2> DEFINE clause == IF HasLimit(s) THEN findLimit(s)
                       ELSE [text |-> s, limit |-> q.limit]
             command == CommandOf(clause.text)
             params == ParametersOf(clause.text)
  <2>2. /\ fate = "up" /\ written' = s
        /\ \/ Rejected(command, params) /\ fate' = "thrown"
           \/ /\ ~Rejected(command, params)
              /\ q' = [command |-> command,
                       parameters |-> IF Bare(command) THEN q.parameters
                                      ELSE FillWildcards(params),
                       limit |-> clause.limit]
              /\ UNCHANGED fate
    BY <2>1 DEF parse
  <2>3. s \in Seq(Atoms) /\ WellFormed(s)
    BY <1>1, <2>2, TextsAssumption
  <2>4. /\ command = CommandOf(s)
        /\ CommandOf(s) # "" => params = QuotedIn(s)
        /\ \A i \in Keywords(s) : clause.limit = atoi[s[i + 2]]
    BY <2>3, ClauseIs
  <2> HIDE DEF clause, command, params
  <2>5. MeansWhatItSays(s)
    <3>1. CASE command = ""
      BY <2>2, <2>4, <3>1 DEF MeansWhatItSays, Rejected
    <3>2. CASE command # "" /\ Rejected(command, params)
      BY <2>2, <2>4, <3>2 DEF MeansWhatItSays, Rejected
    <3>3. CASE command # "" /\ ~Rejected(command, params)
      <4>1. params = QuotedIn(s)
        BY <2>4, <3>3
      <4>2. /\ q'.command = command /\ q'.limit = clause.limit /\ fate' = "up"
            /\ ~Bare(command) => q'.parameters = FillWildcards(params)
        <5> DEFINE after == [command |-> command,
                             parameters |-> IF Bare(command) THEN q.parameters
                                            ELSE FillWildcards(params),
                             limit |-> clause.limit]
        <5>1. q' = after /\ fate' = "up"
          BY <2>2, <3>3
        <5>2. /\ after.command = command /\ after.limit = clause.limit
              /\ ~Bare(command) => after.parameters = FillWildcards(params)
          OBVIOUS
        <5> HIDE DEF after
        <5> QED
          BY <5>1, <5>2, Zenon
      <4>3. ~(CommandOf(s) = "" \/ (CommandOf(s) = "CREATE" /\ Len(QuotedIn(s)) < 3))
        BY <2>4, <3>3, <4>1 DEF Rejected
      <4>4. \A i \in Keywords(s) : q'.limit = atoi[s[i + 2]]
        BY <2>4, <4>2
      <4>5. ~Bare(CommandOf(s)) => q'.parameters = SubSeq(QuotedIn(s) \o Nothing, 1, 3)
        BY <2>4, <4>1, <4>2, Zenon DEF FillWildcards
      <4>6. /\ fate' = "up" /\ q'.command = CommandOf(s)
            /\ ~Bare(CommandOf(s)) => q'.parameters = SubSeq(QuotedIn(s) \o Nothing, 1, 3)
            /\ \A i \in Keywords(s) : q'.limit = atoi[s[i + 2]]
        BY <2>4, <4>2, <4>4, <4>5
      <4> QED
        BY <4>3, <4>6, Zenon DEF MeansWhatItSays
    <3> QED
      BY <3>1, <3>2, <3>3
  <2> QED
    BY <2>2, <2>5
<1>2. [Next]_vars => [written = <<>> /\ written' # <<>> /\ WellFormed(written') =>
                        MeansWhatItSays(written')]_vars
  BY <1>1
<1> QED
  BY <1>2, PTL DEF Spec, WellFormedIsUnderstood
=============================================================================
