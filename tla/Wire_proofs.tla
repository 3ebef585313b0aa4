----------------------------- MODULE Wire_proofs -----------------------------
(***************************************************************************)
(* What survives an exchange of messages, for all statements, rows, times  *)
(* and bytes behind a request, and any number of rows.                     *)
(*                                                                         *)
(* The argument turns on JoinedReading: what is read of a stream that      *)
(* begins with a whole message is what is read of the message, and then    *)
(* what is read of the rest.  So the fields of a message are read one by   *)
(* one, a buffer of two messages is read as both, and a reply that was cut *)
(* is read up to the cut, where the zeros behind it end the message before *)
(* its end.  The tables that the shell prints of a reply come last: their  *)
(* lines are counted cell by cell.                                         *)
(***************************************************************************)
EXTENDS Display, StringField, Recursion

Bytes == Seq(Nat)

LEMMA NoBytes == <<>> \in Bytes /\ Len(<<>>) = 0
BY DEF Bytes

LEMMA Joined ==
  ASSUME NEW S, NEW a \in Seq(S), NEW b \in Seq(S)
  PROVE  /\ a \o b \in Seq(S) /\ Len(a \o b) = Len(a) + Len(b)
         /\ \A i \in 1..Len(a) : (a \o b)[i] = a[i]
         /\ \A i \in 1..Len(b) : (a \o b)[Len(a) + i] = b[i]
OBVIOUS

LEMMA JoinedParts ==
  ASSUME NEW a \in Bytes, NEW b \in Bytes
  PROVE  /\ \A i \in Nat \ {0} : \A j \in 0..Len(a) :
              SubSeq(a \o b, i, j) = SubSeq(a, i, j)
         /\ \A i \in Nat \ {0} : \A j \in 0..Len(b) :
              SubSeq(a \o b, Len(a) + i, Len(a) + j) = SubSeq(b, i, j)
BY DEF Bytes

-----------------------------------------------------------------------------
(* One field.                                                              *)
AnyField == [number : Nat, wire : Nat, body : Bytes, bytes : Bytes]

Ends(byte) == byte = 0 \/ byte % 8 = END_GROUP

LEMMA BehindCases ==
  ASSUME NEW b, NEW i
  PROVE  /\ b[i] % 8 = VARINT => Behind(b, i) = i + 2
         /\ b[i] % 8 = FIXED32 => Behind(b, i) = i + 5
         /\ b[i] % 8 = FIXED64 => Behind(b, i) = i + 9
         /\ b[i] % 8 = LENGTH_DELIMITED /\ i = Len(b) => Behind(b, i) = i + 2
         /\ b[i] % 8 = LENGTH_DELIMITED /\ i # Len(b) =>
              Behind(b, i) = i + 2 + b[i + 1]
         /\ b[i] % 8 \notin {VARINT, FIXED32, FIXED64, LENGTH_DELIMITED} =>
              Behind(b, i) = Len(b) + 2
<1>1. /\ VARINT # FIXED32 /\ VARINT # LENGTH_DELIMITED /\ FIXED32 # LENGTH_DELIMITED
      /\ FIXED64 \notin {VARINT, FIXED32, LENGTH_DELIMITED}
  BY DEF VARINT, FIXED32, FIXED64, LENGTH_DELIMITED
<1> QED
  BY <1>1, Zenon DEF Behind

LEMMA BehindIs ==
  ASSUME NEW b \in Bytes, NEW i \in 1..Len(b)
  PROVE  Behind(b, i) \in Nat /\ Behind(b, i) >= i + 2
<1>1. i \in Nat /\ Len(b) \in Nat /\ (i # Len(b) => b[i + 1] \in Nat)
  BY DEF Bytes
<1> QED
  BY <1>1, BehindCases

LEMMA FieldAtIs ==
  ASSUME NEW b, NEW i, NEW byte, NEW j, b[i] = byte, Behind(b, i) = j
  PROVE  FieldAt(b, i) = [number |-> byte \div 8, wire |-> byte % 8,
                          body |-> SubSeq(b, i + 2, j - 1), bytes |-> SubSeq(b, i, j - 1)]
BY DEF FieldAt

LEMMA FieldIs ==
  ASSUME NEW b \in Bytes, NEW i \in 1..Len(b), Behind(b, i) <= Len(b) + 1
  PROVE  FieldAt(b, i) \in AnyField
<1> DEFINE j == Behind(b, i)
<1>1. j \in Nat /\ j >= i + 2 /\ j <= Len(b) + 1 /\ i \in Nat /\ Len(b) \in Nat
  BY BehindIs DEF Bytes
<1>2. b[i] \div 8 \in Nat /\ b[i] % 8 \in Nat
  BY DEF Bytes
<1>3. FieldAt(b, i) = [number |-> b[i] \div 8, wire |-> b[i] % 8,
                       body |-> SubSeq(b, i + 2, j - 1), bytes |-> SubSeq(b, i, j - 1)]
  BY DEF FieldAt
<1> HIDE DEF j
<1>4. SubSeq(b, i + 2, j - 1) \in Bytes /\ SubSeq(b, i, j - 1) \in Bytes
  BY <1>1 DEF Bytes
<1> QED
  BY <1>2, <1>3, <1>4 DEF AnyField

(* A field does not depend on what follows it, or comes before it.         *)
LEMMA FieldBefore ==
  ASSUME NEW a \in Bytes, NEW b \in Bytes, NEW i \in 1..Len(a),
         Behind(a, i) <= Len(a) + 1
  PROVE  /\ (a \o b)[i] = a[i]
         /\ Behind(a \o b, i) = Behind(a, i)
         /\ FieldAt(a \o b, i) = FieldAt(a, i)
<1> DEFINE ab == a \o b
           j == Behind(a, i)
<1>1. /\ ab \in Bytes /\ Len(ab) = Len(a) + Len(b) /\ Len(a) \in Nat /\ Len(b) \in Nat
      /\ \A k \in 1..Len(a) : ab[k] = a[k]
      /\ j \in Nat /\ j >= i + 2 /\ i \in Nat
  BY Joined, BehindIs DEF Bytes
<1>2. \A k \in Nat \ {0} : \A l \in 0..Len(a) : SubSeq(ab, k, l) = SubSeq(a, k, l)
  BY JoinedParts
<1> HIDE DEF ab
<1>3. /\ i # Len(a) /\ ab[i] = a[i] /\ ab[i + 1] = a[i + 1]
      /\ i # Len(ab)
  BY <1>1
<1>4. a[i] % 8 \in {VARINT, FIXED32, FIXED64, LENGTH_DELIMITED}
  <2>1. a[i] % 8 \notin {VARINT, FIXED32, FIXED64, LENGTH_DELIMITED} => j = Len(a) + 2
    BY BehindCases
  <2> QED
    BY <1>1, <2>1
<1>5. Behind(ab, i) = j
  <2> HIDE DEF j
  <2>1. CASE a[i] % 8 = VARINT
    BY <1>3, <2>1, BehindCases DEF j
  <2>2. CASE a[i] % 8 = FIXED32
    BY <1>3, <2>2, BehindCases DEF j
  <2>3. CASE a[i] % 8 = FIXED64
    BY <1>3, <2>3, BehindCases DEF j
  <2>4. CASE a[i] % 8 = LENGTH_DELIMITED
    BY <1>3, <2>4, BehindCases DEF j
  <2> QED
    BY <1>4, <2>1, <2>2, <2>3, <2>4
<1> HIDE DEF j
<1>6. SubSeq(ab, i + 2, j - 1) = SubSeq(a, i + 2, j - 1)
  BY <1>1, <1>2 DEF j
<1>7. SubSeq(ab, i, j - 1) = SubSeq(a, i, j - 1)
  BY <1>1, <1>2 DEF j
<1>8. FieldAt(ab, i) = FieldAt(a, i)
  BY <1>3, <1>5, <1>6, <1>7 DEF FieldAt, j
<1> QED
  BY <1>3, <1>5, <1>8 DEF ab, j

LEMMA FieldBehind ==
  ASSUME NEW a \in Bytes, NEW b \in Bytes, NEW i \in 1..Len(b)
  PROVE  /\ (a \o b)[Len(a) + i] = b[i]
         /\ Behind(a \o b, Len(a) + i) = Len(a) + Behind(b, i)
         /\ Behind(b, i) <= Len(b) + 1 =>
              FieldAt(a \o b, Len(a) + i) = FieldAt(b, i)
<1> DEFINE ab == a \o b
           j == Behind(b, i)
           n == Len(a)
           k == n + i
<1>1. /\ ab \in Bytes /\ Len(ab) = n + Len(b) /\ n \in Nat /\ Len(b) \in Nat
      /\ \A l \in 1..Len(b) : ab[n + l] = b[l]
      /\ j \in Nat /\ j >= i + 2 /\ i \in Nat
  BY Joined, BehindIs DEF Bytes
<1>2. \A x \in Nat \ {0} : \A l \in 0..Len(b) : SubSeq(ab, n + x, n + l) = SubSeq(b, x, l)
  BY JoinedParts
<1> HIDE DEF ab, n
<1>3. /\ ab[k] = b[i] /\ k \in Nat /\ (k = Len(ab) <=> i = Len(b))
      /\ i # Len(b) => ab[k + 1] = b[i + 1] /\ b[i + 1] \in Nat
  <2>1. i # Len(b) => n + (i + 1) = k + 1 /\ i + 1 \in 1..Len(b)
    BY <1>1
  <2>2. k = Len(ab) <=> i = Len(b)
    BY <1>1
  <2>3. ab[k] = b[i] /\ k \in Nat
    BY <1>1
  <2>4. i # Len(b) => ab[n + (i + 1)] = b[i + 1] /\ b[i + 1] \in Nat
    <3> SUFFICES ASSUME i # Len(b)
                 PROVE  ab[n + (i + 1)] = b[i + 1] /\ b[i + 1] \in Nat
      OBVIOUS
    <3>1. i + 1 \in 1..Len(b)
      BY <2>1
    <3>2. b[i + 1] \in Nat
      BY <3>1 DEF Bytes
    <3> QED
      BY <1>1, <3>1, <3>2
  <2> HIDE DEF k
  <2> QED
    BY <2>1, <2>2, <2>3, <2>4
<1>5. Behind(ab, k) = n + j
  <2> HIDE DEF j, k
  <2>0. n + (i + 2) = k + 2 /\ n + (i + 5) = k + 5 /\ n + (i + 9) = k + 9
       /\ n + (Len(b) + 2) = Len(ab) + 2
    BY <1>1 DEF k
  <2>1. CASE b[i] % 8 = VARINT
    BY <1>3, <2>0, <2>1, BehindCases DEF j
  <2>2. CASE b[i] % 8 = FIXED32
    BY <1>3, <2>0, <2>2, BehindCases DEF j
  <2>3. CASE b[i] % 8 = LENGTH_DELIMITED /\ i = Len(b)
    BY <1>3, <2>0, <2>3, BehindCases DEF j
  <2>4. CASE b[i] % 8 = LENGTH_DELIMITED /\ i # Len(b)
    <3>1. Behind(ab, k) = k + 2 + ab[k + 1] /\ j = i + 2 + b[i + 1]
      BY <1>3, <2>4, BehindCases DEF j
    <3>2. k + 2 + b[i + 1] = n + (i + 2 + b[i + 1])
      BY <1>1, <1>3, <2>4 DEF k
    <3> QED
      BY <1>3, <2>4, <3>1, <3>2
  <2>5. CASE b[i] % 8 \notin {VARINT, FIXED32, FIXED64, LENGTH_DELIMITED}
    BY <1>3, <2>0, <2>5, BehindCases DEF j
  <2>6. CASE b[i] % 8 = FIXED64
    BY <1>3, <2>0, <2>6, BehindCases DEF j
  <2> QED
    BY <2>1, <2>2, <2>3, <2>4, <2>5, <2>6
<1>8. ASSUME j <= Len(b) + 1
      PROVE  FieldAt(ab, k) = FieldAt(b, i)
  <2> HIDE DEF j
  <2>0. n + (i + 2) = k + 2 /\ n + (j - 1) = (n + j) - 1 /\ j - 1 \in 0..Len(b)
    BY <1>1, <1>8
  <2>1. SubSeq(ab, k + 2, (n + j) - 1) = SubSeq(b, i + 2, j - 1)
    BY <1>1, <1>2, <2>0
  <2>2. SubSeq(ab, k, (n + j) - 1) = SubSeq(b, i, j - 1)
    BY <1>1, <1>2, <2>0
  <2>3. FieldAt(b, i) = [number |-> b[i] \div 8, wire |-> b[i] % 8,
                         body |-> SubSeq(b, i + 2, j - 1), bytes |-> SubSeq(b, i, j - 1)]
    BY DEF FieldAt, j
  <2>4. FieldAt(ab, k) = [number |-> b[i] \div 8, wire |-> b[i] % 8,
                          body |-> SubSeq(ab, k + 2, (n + j) - 1),
                          bytes |-> SubSeq(ab, k, (n + j) - 1)]
    <3>1. ab[k] = b[i] /\ Behind(ab, k) = n + j
      BY <1>3, <1>5 DEF j
    <3> HIDE DEF k
    <3> QED
      BY <3>1, FieldAtIs
  <2> QED
    BY <2>1, <2>2, <2>3, <2>4, Zenon
<1> QED
  BY <1>3, <1>5, <1>8 DEF ab, n

-----------------------------------------------------------------------------
(* The loop over the fields.                                               *)
Start == [fields |-> <<>>, at |-> 1, ok |-> TRUE, entire |-> TRUE]

ReadStates(b) ==
  {r \in [fields : Seq(AnyField), at : 1..(Len(b) + 1), ok : BOOLEAN, entire : BOOLEAN] :
     r.entire => r.ok}

Final(b, r) == ~r.entire \/ r.at > Len(b)

(* What one turn does, by cases.                                           *)
LEMMA TurnCases ==
  ASSUME NEW b, NEW r
  PROVE  /\ Final(b, r) => ReadField(b, r) = r
         /\ ~Final(b, r) /\ Ends(b[r.at]) =>
              ReadField(b, r) = [r EXCEPT !.entire = FALSE]
         /\ ~Final(b, r) /\ ~Ends(b[r.at]) /\ Behind(b, r.at) > Len(b) + 1 =>
              ReadField(b, r) = [r EXCEPT !.entire = FALSE, !.ok = FALSE]
         /\ ~Final(b, r) /\ ~Ends(b[r.at]) /\ ~(Behind(b, r.at) > Len(b) + 1) =>
              ReadField(b, r) = [r EXCEPT !.fields = Append(@, FieldAt(b, r.at)),
                                          !.at = Behind(b, r.at)]
BY Zenon DEF ReadField, Final, Ends

LEMMA StartIs ==
  ASSUME NEW b \in Bytes
  PROVE  Start \in ReadStates(b)
BY DEF Start, ReadStates, Bytes

(* A turn that is not the last moves on.                                   *)
LEMMA TurnIs ==
  ASSUME NEW b \in Bytes, NEW r \in ReadStates(b)
  PROVE  /\ ReadField(b, r) \in ReadStates(b)
         /\ ~Final(b, ReadField(b, r)) => ReadField(b, r).at > r.at
<1> DEFINE s == ReadField(b, r)
<1>0. /\ r = [fields |-> r.fields, at |-> r.at, ok |-> r.ok, entire |-> r.entire]
      /\ r.fields \in Seq(AnyField) /\ r.at \in 1..(Len(b) + 1)
      /\ r.ok \in BOOLEAN /\ r.entire \in BOOLEAN /\ (r.entire => r.ok)
      /\ Len(b) \in Nat
  BY DEF ReadStates, Bytes
<1>1. CASE Final(b, r)
  BY <1>1, TurnCases
<1>2. CASE ~Final(b, r) /\ Ends(b[r.at])
  <2>1. s = [r EXCEPT !.entire = FALSE]
    BY <1>2, TurnCases
  <2> HIDE DEF s
  <2> QED
    BY <1>0, <2>1 DEF ReadStates, Final, s
<1>3. CASE ~Final(b, r) /\ ~Ends(b[r.at]) /\ Behind(b, r.at) > Len(b) + 1
  <2>1. s = [r EXCEPT !.entire = FALSE, !.ok = FALSE]
    BY <1>3, TurnCases
  <2> HIDE DEF s
  <2> QED
    BY <1>0, <2>1 DEF ReadStates, Final, s
<1>4. CASE ~Final(b, r) /\ ~Ends(b[r.at]) /\ ~(Behind(b, r.at) > Len(b) + 1)
  <2> DEFINE j == Behind(b, r.at)
             fld == FieldAt(b, r.at)
  <2>1. r.at \in 1..Len(b)
    BY <1>0, <1>4 DEF Final
  <2>2. j \in Nat /\ j >= r.at + 2 /\ j <= Len(b) + 1
    BY <1>0, <1>4, <2>1, BehindIs
  <2>3. fld \in AnyField
    BY <2>1, <2>2, FieldIs
  <2>4. s = [r EXCEPT !.fields = Append(@, fld), !.at = j]
    BY <1>4, TurnCases
  <2> HIDE DEF s, fld, j
  <2>5. s = [fields |-> Append(r.fields, fld), at |-> j, ok |-> r.ok, entire |-> r.entire]
    BY <1>0, <2>4
  <2>6. Append(r.fields, fld) \in Seq(AnyField)
    BY <1>0, <2>3
  <2>7. j \in 1..(Len(b) + 1) /\ j > r.at
    BY <1>0, <2>1, <2>2
  <2> QED
    BY <1>0, <2>5, <2>6, <2>7 DEF ReadStates, s
<1> QED
  BY <1>1, <1>2, <1>3, <1>4

(* A number of turns from the start.                                       *)
Turns(b, f, n) ==
  /\ n \in Nat /\ DOMAIN f = 0..n /\ f[0] = Start
  /\ \A i \in 1..n : f[i] = ReadField(b, f[i - 1])

LEMMA TurnsAre ==
  ASSUME NEW b \in Bytes, NEW n, NEW f, Turns(b, f, n)
  PROVE  \A i \in 0..n : f[i] \in ReadStates(b) /\ (Final(b, f[i]) \/ f[i].at > i)
<1> DEFINE T == {i \in 0..n : f[i] \in ReadStates(b) /\ (Final(b, f[i]) \/ f[i].at > i)}
<1>0. n \in Nat /\ f[0] = Start
  BY DEF Turns
<1>1. 0 \in T
  <2>1. Start.at = 1
    BY DEF Start
  <2> QED
    BY <1>0, <2>1, StartIs
<1>2. ASSUME NEW i \in 0..(n - 1), i \in T
      PROVE  i + 1 \in T
  <2>1. i + 1 \in 1..n /\ i + 1 \in 0..n /\ i \in Nat /\ i + 1 - 1 = i
    BY <1>0
  <2>2. f[i + 1] = ReadField(b, f[i])
    BY <2>1 DEF Turns
  <2>3. f[i] \in ReadStates(b) /\ (Final(b, f[i]) \/ f[i].at > i)
    BY <1>2
  <2>4. f[i + 1] \in ReadStates(b) /\ (~Final(b, f[i + 1]) => f[i + 1].at > f[i].at)
    BY <2>2, <2>3, TurnIs
  <2>5. Final(b, f[i]) => Final(b, f[i + 1])
    BY <2>2, TurnCases
  <2>6. f[i].at \in Nat /\ f[i + 1].at \in Nat
    BY <2>3, <2>4 DEF ReadStates
  <2> QED
    BY <2>1, <2>3, <2>4, <2>5, <2>6
<1> HIDE DEF T
<1>3. \A i \in 0..n : i \in T
  BY <1>0, <1>1, <1>2, Induction
<1> QED
  BY <1>3 DEF T

(* More turns change nothing once the loop has ended.                      *)
LEMMA TurnsAgree ==
  ASSUME NEW b \in Bytes, NEW n, NEW f, Turns(b, f, n), Final(b, f[n]),
         NEW m, NEW g, Turns(b, g, m), n <= m
  PROVE  g[m] = f[n]
<1> DEFINE T == {i \in 0..n : f[i] = g[i]}
           U == {i \in 0..(m - n) : g[n + i] = f[n]}
<1>0. n \in Nat /\ m \in Nat /\ f[0] = Start /\ g[0] = Start
  BY DEF Turns
<1>1. 0 \in T
  BY <1>0
<1>2. ASSUME NEW i \in 0..(n - 1), i \in T
      PROVE  i + 1 \in T
  <2>1. i + 1 \in 1..n /\ i + 1 \in 1..m /\ i + 1 \in 0..n /\ i + 1 - 1 = i
    BY <1>0
  <2>2. f[i + 1] = ReadField(b, f[i]) /\ g[i + 1] = ReadField(b, g[i])
    BY <2>1 DEF Turns
  <2> QED
    BY <1>2, <2>1, <2>2
<1>3. n \in T
  <2>1. n \in 0..n
    BY <1>0
  <2> HIDE DEF T
  <2> QED
    BY <1>0, <1>1, <1>2, <2>1, Induction
<1>4. 0 \in U
  <2>1. n + 0 = n /\ 0 \in 0..(m - n)
    BY <1>0
  <2> QED
    BY <1>3, <2>1
<1>5. ASSUME NEW i \in 0..(m - n - 1), i \in U
      PROVE  i + 1 \in U
  <2>1. n + i + 1 \in 1..m /\ n + i + 1 - 1 = n + i /\ i + 1 \in 0..(m - n)
        /\ n + (i + 1) = n + i + 1
    BY <1>0
  <2>2. g[n + i + 1] = ReadField(b, g[n + i])
    BY <2>1 DEF Turns
  <2>3. g[n + i] = f[n]
    BY <1>5
  <2>4. g[n + (i + 1)] = f[n]
    BY <2>1, <2>2, <2>3, TurnCases
  <2> QED
    BY <2>1, <2>4
<1>6. m - n \in U
  <2>1. m - n \in Nat /\ m - n \in 0..(m - n)
    BY <1>0
  <2> HIDE DEF U
  <2> QED
    BY <1>4, <1>5, <2>1, Induction
<1>7. n + (m - n) = m
  BY <1>0
<1> QED
  BY <1>6, <1>7

(* There are as many turns as bytes, which is enough.                      *)
LEMMA ReadingTurns ==
  ASSUME NEW b \in Bytes
  PROVE  \E f : /\ Turns(b, f, Len(b)) /\ Final(b, f[Len(b)])
                /\ ReadFields(b) = f[Len(b)]
<1> DEFINE n == Len(b)
           S == ReadStates(b)
           step == [i \in 1..n |-> [r \in S |-> ReadField(b, r)]]
           Def(f) == f = [i \in 0..n |->
                            IF i = 0 THEN [fields |-> <<>>, at |-> 1, ok |-> TRUE, entire |-> TRUE]
                            ELSE ReadField(b, f[i - 1])]
           after == CHOOSE f : Def(f)
<1>0. n \in Nat /\ 0 \in 0..n /\ n \in 0..n
  BY DEF Bytes
<1>1. Start \in S
  BY StartIs
<1>2. \A r \in S : ReadField(b, r) \in S
  BY TurnIs
<1>3. ReadFields(b) = after[n]
  BY DEF ReadFields
<1> HIDE DEF n, S
<1>4. PICK f : FollowsSteps(f, n, S, Start, step)
  <2>1. step \in [1..n -> [S -> S]]
    BY <1>2
  <2> HIDE DEF step
  <2> QED
    BY <1>0, <1>1, <2>1, FunctionOfSteps
<1>5. f \in [0..n -> S] /\ f[0] = Start /\ \A i \in 1..n : f[i] = step[i][f[i - 1]]
  BY <1>4 DEF FollowsSteps
<1>6. Def(f)
  <2>1. ASSUME NEW i \in 0..n
        PROVE  f[i] = IF i = 0 THEN Start ELSE ReadField(b, f[i - 1])
    <3>1. CASE i = 0
      BY <1>5, <3>1
    <3>2. CASE i # 0
      <4>1. i \in 1..n /\ i - 1 \in 0..n
        BY <1>0, <3>2
      <4>2. f[i - 1] \in S
        BY <1>5, <4>1
      <4> QED
        BY <1>5, <3>2, <4>1, <4>2
    <3> QED
      BY <3>1, <3>2
  <2> QED
    BY <1>5, <2>1 DEF Start
<1>7. Def(after)
  <2> HIDE DEF Def
  <2> QED
    BY <1>6, Zenon
<1> HIDE DEF after
<1>8. Turns(b, after, n)
  <2>1. after[0] = Start
    BY <1>0, <1>7 DEF Start
  <2>2. DOMAIN after = 0..n
    BY <1>7
  <2>3. \A i \in 1..n : after[i] = ReadField(b, after[i - 1])
    <3> TAKE i \in 1..n
    <3>1. i \in 0..n /\ i # 0
      BY <1>0
    <3> QED
      BY <1>7, <3>1
  <2> HIDE DEF Def
  <2> QED
    BY <1>0, <2>1, <2>2, <2>3 DEF Turns
<1>9. Final(b, after[n])
  <2>1. after[n] \in ReadStates(b) /\ (Final(b, after[n]) \/ after[n].at > n)
    BY <1>0, <1>8, TurnsAre
  <2> QED
    BY <2>1 DEF Final, n
<1> QED
  BY <1>3, <1>8, <1>9 DEF n

(* Any turns to an end show what is read.                                  *)
LEMMA ReadingIs ==
  ASSUME NEW b \in Bytes, NEW n, NEW f, Turns(b, f, n), Final(b, f[n])
  PROVE  ReadFields(b) = f[n]
<1>1. PICK g : /\ Turns(b, g, Len(b)) /\ Final(b, g[Len(b)])
               /\ ReadFields(b) = g[Len(b)]
  BY ReadingTurns
<1>2. n \in Nat /\ Len(b) \in Nat
  BY DEF Turns, Bytes
<1>3. CASE n <= Len(b)
  BY <1>1, <1>3, TurnsAgree
<1>4. CASE Len(b) <= n
  BY <1>1, <1>4, TurnsAgree
<1> QED
  BY <1>2, <1>3, <1>4

LEMMA ReadIs ==
  ASSUME NEW b \in Bytes
  PROVE  ReadFields(b) \in ReadStates(b) /\ Final(b, ReadFields(b))
<1>1. PICK g : /\ Turns(b, g, Len(b)) /\ Final(b, g[Len(b)])
               /\ ReadFields(b) = g[Len(b)]
  BY ReadingTurns
<1>2. Len(b) \in 0..Len(b)
  BY DEF Bytes
<1> QED
  BY <1>1, <1>2, TurnsAre

(* A stream that is a message from its first byte to its last.             *)
Whole(b) == ReadFields(b).entire

LEMMA WholeIs ==
  ASSUME NEW b \in Bytes, Whole(b)
  PROVE  /\ ReadFields(b).fields \in Seq(AnyField) /\ ReadFields(b).ok
         /\ ReadFields(b).at = Len(b) + 1
BY ReadIs DEF Whole, ReadStates, Final, Bytes

(* Where the loop is on a stream when it has read a, and then r.           *)
After(a, r) ==
  [fields |-> ReadFields(a).fields \o r.fields, at |-> Len(a) + r.at,
   ok |-> r.ok, entire |-> r.entire]

LEMMA TurnBefore ==
  ASSUME NEW a \in Bytes, NEW b \in Bytes, NEW r \in ReadStates(a),
         ~Final(a, r), ReadField(a, r).entire
  PROVE  ReadField(a \o b, r) = ReadField(a, r)
<1> DEFINE ab == a \o b
<1>1. /\ ab \in Bytes /\ Len(ab) = Len(a) + Len(b) /\ Len(a) \in Nat /\ Len(b) \in Nat
      /\ \A i \in 1..Len(a) : ab[i] = a[i]
  BY Joined DEF Bytes
<1> HIDE DEF ab
<1>2. r.at \in 1..Len(a) /\ r.entire
  BY <1>1 DEF ReadStates, Final
<1>3. ~Final(ab, r)
  BY <1>1, <1>2 DEF Final
<1>4. ab[r.at] = a[r.at]
  BY <1>1, <1>2
<1>5. DOMAIN r = {"fields", "at", "ok", "entire"}
  BY DEF ReadStates
<1>6. ~Ends(a[r.at])
  <2> SUFFICES ASSUME Ends(a[r.at])
               PROVE  FALSE
    OBVIOUS
  <2>1. ReadField(a, r) = [r EXCEPT !.entire = FALSE]
    BY TurnCases
  <2> QED
    BY <1>5, <2>1
<1>7. ~(Behind(a, r.at) > Len(a) + 1)
  <2> SUFFICES ASSUME Behind(a, r.at) > Len(a) + 1
               PROVE  FALSE
    OBVIOUS
  <2>1. ReadField(a, r) = [r EXCEPT !.entire = FALSE, !.ok = FALSE]
    BY <1>6, TurnCases
  <2> QED
    BY <1>5, <2>1
<1>8. Behind(a, r.at) \in Nat /\ Behind(a, r.at) <= Len(a) + 1
  BY <1>1, <1>2, <1>7, BehindIs
<1>9. Behind(ab, r.at) = Behind(a, r.at) /\ FieldAt(ab, r.at) = FieldAt(a, r.at)
  BY <1>2, <1>8, FieldBefore DEF ab
<1>10. ~(Behind(ab, r.at) > Len(ab) + 1)
  BY <1>1, <1>8, <1>9
<1>11. ReadField(a, r) = [r EXCEPT !.fields = Append(@, FieldAt(a, r.at)),
                                   !.at = Behind(a, r.at)]
  BY <1>6, <1>7, TurnCases
<1>12. ReadField(ab, r) = [r EXCEPT !.fields = Append(@, FieldAt(ab, r.at)),
                                    !.at = Behind(ab, r.at)]
  BY <1>3, <1>4, <1>6, <1>10, TurnCases
<1>13. ReadField(ab, r) = ReadField(a, r)
  BY <1>9, <1>11, <1>12
<1> QED
  BY <1>13 DEF ab

LEMMA TurnBehind ==
  ASSUME NEW a \in Bytes, Whole(a), NEW b \in Bytes, NEW r \in ReadStates(b)
  PROVE  ReadField(a \o b, After(a, r)) = After(a, ReadField(b, r))
<1> DEFINE ab == a \o b
           p == ReadFields(a).fields
           n == Len(a)
           s == After(a, r)
<1>0. /\ ab \in Bytes /\ Len(ab) = n + Len(b) /\ n \in Nat /\ Len(b) \in Nat
      /\ p \in Seq(AnyField)
  BY Joined, WholeIs DEF Bytes
<1>1. /\ r = [fields |-> r.fields, at |-> r.at, ok |-> r.ok, entire |-> r.entire]
      /\ r.fields \in Seq(AnyField) /\ r.at \in 1..(Len(b) + 1)
      /\ r.ok \in BOOLEAN /\ r.entire \in BOOLEAN
  BY DEF ReadStates
<1>2. s = [fields |-> p \o r.fields, at |-> n + r.at, ok |-> r.ok, entire |-> r.entire]
  BY DEF After
<1> HIDE DEF ab, p, n, s
<1>3. Final(ab, s) <=> Final(b, r)
  BY <1>0, <1>1, <1>2 DEF Final
<1>4. CASE Final(b, r)
  <2>1. ReadField(b, r) = r /\ ReadField(ab, s) = s
    BY <1>3, <1>4, TurnCases
  <2> QED
    BY <2>1 DEF ab, s
<1>5. ASSUME ~Final(b, r)
      PROVE  /\ r.at \in 1..Len(b) /\ ab[n + r.at] = b[r.at]
             /\ Behind(ab, n + r.at) = n + Behind(b, r.at) /\ Behind(b, r.at) \in Nat
             /\ Behind(b, r.at) <= Len(b) + 1 => FieldAt(ab, n + r.at) = FieldAt(b, r.at)
  <2>1. r.at \in 1..Len(b)
    BY <1>0, <1>1, <1>5 DEF Final
  <2> QED
    BY <2>1, FieldBehind, BehindIs DEF ab, n
<1>6. CASE ~Final(b, r) /\ Ends(b[r.at])
  <2>1. ReadField(b, r) = [r EXCEPT !.entire = FALSE]
    BY <1>6, TurnCases
  <2>2. Ends(ab[s.at])
    BY <1>2, <1>5, <1>6
  <2>3. ReadField(ab, s) = [s EXCEPT !.entire = FALSE]
    BY <1>3, <1>6, <2>2, TurnCases
  <2>4. ReadField(b, r) = [fields |-> r.fields, at |-> r.at, ok |-> r.ok, entire |-> FALSE]
    BY <1>1, <2>1
  <2>5. ReadField(ab, s) = [fields |-> p \o r.fields, at |-> n + r.at, ok |-> r.ok,
                            entire |-> FALSE]
    BY <1>2, <2>3
  <2> QED
    BY <2>4, <2>5 DEF After, ab, p, n, s
<1>7. CASE ~Final(b, r) /\ ~Ends(b[r.at]) /\ Behind(b, r.at) > Len(b) + 1
  <2>1. ReadField(b, r) = [r EXCEPT !.entire = FALSE, !.ok = FALSE]
    BY <1>7, TurnCases
  <2>2. ~Ends(ab[s.at]) /\ Behind(ab, s.at) > Len(ab) + 1
    <3>1. Behind(ab, s.at) = n + Behind(b, r.at) /\ Behind(b, r.at) \in Nat
          /\ ab[s.at] = b[r.at]
      BY <1>2, <1>5, <1>7
    <3> QED
      BY <1>0, <1>7, <3>1
  <2>3. ReadField(ab, s) = [s EXCEPT !.entire = FALSE, !.ok = FALSE]
    BY <1>3, <1>7, <2>2, TurnCases
  <2>4. ReadField(b, r) = [fields |-> r.fields, at |-> r.at, ok |-> FALSE, entire |-> FALSE]
    BY <1>1, <2>1
  <2>5. ReadField(ab, s) = [fields |-> p \o r.fields, at |-> n + r.at, ok |-> FALSE,
                            entire |-> FALSE]
    BY <1>2, <2>3
  <2> QED
    BY <2>4, <2>5 DEF After, ab, p, n, s
<1>8. CASE ~Final(b, r) /\ ~Ends(b[r.at]) /\ ~(Behind(b, r.at) > Len(b) + 1)
  <2> DEFINE j == Behind(b, r.at)
             fld == FieldAt(b, r.at)
  <2>1. ReadField(b, r) = [r EXCEPT !.fields = Append(@, fld), !.at = j]
    BY <1>8, TurnCases
  <2>2. /\ ~Ends(ab[s.at]) /\ ~(Behind(ab, s.at) > Len(ab) + 1)
        /\ FieldAt(ab, s.at) = fld /\ Behind(ab, s.at) = n + j
    <3>1. Behind(ab, s.at) = n + j /\ j \in Nat /\ ab[s.at] = b[r.at]
      BY <1>2, <1>5, <1>8
    <3>2. j <= Len(b) + 1
      BY <1>0, <1>8, <3>1
    <3>3. FieldAt(ab, s.at) = fld
      BY <1>2, <1>5, <1>8, <3>2
    <3>4. ~(Behind(ab, s.at) > Len(ab) + 1)
      BY <1>0, <3>1, <3>2
    <3> QED
      BY <1>8, <3>1, <3>3, <3>4
  <2>3. fld \in AnyField
    <3>1. r.at \in 1..Len(b) /\ j \in Nat
      BY <1>5, <1>8
    <3>2. j <= Len(b) + 1
      BY <1>0, <1>8, <3>1
    <3> QED
      BY <3>1, <3>2, FieldIs
  <2>4. ReadField(ab, s) = [s EXCEPT !.fields = Append(@, FieldAt(ab, s.at)),
                                     !.at = Behind(ab, s.at)]
    BY <1>3, <1>8, <2>2, TurnCases
  <2> HIDE DEF fld, j
  <2>5. ReadField(b, r) = [fields |-> Append(r.fields, fld), at |-> j,
                           ok |-> r.ok, entire |-> r.entire]
    BY <1>1, <2>1
  <2>6. ReadField(ab, s) = [fields |-> Append(p \o r.fields, fld), at |-> n + j,
                            ok |-> r.ok, entire |-> r.entire]
    BY <1>2, <2>2, <2>4
  <2>7. Append(p \o r.fields, fld) = p \o Append(r.fields, fld)
    <3> DEFINE f == r.fields
    <3>1. p \in Seq(AnyField) /\ f \in Seq(AnyField)
      BY <1>0, <1>1
    <3> HIDE DEF f
    <3>2. p \o Append(f, fld) = Append(p \o f, fld)
      BY <2>3, <3>1
    <3> QED
      BY <3>2, Zenon DEF f
  <2> QED
    BY <2>5, <2>6, <2>7 DEF After, ab, p, n, s
<1> QED
  BY <1>4, <1>6, <1>7, <1>8

(* A whole message is read first, and then what follows it.                *)
LEMMA JoinedReading ==
  ASSUME NEW a \in Bytes, Whole(a), NEW b \in Bytes
  PROVE  ReadFields(a \o b) = After(a, ReadFields(b))
<1> DEFINE ab == a \o b
<1>1. PICK f : /\ Turns(a, f, Len(a)) /\ Final(a, f[Len(a)])
               /\ ReadFields(a) = f[Len(a)]
  BY ReadingTurns
<1>2. PICK g : /\ Turns(b, g, Len(b)) /\ Final(b, g[Len(b)])
               /\ ReadFields(b) = g[Len(b)]
  BY ReadingTurns
<1>3. /\ ab \in Bytes /\ Len(ab) = Len(a) + Len(b)
      /\ Len(a) \in Nat /\ Len(b) \in Nat
  BY Joined DEF Bytes
<1> HIDE DEF ab
<1>4. \A i \in 0..Len(a) : f[i] \in ReadStates(a) /\ f[i].entire
  <2> SUFFICES ASSUME NEW i \in 0..Len(a)
               PROVE  f[i] \in ReadStates(a) /\ f[i].entire
    OBVIOUS
  <2>1. f[i] \in ReadStates(a)
    BY <1>1, TurnsAre
  <2>2. SUFFICES ASSUME ~f[i].entire
                 PROVE  FALSE
    BY <2>1
  <2> DEFINE h == [k \in 0..i |-> f[k]]
  <2>3. Turns(a, h, i) /\ Final(a, h[i])
    <3>1. h[i] = f[i]
      BY <1>3
    <3>2. Final(a, h[i])
      BY <2>2, <3>1 DEF Final
    <3>3. h[0] = Start
      BY <1>1, <1>3 DEF Turns
    <3>4. \A k \in 1..i : h[k] = ReadField(a, h[k - 1])
      <4> TAKE k \in 1..i
      <4>1. k \in 1..Len(a) /\ k \in 0..i /\ k - 1 \in 0..i
        BY <1>3
      <4> QED
        BY <1>1, <4>1 DEF Turns
    <3>5. i \in Nat /\ DOMAIN h = 0..i
      BY <1>3
    <3> HIDE DEF h
    <3> QED
      BY <3>2, <3>3, <3>4, <3>5 DEF Turns
  <2>4. h[i] = f[i]
    BY <1>3
  <2>5. i <= Len(a)
    BY <1>3
  <2> HIDE DEF h
  <2>6. f[Len(a)] = h[i]
    BY <1>1, <2>3, <2>5, TurnsAgree
  <2> QED
    BY <1>1, <2>2, <2>4, <2>6 DEF Whole
<1>5. PICK n \in 0..Len(a) : /\ f[n].at > Len(a)
                             /\ \A i \in 0..(n - 1) : ~(f[i].at > Len(a))
  <2> DEFINE T == {i \in 0..Len(a) : f[i].at > Len(a)}
  <2>1. Len(a) \in T
    <3>1. Len(a) \in 0..Len(a)
      BY <1>3
    <3> QED
      BY <1>1, <1>3, <1>4, <3>1 DEF Final
  <2>2. T \in SUBSET Nat /\ T # {}
    BY <1>3, <2>1
  <2>3. PICK n \in T : \A i \in T : n <= i
    <3> HIDE DEF T
    <3> QED
      BY <2>2, Smallest
  <2>4. \A i \in 0..(n - 1) : i \in 0..Len(a) /\ ~(n <= i)
    BY <1>3
  <2> QED
    BY <2>3, <2>4
<1>6. f[n] = ReadFields(a) /\ n \in Nat
  <2> DEFINE h == [k \in 0..n |-> f[k]]
  <2>1. h[n] = f[n] /\ n \in Nat
    BY <1>3
  <2>2. Turns(a, h, n) /\ Final(a, h[n])
    <3>2. Final(a, h[n])
      BY <1>5, <2>1 DEF Final
    <3>3. h[0] = Start
      BY <1>1, <1>3 DEF Turns
    <3>4. \A k \in 1..n : h[k] = ReadField(a, h[k - 1])
      <4> TAKE k \in 1..n
      <4>1. k \in 1..Len(a) /\ k \in 0..n /\ k - 1 \in 0..n
        BY <1>3
      <4> QED
        BY <1>1, <4>1 DEF Turns
    <3>5. DOMAIN h = 0..n
      OBVIOUS
    <3> HIDE DEF h
    <3> QED
      BY <2>1, <3>2, <3>3, <3>4, <3>5 DEF Turns
  <2> HIDE DEF h
  <2> QED
    BY <2>1, <2>2, ReadingIs
<1> DEFINE m == n + Len(b)
           t == [k \in 0..m |-> IF k <= n THEN f[k] ELSE After(a, g[k - n])]
<1>7. m \in Nat /\ n <= m /\ m \in 0..m /\ n \in 0..m
  BY <1>3, <1>6
<1>8. After(a, g[0]) = f[n]
  <2>1. g[0] = Start
    BY <1>2 DEF Turns
  <2>2. /\ f[n] = [fields |-> f[n].fields, at |-> f[n].at, ok |-> f[n].ok,
                   entire |-> f[n].entire]
        /\ f[n].ok = TRUE /\ f[n].entire = TRUE
        /\ f[n].at = Len(a) + 1 /\ f[n].fields \in Seq(AnyField)
    BY <1>3, <1>4, <1>5 DEF ReadStates
  <2>3. f[n].fields \o <<>> = f[n].fields
    BY <2>2
  <2> QED
    BY <1>6, <2>1, <2>2, <2>3 DEF After, Start
<1>9. \A k \in 0..Len(b) : t[n + k] = After(a, g[k])
  <2> TAKE k \in 0..Len(b)
  <2>1. n + k \in 0..m /\ (n + k) - n = k /\ (n + k <= n <=> k = 0)
    BY <1>3, <1>6
  <2>2. t[n + k] = IF k = 0 THEN f[n + k] ELSE After(a, g[k])
    BY <2>1
  <2>3. k = 0 => n + k = n
    BY <1>6
  <2> HIDE DEF t, m
  <2> QED
    BY <1>8, <2>2, <2>3
<1>10. \A k \in 0..n : t[k] = f[k]
  <2> TAKE k \in 0..n
  <2>1. k \in 0..m /\ k <= n
    BY <1>3, <1>6
  <2> QED
    BY <2>1
<1>11. Turns(ab, t, m)
  <2>1. t[0] = Start
    <3>1. f[0] = Start /\ 0 \in 0..n
      BY <1>1, <1>6 DEF Turns
    <3> HIDE DEF t
    <3> QED
      BY <1>10, <3>1
  <2>2. ASSUME NEW k \in 1..m
        PROVE  t[k] = ReadField(ab, t[k - 1])
    <3> HIDE DEF t
    <3>1. CASE k <= n
      <4>1. k \in 1..Len(a) /\ k \in 0..n /\ k - 1 \in 0..n /\ k - 1 \in 0..(n - 1)
            /\ k - 1 \in 0..Len(a) /\ k \in 0..Len(a)
        BY <1>3, <1>6, <3>1
      <4>2. f[k] = ReadField(a, f[k - 1])
        BY <1>1, <4>1 DEF Turns
      <4>3. f[k - 1] \in ReadStates(a) /\ ~Final(a, f[k - 1]) /\ f[k].entire
        BY <1>4, <1>5, <4>1 DEF Final
      <4>4. ReadField(ab, f[k - 1]) = ReadField(a, f[k - 1])
        BY <4>2, <4>3, TurnBefore DEF ab
      <4> QED
        BY <1>10, <4>1, <4>2, <4>4
    <3>2. CASE k > n
      <4> DEFINE i == k - n
      <4>1. i \in 1..Len(b) /\ i - 1 \in 0..Len(b) /\ i \in 0..Len(b)
            /\ n + i = k /\ n + (i - 1) = k - 1
        BY <1>3, <1>6, <3>2
      <4> HIDE DEF i
      <4>2. g[i] = ReadField(b, g[i - 1])
        BY <1>2, <4>1 DEF Turns
      <4>3. g[i - 1] \in ReadStates(b)
        BY <1>2, <4>1, TurnsAre
      <4>4. ReadField(ab, After(a, g[i - 1])) = After(a, ReadField(b, g[i - 1]))
        BY <4>3, TurnBehind DEF ab
      <4>5. t[k] = After(a, g[i]) /\ t[k - 1] = After(a, g[i - 1])
        BY <1>9, <4>1
      <4> QED
        BY <4>2, <4>4, <4>5
    <3> QED
      BY <1>6, <1>7, <3>1, <3>2
  <2>3. DOMAIN t = 0..m
    OBVIOUS
  <2> HIDE DEF t, m
  <2> QED
    BY <1>7, <2>1, <2>2, <2>3 DEF Turns
<1>12. t[m] = After(a, g[Len(b)])
  <2>1. Len(b) \in 0..Len(b)
    BY <1>3
  <2> HIDE DEF t
  <2> QED
    BY <1>9, <2>1
<1>13. Final(ab, t[m])
  <2>1. g[Len(b)].at \in Nat
    BY <1>2, <1>3, ReadIs DEF ReadStates
  <2> HIDE DEF t, m
  <2> QED
    BY <1>2, <1>3, <1>12, <2>1 DEF Final, After
<1> HIDE DEF t, m
<1> QED
  BY <1>2, <1>3, <1>11, <1>12, <1>13, ReadingIs DEF ab

LEMMA JoinedWhole ==
  ASSUME NEW a \in Bytes, Whole(a), NEW b \in Bytes
  PROVE  /\ a \o b \in Bytes
         /\ Whole(a \o b) <=> Whole(b)
         /\ ReadFields(a \o b).ok = ReadFields(b).ok
         /\ ReadFields(a \o b).fields = ReadFields(a).fields \o ReadFields(b).fields
<1> DEFINE r == ReadFields(b)
<1>1. a \o b \in Bytes
  BY DEF Bytes
<1>2. ReadFields(a \o b) = After(a, r)
  BY JoinedReading
<1>3. /\ After(a, r).entire = r.entire /\ After(a, r).ok = r.ok
      /\ After(a, r).fields = ReadFields(a).fields \o r.fields
  BY DEF After
<1> QED
  BY <1>1, <1>2, <1>3, Zenon DEF Whole

-----------------------------------------------------------------------------
(* What is read of what was written.                                       *)
LEMMA NothingIsRead == ReadFields(<<>>) = Start
<1> DEFINE f == [i \in 0..0 |-> Start]
<1>1. Turns(<<>>, f, 0) /\ f[0] = Start
  BY DEF Turns
<1>2. Final(<<>>, Start)
  BY NoBytes DEF Final, Start
<1> HIDE DEF f
<1> QED
  BY <1>1, <1>2, NoBytes, ReadingIs

LEMMA ZeroEnds ==
  ASSUME NEW b \in Bytes, Len(b) >= 1, b[1] = 0
  PROVE  ~Whole(b)
<1> DEFINE r == [Start EXCEPT !.entire = FALSE]
           f == [i \in 0..1 |-> IF i = 0 THEN Start ELSE r]
<1>1. ~Final(b, Start) /\ Ends(b[Start.at])
  BY DEF Final, Start, Ends, Bytes
<1>2. ReadField(b, Start) = r
  BY <1>1, TurnCases
<1>3. ~r.entire
  BY DEF Start
<1> HIDE DEF r
<1>4. Turns(b, f, 1) /\ Final(b, f[1]) /\ f[1] = r
  BY <1>2, <1>3 DEF Turns, Final
<1> HIDE DEF f
<1>5. ReadFields(b) = r
  BY <1>4, ReadingIs
<1> QED
  BY <1>3, <1>5 DEF Whole

Written(number, text) ==
  [number |-> number, wire |-> LENGTH_DELIMITED, body |-> text,
   bytes |-> WriteString(number, text)]

LEMMA WriteStringIs ==
  ASSUME NEW number \in 1..15, NEW text \in Bytes
  PROVE  /\ WriteString(number, text) \in Bytes
         /\ Len(WriteString(number, text)) = Len(text) + 2
         /\ WriteString(number, text)[1] = 8 * number + 2
         /\ WriteString(number, text)[2] = Len(text)
         /\ \A i \in 1..Len(text) : WriteString(number, text)[i + 2] = text[i]
<1> DEFINE h == <<8 * number + 2, Len(text)>>
<1>1. WriteString(number, text) = h \o text
  BY DEF WriteString, Tag, LENGTH_DELIMITED
<1>2. h \in Bytes /\ Len(h) = 2 /\ h[1] = 8 * number + 2 /\ h[2] = Len(text)
  BY DEF Bytes
<1> HIDE DEF h
<1>3. /\ h \o text \in Bytes /\ Len(h \o text) = 2 + Len(text)
      /\ \A i \in 1..2 : (h \o text)[i] = h[i]
      /\ \A i \in 1..Len(text) : (h \o text)[2 + i] = text[i]
  <2>1. h \in Seq(Nat) /\ text \in Seq(Nat)
    BY <1>2 DEF Bytes
  <2>2. /\ h \o text \in Seq(Nat) /\ Len(h \o text) = Len(h) + Len(text)
        /\ \A i \in 1..Len(h) : (h \o text)[i] = h[i]
        /\ \A i \in 1..Len(text) : (h \o text)[Len(h) + i] = text[i]
    BY <2>1
  <2> QED
    BY <1>2, <2>2 DEF Bytes
<1>4. Len(text) \in Nat /\ \A i \in 1..Len(text) : 2 + i = i + 2
  BY DEF Bytes
<1> QED
  BY <1>1, <1>2, <1>3, <1>4

LEMMA WrittenIsRead ==
  ASSUME NEW number \in 1..15, NEW text \in Bytes
  PROVE  /\ WriteString(number, text) \in Bytes
         /\ Whole(WriteString(number, text))
         /\ ReadFields(WriteString(number, text)).fields = <<Written(number, text)>>
<1> DEFINE b == WriteString(number, text)
<1>1. /\ b \in Bytes /\ Len(b) = Len(text) + 2 /\ Len(text) \in Nat
      /\ b[1] = 8 * number + 2 /\ b[2] = Len(text)
      /\ \A i \in 1..Len(text) : b[i + 2] = text[i]
  <2>1. Len(text) \in Nat
    BY DEF Bytes
  <2> QED
    BY <2>1, WriteStringIs, Zenon
<1>2. (8 * number + 2) % 8 = 2 /\ (8 * number + 2) \div 8 = number /\ 8 * number + 2 # 0
  OBVIOUS
<1>3. Written(number, text) = [number |-> number, wire |-> 2, body |-> text, bytes |-> b]
  BY DEF Written, LENGTH_DELIMITED
<1> HIDE DEF b
<1>4. Behind(b, 1) = Len(text) + 3
  <2>1. b[1] % 8 = LENGTH_DELIMITED /\ 1 # Len(b)
    BY <1>1, <1>2 DEF LENGTH_DELIMITED
  <2>2. Behind(b, 1) = 1 + 2 + b[1 + 1]
    BY <2>1, BehindCases
  <2> QED
    BY <1>1, <2>2
<1>5. FieldAt(b, 1) = Written(number, text)
  <2>1. FieldAt(b, 1) = [number |-> b[1] \div 8, wire |-> b[1] % 8,
                         body |-> SubSeq(b, 1 + 2, (Len(text) + 3) - 1),
                         bytes |-> SubSeq(b, 1, (Len(text) + 3) - 1)]
    BY <1>4, FieldAtIs
  <2>2. SubSeq(b, 1 + 2, (Len(text) + 3) - 1) = text
    BY <1>1 DEF Bytes
  <2>3. SubSeq(b, 1, (Len(text) + 3) - 1) = b
    BY <1>1 DEF Bytes
  <2> QED
    BY <1>1, <1>2, <1>3, <2>1, <2>2, <2>3
<1> DEFINE fld == Written(number, text)
           r == [fields |-> <<fld>>, at |-> Len(text) + 3, ok |-> TRUE, entire |-> TRUE]
           f == [i \in 0..1 |-> IF i = 0 THEN Start ELSE r]
<1>6. ReadField(b, Start) = r
  <2>1. Start.at = 1 /\ ~Final(b, Start)
    BY <1>1 DEF Start, Final
  <2>2. ~Ends(b[1]) /\ ~(Behind(b, 1) > Len(b) + 1)
    BY <1>1, <1>2, <1>4 DEF Ends, END_GROUP
  <2> HIDE DEF fld
  <2>3. ReadField(b, Start) = [Start EXCEPT !.fields = Append(@, fld), !.at = Behind(b, 1)]
    <3>1. ReadField(b, Start) = [Start EXCEPT !.fields = Append(@, FieldAt(b, Start.at)),
                                              !.at = Behind(b, Start.at)]
      BY <2>1, <2>2, TurnCases
    <3> QED
      BY <1>5, <2>1, <3>1 DEF fld
  <2>4. Append(<<>>, fld) = <<fld>>
    OBVIOUS
  <2> QED
    BY <1>4, <2>3, <2>4 DEF Start
<1>7. Final(b, r)
  BY <1>1 DEF Final
<1>8. r.fields = <<fld>> /\ r.entire
  OBVIOUS
<1> HIDE DEF r, fld
<1>9. Turns(b, f, 1) /\ Final(b, f[1]) /\ f[1] = r
  BY <1>6, <1>7 DEF Turns
<1> HIDE DEF f
<1>10. ReadFields(b) = r
  BY <1>1, <1>9, ReadingIs
<1> QED
  BY <1>1, <1>8, <1>10 DEF Whole, b, fld

-----------------------------------------------------------------------------
(* Bytes that did not arrive are zeros.                                    *)
Zeros(n) == [i \in 1..n |-> 0]

Torn(b, k) == SubSeq(b, 1, k) \o Zeros(Len(b) - k)

LEMMA SameBytes ==
  ASSUME NEW a \in Bytes, NEW b \in Bytes, Len(a) = Len(b),
         \A i \in 1..Len(a) : a[i] = b[i]
  PROVE  a = b
BY DEF Bytes

LEMMA ZerosAre ==
  ASSUME NEW n \in Nat
  PROVE  /\ Zeros(n) \in Bytes /\ Len(Zeros(n)) = n
         /\ \A i \in 1..n : Zeros(n)[i] = 0
BY DEF Zeros, Bytes

LEMMA JoinedBytes ==
  ASSUME NEW a \in Bytes, NEW b \in Bytes
  PROVE  /\ a \o b \in Bytes /\ Len(a \o b) = Len(a) + Len(b)
         /\ Len(a) \in Nat /\ Len(b) \in Nat
         /\ \A i \in 1..Len(a) : (a \o b)[i] = a[i]
         /\ \A i \in 1..Len(b) : (a \o b)[Len(a) + i] = b[i]
BY DEF Bytes

LEMMA TornIs ==
  ASSUME NEW b \in Bytes, NEW k \in 0..Len(b)
  PROVE  /\ Torn(b, k) \in Bytes /\ Len(Torn(b, k)) = Len(b)
         /\ \A i \in 1..Len(b) : Torn(b, k)[i] = IF i <= k THEN b[i] ELSE 0
<1> DEFINE p == SubSeq(b, 1, k)
           z == Zeros(Len(b) - k)
           t == p \o z
<1>1. p \in Bytes /\ Len(p) = k /\ (\A i \in 1..k : p[i] = b[i]) /\ Len(b) \in Nat
  BY DEF Bytes
<1>2. z \in Bytes /\ Len(z) = Len(b) - k /\ \A i \in 1..(Len(b) - k) : z[i] = 0
  <2>1. Len(b) - k \in Nat
    BY <1>1
  <2> QED
    BY <2>1, ZerosAre
<1> HIDE DEF p, z
<1>3. /\ t \in Bytes /\ Len(t) = Len(p) + Len(z)
      /\ \A i \in 1..Len(p) : t[i] = p[i]
      /\ \A i \in 1..Len(z) : t[Len(p) + i] = z[i]
  BY <1>1, <1>2, JoinedBytes
<1>4. Torn(b, k) = t
  BY DEF Torn, p, z
<1> HIDE DEF t
<1>5. Len(t) = Len(b)
  BY <1>1, <1>2, <1>3
<1>6. ASSUME NEW i \in 1..Len(b)
      PROVE  t[i] = IF i <= k THEN b[i] ELSE 0
  <2>1. CASE i <= k
    BY <1>1, <1>3, <2>1
  <2>2. CASE i > k
    <3> DEFINE j == i - k
    <3>1. j \in 1..(Len(b) - k) /\ k + j = i
      BY <1>1, <2>2
    <3> HIDE DEF j
    <3>2. t[Len(p) + j] = z[j]
      BY <1>2, <1>3, <3>1
    <3>3. t[i] = 0
      BY <1>1, <1>2, <3>1, <3>2
    <3>4. ~(i <= k)
      BY <1>1, <2>2
    <3> QED
      BY <3>3, <3>4
  <2> QED
    BY <1>1, <2>1, <2>2
<1> QED
  BY <1>3, <1>4, <1>5, <1>6

(* A tear in the first part of a stream, and one behind it.                *)
LEMMA TornBefore ==
  ASSUME NEW a \in Bytes, NEW b \in Bytes, NEW k \in 0..Len(a)
  PROVE  Torn(a \o b, k) = Torn(a, k) \o Zeros(Len(b))
<1> DEFINE ab == a \o b
           t == Torn(a, k)
           z == Zeros(Len(b))
           tz == t \o z
           u == Torn(ab, k)
<1>1. /\ ab \in Bytes /\ Len(ab) = Len(a) + Len(b) /\ Len(a) \in Nat /\ Len(b) \in Nat
      /\ \A i \in 1..Len(a) : ab[i] = a[i]
  BY JoinedBytes
<1>2. /\ t \in Bytes /\ Len(t) = Len(a)
      /\ \A i \in 1..Len(a) : t[i] = IF i <= k THEN a[i] ELSE 0
  BY TornIs
<1>3. z \in Bytes /\ Len(z) = Len(b) /\ \A i \in 1..Len(b) : z[i] = 0
  BY <1>1, ZerosAre
<1> HIDE DEF ab, t, z
<1>4. /\ tz \in Bytes /\ Len(tz) = Len(t) + Len(z)
      /\ \A i \in 1..Len(t) : tz[i] = t[i]
      /\ \A i \in 1..Len(z) : tz[Len(t) + i] = z[i]
  BY <1>2, <1>3, JoinedBytes
<1>5. /\ u \in Bytes /\ Len(u) = Len(ab)
      /\ \A i \in 1..Len(ab) : u[i] = IF i <= k THEN ab[i] ELSE 0
  <2>1. k \in 0..Len(ab)
    BY <1>1
  <2> QED
    BY <1>1, <2>1, TornIs
<1> HIDE DEF tz, u
<1>6. \A i \in 1..Len(u) : u[i] = tz[i]
  <2> TAKE i \in 1..Len(u)
  <2>1. CASE i <= Len(a)
    BY <1>1, <1>2, <1>4, <1>5, <2>1
  <2>2. CASE i > Len(a)
    <3> DEFINE j == i - Len(a)
    <3>1. j \in 1..Len(b) /\ Len(a) + j = i /\ ~(i <= k) /\ i \in 1..Len(ab)
      BY <1>1, <1>5, <2>2
    <3> HIDE DEF j
    <3>2. tz[i] = z[j]
      BY <1>2, <1>3, <1>4, <3>1
    <3> QED
      BY <1>3, <1>5, <3>1, <3>2
  <2> QED
    BY <1>1, <1>5, <2>1, <2>2
<1>7. Len(u) = Len(tz)
  BY <1>1, <1>2, <1>3, <1>4, <1>5
<1>8. u = tz
  BY <1>4, <1>5, <1>6, <1>7, SameBytes
<1> QED
  BY <1>8 DEF u, tz, ab, t, z

LEMMA TornBehind ==
  ASSUME NEW a \in Bytes, NEW b \in Bytes, NEW k \in 0..Len(b)
  PROVE  Torn(a \o b, Len(a) + k) = a \o Torn(b, k)
<1> DEFINE ab == a \o b
           t == Torn(b, k)
           at == a \o t
           u == Torn(ab, Len(a) + k)
<1>1. /\ ab \in Bytes /\ Len(ab) = Len(a) + Len(b) /\ Len(a) \in Nat /\ Len(b) \in Nat
      /\ \A i \in 1..Len(a) : ab[i] = a[i]
      /\ \A i \in 1..Len(b) : ab[Len(a) + i] = b[i]
  BY JoinedBytes
<1>2. /\ t \in Bytes /\ Len(t) = Len(b)
      /\ \A i \in 1..Len(b) : t[i] = IF i <= k THEN b[i] ELSE 0
  BY TornIs
<1> HIDE DEF ab, t
<1>4. /\ at \in Bytes /\ Len(at) = Len(a) + Len(t)
      /\ \A i \in 1..Len(a) : at[i] = a[i]
      /\ \A i \in 1..Len(t) : at[Len(a) + i] = t[i]
  BY <1>2, JoinedBytes
<1>5. /\ u \in Bytes /\ Len(u) = Len(ab)
      /\ \A i \in 1..Len(ab) : u[i] = IF i <= Len(a) + k THEN ab[i] ELSE 0
  <2>1. Len(a) + k \in 0..Len(ab)
    BY <1>1
  <2> QED
    BY <1>1, <2>1, TornIs
<1> HIDE DEF at, u
<1>6. \A i \in 1..Len(u) : u[i] = at[i]
  <2> TAKE i \in 1..Len(u)
  <2>1. CASE i <= Len(a)
    <3>1. i <= Len(a) + k /\ i \in 1..Len(a) /\ i \in 1..Len(ab)
      BY <1>1, <1>5, <2>1
    <3> QED
      BY <1>1, <1>4, <1>5, <3>1
  <2>2. CASE i > Len(a)
    <3> DEFINE j == i - Len(a)
    <3>1. j \in 1..Len(b) /\ Len(a) + j = i /\ (i <= Len(a) + k <=> j <= k)
          /\ i \in 1..Len(ab)
      BY <1>1, <1>5, <2>2
    <3> HIDE DEF j
    <3>2. u[i] = IF j <= k THEN b[j] ELSE 0
      BY <1>1, <1>5, <3>1
    <3>3. at[i] = t[j]
      BY <1>2, <1>4, <3>1
    <3> QED
      BY <1>2, <3>1, <3>2, <3>3
  <2> QED
    BY <1>1, <1>5, <2>1, <2>2
<1>7. Len(u) = Len(at)
  BY <1>1, <1>2, <1>4, <1>5
<1>8. u = at
  BY <1>4, <1>5, <1>6, <1>7, SameBytes
<1> QED
  BY <1>8 DEF u, at, ab, t

LEMMA JoinedThrice ==
  ASSUME NEW a \in Bytes, NEW b \in Bytes, NEW c \in Bytes
  PROVE  (a \o b) \o c = a \o (b \o c)
BY DEF Bytes

LEMMA JoinedZeros ==
  ASSUME NEW n \in Nat, NEW m \in Nat
  PROVE  Zeros(n) \o Zeros(m) = Zeros(n + m)
<1> DEFINE x == Zeros(n)
           y == Zeros(m)
           z == Zeros(n + m)
           xy == x \o y
<1>1. n + m \in Nat
  OBVIOUS
<1>2. /\ x \in Bytes /\ Len(x) = n /\ y \in Bytes /\ Len(y) = m
      /\ z \in Bytes /\ Len(z) = n + m
      /\ \A i \in 1..n : x[i] = 0
      /\ \A i \in 1..m : y[i] = 0
      /\ \A i \in 1..(n + m) : z[i] = 0
  BY <1>1, ZerosAre
<1> HIDE DEF x, y, z
<1>3. /\ xy \in Bytes /\ Len(xy) = Len(x) + Len(y)
      /\ \A i \in 1..Len(x) : xy[i] = x[i]
      /\ \A i \in 1..Len(y) : xy[Len(x) + i] = y[i]
  BY <1>2, JoinedBytes
<1> HIDE DEF xy
<1>4. \A i \in 1..Len(xy) : xy[i] = z[i]
  <2> TAKE i \in 1..Len(xy)
  <2>1. CASE i <= n
    BY <1>2, <1>3, <2>1
  <2>2. CASE i > n
    <3>1. i - n \in 1..m /\ n + (i - n) = i
      BY <1>2, <1>3, <2>2
    <3> QED
      BY <1>2, <1>3, <3>1
  <2> QED
    BY <1>2, <1>3, <2>1, <2>2
<1>5. xy = z
  BY <1>2, <1>3, <1>4, SameBytes
<1> QED
  BY <1>5 DEF x, y, z, xy

(* A torn string field is no field, or another string; what follows it     *)
(* does not arrive.                                                        *)
LEMMA TornString ==
  ASSUME NEW number \in 1..15, NEW text \in Bytes,
         NEW k \in 0..(Len(WriteString(number, text)) - 1), NEW m \in Nat,
         Whole(Torn(WriteString(number, text), k) \o Zeros(m))
  PROVE  /\ m = 0
         /\ \E other \in Bytes :
              Torn(WriteString(number, text), k) = WriteString(number, other)
<1> DEFINE w == WriteString(number, text)
           t == Torn(w, k)
           n == Len(text)
<1>1. /\ w \in Bytes /\ Len(w) = n + 2 /\ n \in Nat
      /\ w[1] = 8 * number + 2 /\ w[2] = n
      /\ \A i \in 1..n : w[i + 2] = text[i]
  <2>1. Len(text) \in Nat
    BY DEF Bytes
  <2> QED
    BY <2>1, WriteStringIs, Zenon
<1>2. /\ t \in Bytes /\ Len(t) = n + 2
      /\ \A i \in 1..(n + 2) : t[i] = IF i <= k THEN w[i] ELSE 0
  <2>1. k \in 0..Len(w)
    BY <1>1
  <2> HIDE DEF w
  <2> QED
    BY <1>1, <2>1, TornIs
<1>3. Whole(t \o Zeros(m))
  OBVIOUS
<1>4. Zeros(m) \in Bytes
  BY ZerosAre
<1> HIDE DEF w, t
<1>5. ASSUME NEW q \in Nat, NEW other \in Bytes, q > 0,
             t \o Zeros(m) = WriteString(number, other) \o Zeros(q)
      PROVE  FALSE
  <2>1. Zeros(q) \in Bytes /\ Len(Zeros(q)) >= 1 /\ Zeros(q)[1] = 0
    BY <1>5, ZerosAre
  <2>2. ~Whole(Zeros(q))
    BY <2>1, ZeroEnds
  <2>3. ~Whole(WriteString(number, other) \o Zeros(q))
    BY <2>1, <2>2, WrittenIsRead, JoinedWhole
  <2> QED
    BY <1>3, <1>5, <2>3
<1>6. CASE k = 0
  <2> DEFINE tz == t \o Zeros(m)
  <2>1. t[1] = 0
    BY <1>1, <1>2, <1>6
  <2>2. tz \in Bytes /\ Len(tz) >= 1 /\ tz[1] = t[1]
    <3>1. /\ tz \in Bytes /\ Len(tz) = Len(t) + Len(Zeros(m)) /\ Len(Zeros(m)) \in Nat
          /\ \A i \in 1..Len(t) : tz[i] = t[i]
      BY <1>2, <1>4, JoinedBytes
    <3> HIDE DEF tz
    <3> QED
      BY <1>1, <1>2, <3>1
  <2> HIDE DEF tz
  <2>3. ~Whole(tz)
    BY <2>1, <2>2, ZeroEnds
  <2> QED
    BY <1>3, <2>3 DEF tz
<1>7. CASE k = 1
  <2> DEFINE e == WriteString(number, <<>>)
             z == Zeros(n)
             ez == e \o z
  <2>1. e \in Bytes /\ Len(e) = 2 /\ e[1] = 8 * number + 2 /\ e[2] = 0
    <3>1. /\ e \in Bytes /\ Len(e) = Len(<<>>) + 2
          /\ e[1] = 8 * number + 2 /\ e[2] = Len(<<>>)
      BY NoBytes, WriteStringIs
    <3> HIDE DEF e
    <3> QED
      BY <3>1
  <2>2. z \in Bytes /\ Len(z) = n /\ \A i \in 1..n : z[i] = 0
    BY <1>1, ZerosAre
  <2> HIDE DEF e, z
  <2>3. /\ ez \in Bytes /\ Len(ez) = 2 + n
        /\ \A i \in 1..2 : ez[i] = e[i]
        /\ \A i \in 1..n : ez[2 + i] = 0
    <3>1. /\ ez \in Bytes /\ Len(ez) = Len(e) + Len(z)
          /\ \A i \in 1..Len(e) : ez[i] = e[i]
          /\ \A i \in 1..Len(z) : ez[Len(e) + i] = z[i]
      BY <2>1, <2>2, JoinedBytes DEF z
    <3> HIDE DEF ez
    <3> QED
      BY <2>1, <2>2, <3>1
  <2> HIDE DEF ez
  <2>4. \A i \in 1..Len(t) : t[i] = ez[i]
    <3> TAKE i \in 1..Len(t)
    <3>1. CASE i = 1
      BY <1>1, <1>2, <1>7, <2>1, <2>3, <3>1
    <3>2. CASE i = 2
      BY <1>1, <1>2, <1>7, <2>1, <2>3, <3>2
    <3>3. CASE i > 2
      <4>1. i - 2 \in 1..n /\ 2 + (i - 2) = i /\ i \in 1..(n + 2) /\ ~(i <= k)
        BY <1>1, <1>2, <1>7, <3>3
      <4> QED
        BY <1>2, <2>3, <4>1
    <3> QED
      BY <1>1, <1>2, <3>1, <3>2, <3>3
  <2>5. t = ez
    BY <1>1, <1>2, <2>3, <2>4, SameBytes
  <2>6. t \o Zeros(m) = e \o Zeros(n + m)
    <3>1. (e \o z) \o Zeros(m) = e \o (z \o Zeros(m))
      BY <1>4, <2>1, <2>2, JoinedThrice
    <3>2. z \o Zeros(m) = Zeros(n + m)
      BY <1>1, JoinedZeros DEF z
    <3>3. ez \o Zeros(m) = e \o (z \o Zeros(m))
      BY <3>1 DEF ez
    <3> HIDE DEF ez
    <3> QED
      BY <2>5, <3>2, <3>3
  <2>7. n + m = 0
    <3> DEFINE q == n + m
    <3>1. q \in Nat
      BY <1>1
    <3>2. t \o Zeros(m) = WriteString(number, <<>>) \o Zeros(q)
      BY <2>6 DEF e
    <3> HIDE DEF q
    <3>3. ~(q > 0)
      BY <1>5, <3>1, <3>2, NoBytes
    <3> QED
      BY <3>1, <3>3 DEF q
  <2>8. n = 0 /\ m = 0
    BY <1>1, <2>7
  <2>9. t = e
    <3>1. \A i \in 1..Len(t) : t[i] = e[i]
      BY <1>2, <2>3, <2>5, <2>8
    <3> QED
      BY <1>2, <2>1, <2>8, <3>1, SameBytes
  <2> QED
    BY <2>8, <2>9, NoBytes DEF t, w, e
<1>8. CASE k >= 2
  <2> DEFINE other == Torn(text, k - 2)
             o == WriteString(number, other)
  <2>1. k - 2 \in 0..n
    BY <1>1, <1>8 DEF w
  <2>2. /\ other \in Bytes /\ Len(other) = n
        /\ \A i \in 1..n : other[i] = IF i <= k - 2 THEN text[i] ELSE 0
    BY <2>1, TornIs
  <2> HIDE DEF other
  <2>3. /\ o \in Bytes /\ Len(o) = n + 2 /\ o[1] = 8 * number + 2 /\ o[2] = n
        /\ \A i \in 1..n : o[i + 2] = other[i]
    BY <2>2, WriteStringIs
  <2> HIDE DEF o
  <2>4. \A i \in 1..Len(t) : t[i] = o[i]
    <3> TAKE i \in 1..Len(t)
    <3>1. CASE i \in 1..2
      BY <1>1, <1>2, <1>8, <2>3, <3>1
    <3>2. CASE i > 2
      <4> DEFINE j == i - 2
      <4>1. j \in 1..n /\ j + 2 = i /\ i \in 1..(n + 2) /\ (i <= k <=> j <= k - 2)
        BY <1>1, <1>2, <1>8, <3>2
      <4> HIDE DEF j
      <4>2. t[i] = IF j <= k - 2 THEN text[j] ELSE 0
        BY <1>1, <1>2, <4>1
      <4> QED
        BY <2>2, <2>3, <4>1, <4>2
    <3> QED
      BY <1>1, <1>2, <3>1, <3>2
  <2>5. t = o
    BY <1>2, <2>3, <2>4, SameBytes
  <2>6. m = 0
    <3> SUFFICES ASSUME m > 0
                 PROVE  FALSE
      OBVIOUS
    <3> QED
      BY <1>5, <2>2, <2>5 DEF o
  <2> QED
    BY <2>2, <2>5, <2>6 DEF t, w, o
<1> QED
  BY <1>6, <1>7, <1>8

-----------------------------------------------------------------------------
(* Parts one behind the other.                                             *)
LEMMA FlattenIs ==
  ASSUME NEW parts \in Seq(Bytes)
  PROVE  \E g \in [0..Len(parts) -> Bytes] :
           /\ g[0] = <<>>
           /\ \A i \in 1..Len(parts) : g[i] = g[i - 1] \o parts[i]
           /\ FlattenSeq(parts) = g[Len(parts)]
<1> DEFINE n == Len(parts)
           step == [i \in 1..n |-> [b \in Bytes |-> b \o parts[i]]]
           Def(f) == f = [i \in 1..n |-> IF i = 1 THEN parts[i] ELSE f[i - 1] \o parts[i]]
           flatten == CHOOSE f : Def(f)
<1>0. n \in Nat /\ n \in 0..n /\ \A i \in 1..n : parts[i] \in Bytes
  OBVIOUS
<1>1. n = 0 => FlattenSeq(parts) = <<>>
  <2>1. n = 0 => parts = <<>>
    OBVIOUS
  <2> QED
    BY <2>1, Zenon DEF FlattenSeq
<1>2. n # 0 => FlattenSeq(parts) = flatten[n]
  BY DEF FlattenSeq
<1> HIDE DEF n
<1>3. PICK g : FollowsSteps(g, n, Bytes, <<>>, step)
  <2>1. \A i \in 1..n : \A b \in Bytes : b \o parts[i] \in Bytes
    BY <1>0, JoinedBytes
  <2>2. step \in [1..n -> [Bytes -> Bytes]]
    BY <2>1
  <2> HIDE DEF step
  <2> QED
    BY <1>0, <2>2, NoBytes, FunctionOfSteps
<1>4. /\ g \in [0..n -> Bytes] /\ g[0] = <<>>
      /\ \A i \in 1..n : g[i] = step[i][g[i - 1]]
  BY <1>3 DEF FollowsSteps
<1>5. \A i \in 1..n : g[i] = g[i - 1] \o parts[i] /\ g[i] \in Bytes
  <2> TAKE i \in 1..n
  <2>1. i \in 0..n /\ i - 1 \in 0..n
    BY <1>0
  <2>2. g[i - 1] \in Bytes /\ g[i] \in Bytes
    BY <1>4, <2>1
  <2> QED
    BY <1>4, <2>2
<1> DEFINE h == [i \in 1..n |-> g[i]]
<1>6. Def(h)
  <2>1. ASSUME NEW i \in 1..n
        PROVE  g[i] = IF i = 1 THEN parts[i] ELSE h[i - 1] \o parts[i]
    <3>1. CASE i = 1
      <4>1. g[1] = <<>> \o parts[1] /\ parts[1] \in Bytes
        <5>1. 1 \in 1..n /\ 1 - 1 = 0
          BY <3>1
        <5>2. g[1] = g[1 - 1] \o parts[1] /\ parts[1] \in Bytes
          BY <1>0, <1>5, <5>1, Zenon
        <5> QED
          BY <1>4, <5>1, <5>2, Zenon
      <4>2. <<>> \o parts[1] = parts[1]
        BY <4>1 DEF Bytes
      <4> QED
        BY <3>1, <4>1, <4>2
    <3>2. CASE i # 1
      <4>1. i - 1 \in 1..n
        BY <1>0, <3>2
      <4> QED
        BY <1>5, <3>2, <4>1
    <3> QED
      BY <3>1, <3>2
  <2>2. h = [i \in 1..n |-> IF i = 1 THEN parts[i] ELSE h[i - 1] \o parts[i]]
    BY <2>1, Zenon
  <2> QED
    BY <2>2
<1>7. Def(flatten)
  <2> HIDE DEF Def, h
  <2> QED
    BY <1>6, Zenon
<1>8. ASSUME n # 0
      PROVE  flatten[n] = g[n]
  <2> DEFINE T == {i \in 0..(n - 1) : flatten[i + 1] = g[i + 1]}
  <2> HIDE DEF flatten
  <2>1. \A i \in 1..n : flatten[i] = IF i = 1 THEN parts[i] ELSE flatten[i - 1] \o parts[i]
    BY <1>7
  <2>2. 0 \in T
    <3>1. 1 \in 1..n /\ 0 \in 0..(n - 1) /\ 0 + 1 = 1
      BY <1>0, <1>8
    <3>2. flatten[1] = parts[1] /\ g[1] = <<>> \o parts[1] /\ parts[1] \in Bytes
      <4>1. g[1] = g[1 - 1] \o parts[1] /\ parts[1] \in Bytes /\ flatten[1] = parts[1]
        BY <1>0, <1>5, <2>1, <3>1, Zenon
      <4>2. 1 - 1 = 0
        OBVIOUS
      <4> QED
        BY <1>4, <4>1, <4>2, Zenon
    <3>3. <<>> \o parts[1] = parts[1]
      BY <3>2 DEF Bytes
    <3> QED
      BY <3>1, <3>2, <3>3
  <2>3. ASSUME NEW i \in 0..(n - 1 - 1), i \in T
        PROVE  i + 1 \in T
    <3>1. /\ i + 1 + 1 \in 1..n /\ i + 1 + 1 # 1 /\ i + 1 + 1 - 1 = i + 1
          /\ i + 1 \in 0..(n - 1)
      BY <1>0
    <3>2. flatten[i + 1] = g[i + 1]
      BY <2>3
    <3>3. /\ flatten[i + 1 + 1] = flatten[i + 1] \o parts[i + 1 + 1]
          /\ g[i + 1 + 1] = g[i + 1] \o parts[i + 1 + 1]
      <4> DEFINE j == i + 1 + 1
      <4>1. j \in 1..n /\ j # 1 /\ j - 1 = i + 1
        BY <3>1
      <4> HIDE DEF j
      <4>2. flatten[j] = flatten[j - 1] \o parts[j]
        BY <2>1, <4>1, Zenon
      <4>3. g[j] = g[j - 1] \o parts[j]
        BY <1>5, <4>1, Zenon
      <4>4. flatten[j] = flatten[i + 1] \o parts[j] /\ g[j] = g[i + 1] \o parts[j]
        BY <4>1, <4>2, <4>3, Zenon
      <4> QED
        BY <4>4, Zenon DEF j
    <3> QED
      BY <3>1, <3>2, <3>3
  <2>4. n - 1 \in T
    <3>1. n - 1 \in Nat /\ n - 1 \in 0..(n - 1)
      BY <1>0, <1>8
    <3> HIDE DEF T
    <3> QED
      BY <2>2, <2>3, <3>1, Induction
  <2>5. n - 1 + 1 = n
    BY <1>0
  <2> QED
    BY <2>4, <2>5
<1>9. FlattenSeq(parts) = g[n]
  BY <1>1, <1>2, <1>4, <1>8
<1> QED
  BY <1>4, <1>5, <1>9 DEF n

Strings(number, texts) == [i \in DOMAIN texts |-> WriteString(number, texts[i])]

LEMMA StringsAre ==
  ASSUME NEW number \in 1..15, NEW texts \in Seq(Bytes)
  PROVE  /\ Strings(number, texts) \in Seq(Bytes)
         /\ Len(Strings(number, texts)) = Len(texts)
         /\ \A i \in 1..Len(texts) : /\ texts[i] \in Bytes
                                     /\ Strings(number, texts)[i] = WriteString(number, texts[i])
<1>1. \A i \in 1..Len(texts) : texts[i] \in Bytes
  OBVIOUS
<1>2. \A i \in 1..Len(texts) : WriteString(number, texts[i]) \in Bytes
  BY <1>1, WriteStringIs
<1> QED
  BY <1>1, <1>2 DEF Strings

(* String fields are read one by one, ...                                  *)
LEMMA StringsAreRead ==
  ASSUME NEW number \in 1..15, NEW texts \in Seq(Bytes)
  PROVE  /\ FlattenSeq(Strings(number, texts)) \in Bytes
         /\ Whole(FlattenSeq(Strings(number, texts)))
         /\ ReadFields(FlattenSeq(Strings(number, texts))).fields =
              [i \in 1..Len(texts) |-> Written(number, texts[i])]
<1> DEFINE parts == Strings(number, texts)
           n == Len(texts)
           upTo(i) == [j \in 1..i |-> Written(number, texts[j])]
<1>1. /\ parts \in Seq(Bytes) /\ Len(parts) = n /\ n \in Nat
      /\ \A i \in 1..n : texts[i] \in Bytes /\ parts[i] = WriteString(number, texts[i])
  BY StringsAre
<1> HIDE DEF parts, n
<1>2. PICK g \in [0..n -> Bytes] :
           /\ g[0] = <<>>
           /\ \A i \in 1..n : g[i] = g[i - 1] \o parts[i]
           /\ FlattenSeq(parts) = g[n]
  BY <1>1, FlattenIs
<1> DEFINE T == {i \in 0..n : Whole(g[i]) /\ ReadFields(g[i]).fields = upTo(i)}
<1>3. 0 \in T
  <2>1. Whole(<<>>) /\ ReadFields(<<>>).fields = <<>>
    BY NothingIsRead DEF Whole, Start
  <2>2. upTo(0) = <<>>
    OBVIOUS
  <2>3. 0 \in 0..n
    BY <1>1
  <2> QED
    BY <1>2, <2>1, <2>2, <2>3
<1>4. ASSUME NEW i \in 0..(n - 1), i \in T
      PROVE  i + 1 \in T
  <2> DEFINE w == WriteString(number, texts[i + 1])
             fld == Written(number, texts[i + 1])
  <2>1. i + 1 \in 1..n /\ i + 1 - 1 = i /\ i \in 0..n /\ i + 1 \in 0..n /\ i \in Nat
    BY <1>1
  <2>2. w \in Bytes /\ Whole(w) /\ ReadFields(w).fields = <<fld>>
    BY <1>1, <2>1, WrittenIsRead
  <2>3. g[i + 1] = g[i] \o w /\ g[i] \in Bytes
    <3> DEFINE j == i + 1
    <3>1. j \in 1..n /\ j - 1 = i
      BY <2>1
    <3>2. g[i] \in Bytes
      BY <2>1
    <3> HIDE DEF j
    <3>3. g[j] = g[j - 1] \o parts[j] /\ parts[j] = WriteString(number, texts[j])
      BY <1>1, <1>2, <3>1, Zenon
    <3>4. g[j] = g[i] \o WriteString(number, texts[j])
      BY <3>1, <3>3, Zenon
    <3> QED
      BY <3>2, <3>4, Zenon DEF j
  <2>4. Whole(g[i]) /\ ReadFields(g[i]).fields = upTo(i)
    BY <1>4
  <2> HIDE DEF w, fld, upTo
  <2>5. Whole(g[i + 1]) /\ ReadFields(g[i + 1]).fields = upTo(i) \o <<fld>>
    BY <2>2, <2>3, <2>4, JoinedWhole
  <2>6. upTo(i) \o <<fld>> = upTo(i + 1)
    BY <2>1 DEF upTo, fld
  <2> QED
    BY <2>1, <2>5, <2>6
<1>5. n \in T
  <2>1. n \in 0..n
    BY <1>1
  <2> HIDE DEF T
  <2> QED
    BY <1>1, <1>3, <1>4, <2>1, Induction
<1>6. g[n] \in Bytes /\ Whole(g[n]) /\ ReadFields(g[n]).fields = upTo(n)
  BY <1>1, <1>2, <1>5
<1> QED
  BY <1>2, <1>6 DEF parts, n

(* ... and where they are torn, the message ends before its end.           *)
LEMMA StringsTorn ==
  ASSUME NEW number \in 1..15, NEW texts \in Seq(Bytes),
         NEW k \in 0..(Len(FlattenSeq(Strings(number, texts))) - 1), NEW m \in Nat \ {0}
  PROVE  ~Whole(Torn(FlattenSeq(Strings(number, texts)), k) \o Zeros(m))
<1> DEFINE parts == Strings(number, texts)
           n == Len(texts)
<1>1. /\ parts \in Seq(Bytes) /\ Len(parts) = n /\ n \in Nat
      /\ \A i \in 1..n : texts[i] \in Bytes /\ parts[i] = WriteString(number, texts[i])
  BY StringsAre
<1>k. k \in 0..(Len(FlattenSeq(parts)) - 1)
  OBVIOUS
<1> HIDE DEF parts, n
<1>2. PICK g \in [0..n -> Bytes] :
           /\ g[0] = <<>>
           /\ \A i \in 1..n : g[i] = g[i - 1] \o parts[i]
           /\ FlattenSeq(parts) = g[n]
  BY <1>1, FlattenIs
<1> DEFINE T == {i \in 0..n : Whole(g[i]) /\
                   \A l \in 0..(Len(g[i]) - 1) : \A z \in Nat \ {0} :
                      ~Whole(Torn(g[i], l) \o Zeros(z))}
<1>3. 0 \in T
  <2>1. Whole(<<>>)
    BY NothingIsRead DEF Whole, Start
  <2>2. 0 \in 0..n /\ 0..(Len(<<>>) - 1) = {}
    BY <1>1
  <2> QED
    BY <1>2, <2>1, <2>2
<1>4. ASSUME NEW i \in 0..(n - 1), i \in T
      PROVE  i + 1 \in T
  <2> DEFINE w == WriteString(number, texts[i + 1])
             a == g[i]
  <2>1. i + 1 \in 1..n /\ i + 1 - 1 = i /\ i \in 0..n /\ i + 1 \in 0..n /\ i \in Nat
    BY <1>1
  <2>2. w \in Bytes /\ Whole(w)
    BY <1>1, <2>1, WrittenIsRead
  <2>3. g[i + 1] = a \o w /\ a \in Bytes
    <3> DEFINE j == i + 1
    <3>1. j \in 1..n /\ j - 1 = i
      BY <2>1
    <3>2. g[i] \in Bytes
      BY <2>1
    <3> HIDE DEF j
    <3>3. g[j] = g[j - 1] \o parts[j] /\ parts[j] = WriteString(number, texts[j])
      BY <1>1, <1>2, <3>1, Zenon
    <3>4. g[j] = g[i] \o WriteString(number, texts[j])
      BY <3>1, <3>3, Zenon
    <3> QED
      BY <3>2, <3>4, Zenon DEF j
  <2>4. Whole(a) /\ \A l \in 0..(Len(a) - 1) : \A z \in Nat \ {0} :
                      ~Whole(Torn(a, l) \o Zeros(z))
    BY <1>4
  <2>t. \A l \in 0..(Len(w) - 1) : \A z \in Nat \ {0} : ~Whole(Torn(w, l) \o Zeros(z))
    <3> SUFFICES ASSUME NEW l \in 0..(Len(w) - 1), NEW z \in Nat \ {0},
                        Whole(Torn(w, l) \o Zeros(z))
                 PROVE  FALSE
      OBVIOUS
    <3>1. texts[i + 1] \in Bytes
      BY <1>1, <2>1
    <3>2. z = 0
      BY <3>1, TornString
    <3> QED
      BY <3>2
  <2> HIDE DEF w, a
  <2>5. Whole(a \o w)
    BY <2>2, <2>3, <2>4, JoinedWhole
  <2>6. Len(a \o w) = Len(a) + Len(w) /\ Len(a) \in Nat /\ Len(w) \in Nat
    BY <2>2, <2>3, JoinedBytes
  <2>7. ASSUME NEW l \in 0..(Len(a \o w) - 1), NEW z \in Nat \ {0}
        PROVE  ~Whole(Torn(a \o w, l) \o Zeros(z))
    <3>1. Zeros(z) \in Bytes /\ Zeros(Len(w)) \in Bytes
      BY <2>6, ZerosAre
    <3>2. CASE l < Len(a)
      <4>1. l \in 0..Len(a) /\ l \in 0..(Len(a) - 1) /\ Len(w) + z \in Nat \ {0}
        BY <2>6, <3>2
      <4>2. Torn(a \o w, l) = Torn(a, l) \o Zeros(Len(w))
        BY <2>2, <2>3, <4>1, TornBefore
      <4>3. Torn(a, l) \in Bytes
        BY <2>3, <4>1, TornIs
      <4>4. (Torn(a, l) \o Zeros(Len(w))) \o Zeros(z) = Torn(a, l) \o (Zeros(Len(w)) \o Zeros(z))
        BY <3>1, <4>3, JoinedThrice
      <4>5. Zeros(Len(w)) \o Zeros(z) = Zeros(Len(w) + z)
        BY <2>6, JoinedZeros
      <4>6. ~Whole(Torn(a, l) \o Zeros(Len(w) + z))
        BY <2>4, <4>1
      <4> QED
        BY <4>2, <4>4, <4>5, <4>6
    <3>3. CASE l >= Len(a)
      <4> DEFINE j == l - Len(a)
      <4>1. j \in 0..Len(w) /\ j \in 0..(Len(w) - 1) /\ Len(a) + j = l
        BY <2>6, <3>3
      <4> HIDE DEF j
      <4>2. Torn(a \o w, l) = a \o Torn(w, j)
        BY <2>2, <2>3, <4>1, TornBehind
      <4>3. Torn(w, j) \in Bytes
        BY <2>2, <4>1, TornIs
      <4>4. (a \o Torn(w, j)) \o Zeros(z) = a \o (Torn(w, j) \o Zeros(z))
        BY <2>3, <3>1, <4>3, JoinedThrice
      <4>5. Torn(w, j) \o Zeros(z) \in Bytes
        BY <3>1, <4>3, JoinedBytes
      <4>6. ~Whole(Torn(w, j) \o Zeros(z))
        BY <2>t, <4>1
      <4>7. ~Whole(a \o (Torn(w, j) \o Zeros(z)))
        BY <2>3, <2>4, <4>5, <4>6, JoinedWhole
      <4> QED
        BY <4>2, <4>4, <4>7
    <3> QED
      BY <2>6, <3>2, <3>3
  <2> QED
    BY <2>1, <2>3, <2>5, <2>7
<1>5. n \in T
  <2>1. n \in 0..n
    BY <1>1
  <2> HIDE DEF T
  <2> QED
    BY <1>1, <1>3, <1>4, <2>1, Induction
<1>6. ~Whole(Torn(g[n], k) \o Zeros(m))
  BY <1>k, <1>2, <1>5
<1> QED
  BY <1>2, <1>6 DEF parts

-----------------------------------------------------------------------------
(* The three messages are read and written in the one wire format.         *)
LEMMA SameReading ==
  ASSUME NEW b
  PROVE  /\ Req!ReadFields(b) = ReadFields(b)
         /\ Res!ReadFields(b) = ReadFields(b)
         /\ Res!Record!ReadFields(b) = ReadFields(b)
<1>1. Req!ReadFields(b) = ReadFields(b)
  BY DEF ReadFields, ReadField, Behind, FieldAt, VARINT, FIXED32, FIXED64,
         LENGTH_DELIMITED, END_GROUP,
         Req!ReadFields, Req!ReadField, Req!Behind, Req!FieldAt, Req!VARINT, Req!FIXED32,
         Req!FIXED64, Req!LENGTH_DELIMITED, Req!END_GROUP
<1>2. Res!ReadFields(b) = ReadFields(b)
  BY DEF ReadFields, ReadField, Behind, FieldAt, VARINT, FIXED32, FIXED64,
         LENGTH_DELIMITED, END_GROUP,
         Res!ReadFields, Res!ReadField, Res!Behind, Res!FieldAt, Res!VARINT, Res!FIXED32,
         Res!FIXED64, Res!LENGTH_DELIMITED, Res!END_GROUP
<1>3. Res!Record!ReadFields(b) = ReadFields(b)
  BY DEF ReadFields, ReadField, Behind, FieldAt, VARINT, FIXED32, FIXED64,
         LENGTH_DELIMITED, END_GROUP,
         Res!Record!ReadFields, Res!Record!ReadField, Res!Record!Behind, Res!Record!FieldAt,
         Res!Record!VARINT, Res!Record!FIXED32, Res!Record!FIXED64,
         Res!Record!LENGTH_DELIMITED,
         Res!Record!END_GROUP
<1> QED
  BY <1>1, <1>2, <1>3

LEMMA SameWriting ==
  /\ \A parts : /\ Req!FlattenSeq(parts) = FlattenSeq(parts)
                /\ Res!FlattenSeq(parts) = FlattenSeq(parts)
                /\ Res!Record!FlattenSeq(parts) = FlattenSeq(parts)
  /\ \A number, text : /\ Req!WriteString(number, text) = WriteString(number, text)
                       /\ Res!WriteString(number, text) = WriteString(number, text)
                       /\ Res!Record!WriteString(number, text) = WriteString(number, text)
  /\ \A sizes : Req!Total(sizes) = Total(sizes) /\ Res!Total(sizes) = Total(sizes)
  /\ \A fields : /\ Req!SerializeUnknownFields(fields) = SerializeUnknownFields(fields)
                 /\ Res!SerializeUnknownFields(fields) = SerializeUnknownFields(fields)
                 /\ Res!Record!SerializeUnknownFields(fields) = SerializeUnknownFields(fields)
  /\ \A text : /\ Req!StringSize(text) = 1 + Len(text)
               /\ Res!StringSize(text) = 1 + Len(text)
               /\ Res!Record!StringSize(text) = 1 + Len(text)
<1>1. \A parts : /\ Req!FlattenSeq(parts) = FlattenSeq(parts)
                 /\ Res!FlattenSeq(parts) = FlattenSeq(parts)
                 /\ Res!Record!FlattenSeq(parts) = FlattenSeq(parts)
  BY DEF FlattenSeq, Req!FlattenSeq, Res!FlattenSeq, Res!Record!FlattenSeq
<1>2. \A number, text : /\ Req!WriteString(number, text) = WriteString(number, text)
                        /\ Res!WriteString(number, text) = WriteString(number, text)
                        /\ Res!Record!WriteString(number, text) = WriteString(number, text)
  BY DEF WriteString, Tag, LENGTH_DELIMITED, Req!WriteString, Req!Tag, Req!LENGTH_DELIMITED,
         Res!WriteString, Res!Tag, Res!LENGTH_DELIMITED, Res!Record!WriteString,
         Res!Record!Tag, Res!Record!LENGTH_DELIMITED
<1>3. \A sizes : Req!Total(sizes) = Total(sizes) /\ Res!Total(sizes) = Total(sizes)
  BY DEF Total, Req!Total, Res!Total
<1>4. \A fields : /\ Req!SerializeUnknownFields(fields) = SerializeUnknownFields(fields)
                  /\ Res!SerializeUnknownFields(fields) = SerializeUnknownFields(fields)
                  /\ Res!Record!SerializeUnknownFields(fields) = SerializeUnknownFields(fields)
  BY DEF SerializeUnknownFields, Req!SerializeUnknownFields, Res!SerializeUnknownFields,
         Res!Record!SerializeUnknownFields, FlattenSeq, Req!FlattenSeq, Res!FlattenSeq,
         Res!Record!FlattenSeq
<1>5. \A text : /\ Req!StringSize(text) = 1 + Len(text)
                /\ Res!StringSize(text) = 1 + Len(text)
                /\ Res!Record!StringSize(text) = 1 + Len(text)
  BY DEF Req!StringSize, Res!StringSize, Res!Record!StringSize
<1> QED
  BY <1>1, <1>2, <1>3, <1>4, <1>5

-----------------------------------------------------------------------------
(* String fields: a new one, and one that was cleared, read alike.         *)
StringFields ==
  {field \in [has : BOOLEAN, own : BOOLEAN, text : Bytes] : IsField(field)}

LEMMA StringFieldsAre ==
  ASSUME NEW field \in StringFields
  PROVE  /\ field = [has |-> field.has, own |-> field.own, text |-> field.text]
         /\ field.has \in BOOLEAN /\ field.own \in BOOLEAN /\ field.text \in Bytes
         /\ ~field.own => ~field.has /\ field.text = <<>>
         /\ ~field.has => field.text = <<>>
         /\ IsField(field)
BY DEF StringFields, IsField

LEMMA NewFields ==
  /\ Unset \in StringFields
  /\ \A text \in Bytes : set(text) \in StringFields
BY NoBytes DEF StringFields, IsField, Unset, set

LEMMA AccessedFields ==
  ASSUME NEW field \in StringFields, NEW texts \in SUBSET Bytes
  PROVE  Accessed(field, texts) \subseteq StringFields
<1>1. mutable(field) \in StringFields
  BY StringFieldsAre DEF StringFields, IsField, mutable
<1>2. cleared(field) \in StringFields
  BY StringFieldsAre, NoBytes DEF StringFields, IsField, cleared
<1>3. release(field) \in StringFields
  BY NewFields DEF release
<1>4. set_allocated(texts) \subseteq StringFields
  BY NewFields DEF set_allocated
<1> QED
  BY <1>1, <1>2, <1>3, <1>4, NewFields DEF Accessed

LEMMA ClearedFields ==
  ASSUME NEW field \in StringFields
  PROVE  Cleared(field) \in StringFields /\ Value(Cleared(field)) = Value(Unset)
<1>1. CASE field.has
  BY <1>1, StringFieldsAre, NoBytes DEF StringFields, IsField, Cleared, cleared, Value, Unset
<1>2. CASE ~field.has
  BY <1>2, StringFieldsAre DEF Cleared, Value, Unset
<1> QED
  BY <1>1, <1>2

LEMMA MergedFields ==
  ASSUME NEW field \in StringFields, NEW from \in StringFields
  PROVE  Merged(field, from) \in StringFields
BY StringFieldsAre, NewFields DEF Merged

LEMMA SameFieldsRequest ==
  /\ Req!Unset = Unset
  /\ \A text : Req!set(text) = set(text)
  /\ \A field, texts : Req!Accessed(field, texts) = Accessed(field, texts)
  /\ \A field : Req!Cleared(field) = Cleared(field) /\ Req!Value(field) = Value(field)
  /\ \A field : Req!IsField(field) = IsField(field)
  /\ \A field, from : Req!Merged(field, from) = Merged(field, from)
  /\ \A number, field : Req!WriteField(number, field) = WriteField(number, field)
  /\ \A field : Req!FieldSize(field) = FieldSize(field)
  /\ Req!LENGTH_DELIMITED = LENGTH_DELIMITED
<1>1. Req!Unset = Unset /\ \A text : Req!set(text) = set(text)
  BY DEF Unset, set, Req!Unset, Req!set
<1>2. \A field, texts : Req!Accessed(field, texts) = Accessed(field, texts)
  BY DEF Accessed, set_allocated, mutable, cleared, release, Unset, set, Req!Accessed,
         Req!set_allocated, Req!mutable, Req!cleared, Req!release, Req!Unset, Req!set
<1>3. \A field : /\ Req!Cleared(field) = Cleared(field) /\ Req!Value(field) = Value(field)
                 /\ Req!IsField(field) = IsField(field)
  BY DEF Cleared, cleared, Value, IsField, Req!Cleared, Req!cleared, Req!Value, Req!IsField
<1>4. \A field, from : Req!Merged(field, from) = Merged(field, from)
  BY DEF Merged, set, Req!Merged, Req!set
<1>5. \A number, field : Req!WriteField(number, field) = WriteField(number, field)
  BY SameWriting DEF WriteField, Req!WriteField
<1>6. \A field : Req!FieldSize(field) = FieldSize(field)
  BY DEF FieldSize, StringSize, Req!FieldSize, Req!StringSize
<1>7. Req!LENGTH_DELIMITED = LENGTH_DELIMITED
  BY DEF LENGTH_DELIMITED, Req!LENGTH_DELIMITED
<1> QED
  BY <1>1, <1>2, <1>3, <1>4, <1>5, <1>6, <1>7, Zenon

LEMMA SameFieldsResponse ==
  /\ Res!Unset = Unset
  /\ \A text : Res!set(text) = set(text)
  /\ \A field, texts : Res!Accessed(field, texts) = Accessed(field, texts)
  /\ \A field : Res!Cleared(field) = Cleared(field)
  /\ \A field : Res!IsField(field) = IsField(field)
  /\ \A field, from : Res!Merged(field, from) = Merged(field, from)
  /\ \A number, field : Res!WriteField(number, field) = WriteField(number, field)
  /\ \A field : Res!FieldSize(field) = FieldSize(field)
  /\ Res!LENGTH_DELIMITED = LENGTH_DELIMITED
<1>1. Res!Unset = Unset /\ \A text : Res!set(text) = set(text)
  BY DEF Unset, set, Res!Unset, Res!set
<1>2. \A field, texts : Res!Accessed(field, texts) = Accessed(field, texts)
  BY DEF Accessed, set_allocated, mutable, cleared, release, Unset, set, Res!Accessed,
         Res!set_allocated, Res!mutable, Res!cleared, Res!release, Res!Unset, Res!set
<1>3. \A field : Res!Cleared(field) = Cleared(field) /\ Res!IsField(field) = IsField(field)
  BY DEF Cleared, cleared, IsField, Res!Cleared, Res!cleared, Res!IsField
<1>4. \A field, from : Res!Merged(field, from) = Merged(field, from)
  BY DEF Merged, set, Res!Merged, Res!set
<1>5. \A number, field : Res!WriteField(number, field) = WriteField(number, field)
  BY SameWriting DEF WriteField, Res!WriteField
<1>6. \A field : Res!FieldSize(field) = FieldSize(field)
  BY DEF FieldSize, StringSize, Res!FieldSize, Res!StringSize
<1>7. Res!LENGTH_DELIMITED = LENGTH_DELIMITED
  BY DEF LENGTH_DELIMITED, Res!LENGTH_DELIMITED
<1> QED
  BY <1>1, <1>2, <1>3, <1>4, <1>5, <1>6, <1>7, Zenon

LEMMA SameFieldsRecord ==
  /\ Res!Record!Unset = Unset
  /\ \A text : Res!Record!set(text) = set(text)
  /\ \A field, texts : Res!Record!Accessed(field, texts) = Accessed(field, texts)
  /\ \A field : Res!Record!IsField(field) = IsField(field)
  /\ \A number, field : Res!Record!WriteField(number, field) = WriteField(number, field)
  /\ \A field : Res!Record!FieldSize(field) = FieldSize(field)
  /\ Res!Record!LENGTH_DELIMITED = LENGTH_DELIMITED
<1>1. Res!Record!Unset = Unset /\ \A text : Res!Record!set(text) = set(text)
  BY DEF Unset, set, Res!Record!Unset, Res!Record!set
<1>2. \A field, texts : Res!Record!Accessed(field, texts) = Accessed(field, texts)
  BY DEF Accessed, set_allocated, mutable, cleared, release, Unset, set, Res!Record!Accessed,
         Res!Record!set_allocated, Res!Record!mutable, Res!Record!cleared,
         Res!Record!release, Res!Record!Unset, Res!Record!set
<1>3. \A field : Res!Record!IsField(field) = IsField(field)
  BY DEF IsField, Res!Record!IsField
<1>5. \A number, field : Res!Record!WriteField(number, field) = WriteField(number, field)
  BY SameWriting DEF WriteField, Res!Record!WriteField
<1>6. \A field : Res!Record!FieldSize(field) = FieldSize(field)
  BY DEF FieldSize, StringSize, Res!Record!FieldSize, Res!Record!StringSize
<1>7. Res!Record!LENGTH_DELIMITED = LENGTH_DELIMITED
  BY DEF LENGTH_DELIMITED, Res!Record!LENGTH_DELIMITED
<1> QED
  BY <1>1, <1>2, <1>3, <1>5, <1>6, <1>7, Zenon

-----------------------------------------------------------------------------
(* QueryRequest.                                                           *)
Requests == [query : Seq(Bytes), timestamp : StringFields, unknown : Seq(AnyField)]

LEMMA RequestsAre ==
  ASSUME NEW msg \in Requests
  PROVE  /\ msg = [query |-> msg.query, timestamp |-> msg.timestamp, unknown |-> msg.unknown]
         /\ msg.query \in Seq(Bytes) /\ msg.timestamp \in StringFields
         /\ msg.unknown \in Seq(AnyField) /\ Req!IsRequest(msg)
BY StringFieldsAre, SameFieldsRequest DEF Requests, Req!IsRequest

LEMMA RequestOf ==
  ASSUME NEW query \in Seq(Bytes), NEW timestamp \in StringFields, NEW unknown \in Seq(AnyField)
  PROVE  [query |-> query, timestamp |-> timestamp, unknown |-> unknown] \in Requests
BY DEF Requests

LEMMA NewRequest == Req!New \in Requests /\ Req!New.unknown = <<>> /\ Req!New.query = <<>>
BY NewFields, SameFieldsRequest DEF Requests, Req!New

(* What one field does, by cases.                                          *)
LEMMA RequestTakeCases ==
  ASSUME NEW msg \in Requests, NEW field
  PROVE  /\ field.number = 1 /\ field.wire = LENGTH_DELIMITED =>
              Req!Take(msg, field) =
                [query |-> Append(msg.query, field.body), timestamp |-> msg.timestamp,
                 unknown |-> msg.unknown]
         /\ field.number = 2 /\ field.wire = LENGTH_DELIMITED =>
              Req!Take(msg, field) =
                [query |-> msg.query, timestamp |-> set(field.body), unknown |-> msg.unknown]
         /\ ~(field.number \in {1, 2} /\ field.wire = LENGTH_DELIMITED) =>
              Req!Take(msg, field) =
                [query |-> msg.query, timestamp |-> msg.timestamp,
                 unknown |-> Append(msg.unknown, field)]
<1>1. msg = [query |-> msg.query, timestamp |-> msg.timestamp, unknown |-> msg.unknown]
  BY RequestsAre
<1>2. Req!LENGTH_DELIMITED = LENGTH_DELIMITED /\ 1 # 2
  BY SameFieldsRequest
<1>3. /\ field.number = 1 /\ field.wire = LENGTH_DELIMITED =>
           Req!Take(msg, field) = Req!add_query(msg, field.body)
      /\ field.number = 2 /\ field.wire = LENGTH_DELIMITED =>
           Req!Take(msg, field) = Req!set_timestamp(msg, field.body)
      /\ ~(field.number \in {1, 2} /\ field.wire = LENGTH_DELIMITED) =>
           Req!Take(msg, field) = [msg EXCEPT !.unknown = Append(@, field)]
  BY <1>2, Zenon DEF Req!Take
<1>4. Req!add_query(msg, field.body) =
        [query |-> Append(msg.query, field.body), timestamp |-> msg.timestamp,
         unknown |-> msg.unknown]
  BY <1>1 DEF Req!add_query
<1>5. Req!set_timestamp(msg, field.body) =
        [query |-> msg.query, timestamp |-> set(field.body), unknown |-> msg.unknown]
  BY <1>1, SameFieldsRequest DEF Req!set_timestamp
<1>6. [msg EXCEPT !.unknown = Append(@, field)] =
        [query |-> msg.query, timestamp |-> msg.timestamp,
         unknown |-> Append(msg.unknown, field)]
  BY <1>1
<1> QED
  BY <1>3, <1>4, <1>5, <1>6, Zenon

LEMMA RequestTakes ==
  ASSUME NEW msg \in Requests, NEW field \in AnyField
  PROVE  Req!Take(msg, field) \in Requests
<1>1. /\ msg.query \in Seq(Bytes) /\ msg.timestamp \in StringFields
      /\ msg.unknown \in Seq(AnyField) /\ field.body \in Bytes
  BY RequestsAre DEF AnyField
<1>2. /\ Append(msg.query, field.body) \in Seq(Bytes) /\ set(field.body) \in StringFields
      /\ Append(msg.unknown, field) \in Seq(AnyField)
  BY <1>1, NewFields
<1>3. CASE field.number = 1 /\ field.wire = LENGTH_DELIMITED
  <2>1. Req!Take(msg, field) =
          [query |-> Append(msg.query, field.body), timestamp |-> msg.timestamp,
           unknown |-> msg.unknown]
    BY <1>3, RequestTakeCases, Zenon
  <2>2. [query |-> Append(msg.query, field.body), timestamp |-> msg.timestamp,
         unknown |-> msg.unknown] \in Requests
    BY <1>1, <1>2, RequestOf, Zenon
  <2> QED
    BY <2>1, <2>2, Zenon
<1>4. CASE field.number = 2 /\ field.wire = LENGTH_DELIMITED
  <2>1. Req!Take(msg, field) =
          [query |-> msg.query, timestamp |-> set(field.body),
           unknown |-> msg.unknown]
    BY <1>4, RequestTakeCases, Zenon
  <2>2. [query |-> msg.query, timestamp |-> set(field.body),
         unknown |-> msg.unknown] \in Requests
    BY <1>1, <1>2, RequestOf, Zenon
  <2> QED
    BY <2>1, <2>2, Zenon
<1>5. CASE ~(field.number \in {1, 2} /\ field.wire = LENGTH_DELIMITED)
  <2>1. Req!Take(msg, field) =
          [query |-> msg.query, timestamp |-> msg.timestamp,
           unknown |-> Append(msg.unknown, field)]
    BY <1>5, RequestTakeCases, Zenon
  <2>2. [query |-> msg.query, timestamp |-> msg.timestamp,
         unknown |-> Append(msg.unknown, field)] \in Requests
    BY <1>1, <1>2, RequestOf, Zenon
  <2> QED
    BY <2>1, <2>2, Zenon
<1> QED
  BY <1>3, <1>4, <1>5

(* The message after each of a number of fields.                           *)
RequestRun(g, msg, fields) ==
  /\ DOMAIN g = 0..Len(fields) /\ g[0] = msg
  /\ \A i \in 1..Len(fields) : g[i] = Req!Take(g[i - 1], fields[i])

LEMMA RequestRunIs ==
  ASSUME NEW msg, NEW fields \in Seq(AnyField), NEW g,
         g = [i \in 0..Len(fields) |-> g[i]], RequestRun(g, msg, fields)
  PROVE  Req!TakeAll(msg, fields) = g[Len(fields)]
<1> DEFINE n == Len(fields)
           Def(f) == f = [i \in 0..n |-> IF i = 0 THEN msg ELSE Req!Take(f[i - 1], fields[i])]
           after == CHOOSE f : Def(f)
           T == {i \in 0..n : after[i] = g[i]}
<1>0. n \in Nat /\ n \in 0..n /\ 0 \in 0..n
  OBVIOUS
<1>1. Req!TakeAll(msg, fields) = after[n]
  BY DEF Req!TakeAll
<1>2. /\ g = [i \in 0..n |-> g[i]] /\ g[0] = msg
      /\ \A i \in 1..n : g[i] = Req!Take(g[i - 1], fields[i])
  BY DEF RequestRun
<1> HIDE DEF n
<1>3. Def(g)
  <2>1. \A i \in 0..n : g[i] = IF i = 0 THEN msg ELSE Req!Take(g[i - 1], fields[i])
    <3> TAKE i \in 0..n
    <3>1. i # 0 => i \in 1..n
      BY <1>0
    <3> QED
      BY <1>2, <3>1
  <2>2. [i \in 0..n |-> g[i]] =
          [i \in 0..n |-> IF i = 0 THEN msg ELSE Req!Take(g[i - 1], fields[i])]
    BY <2>1, Zenon
  <2> QED
    BY <1>2, <2>2, Zenon
<1>4. Def(after)
  <2> HIDE DEF Def
  <2> QED
    BY <1>3, Zenon
<1> HIDE DEF after
<1>5. 0 \in T
  <2>1. after[0] = msg
    BY <1>0, <1>4
  <2> QED
    BY <1>0, <1>2, <2>1
<1>6. ASSUME NEW i \in 0..(n - 1), i \in T
      PROVE  i + 1 \in T
  <2> DEFINE j == i + 1
  <2>1. j \in 0..n /\ j \in 1..n /\ j # 0 /\ j - 1 = i
    BY <1>0
  <2>2. after[i] = g[i]
    BY <1>6
  <2> HIDE DEF j
  <2>3. after[j] = Req!Take(after[j - 1], fields[j])
    BY <1>4, <2>1
  <2>4. g[j] = Req!Take(g[j - 1], fields[j])
    BY <1>2, <2>1
  <2>5. after[j] = g[j]
    BY <2>1, <2>2, <2>3, <2>4, Zenon
  <2> QED
    BY <2>1, <2>5 DEF j
<1>7. n \in T
  <2> HIDE DEF T
  <2> QED
    BY <1>0, <1>5, <1>6, Induction
<1> QED
  BY <1>1, <1>7 DEF n

LEMMA RequestRuns ==
  ASSUME NEW msg \in Requests, NEW fields \in Seq(AnyField)
  PROVE  \E g \in [0..Len(fields) -> Requests] :
           RequestRun(g, msg, fields) /\ Req!TakeAll(msg, fields) = g[Len(fields)]
<1> DEFINE n == Len(fields)
           step == [i \in 1..n |-> [m \in Requests |-> Req!Take(m, fields[i])]]
<1>0. n \in Nat /\ \A i \in 1..n : fields[i] \in AnyField
  OBVIOUS
<1> HIDE DEF n
<1>1. PICK g : FollowsSteps(g, n, Requests, msg, step)
  <2>1. \A i \in 1..n : \A m \in Requests : Req!Take(m, fields[i]) \in Requests
    BY <1>0, RequestTakes
  <2>2. step \in [1..n -> [Requests -> Requests]]
    BY <2>1
  <2> HIDE DEF step
  <2> QED
    BY <1>0, <2>2, FunctionOfSteps
<1>2. /\ g \in [0..n -> Requests] /\ g[0] = msg
      /\ \A i \in 1..n : g[i] = step[i][g[i - 1]]
  BY <1>1 DEF FollowsSteps
<1>3. \A i \in 1..n : g[i] = Req!Take(g[i - 1], fields[i])
  <2> TAKE i \in 1..n
  <2>1. i - 1 \in 0..n
    BY <1>0
  <2>2. g[i - 1] \in Requests
    BY <1>2, <2>1
  <2> QED
    BY <1>2, <2>2
<1>4. RequestRun(g, msg, fields)
  BY <1>2, <1>3 DEF RequestRun, n
<1>5. g = [i \in 0..n |-> g[i]]
  BY <1>2
<1>6. Req!TakeAll(msg, fields) = g[Len(fields)]
  <2> HIDE DEF step
  <2> QED
    BY <1>4, <1>5, RequestRunIs DEF n
<1> QED
  BY <1>2, <1>4, <1>6 DEF n

LEMMA RequestTaken ==
  ASSUME NEW msg \in Requests, NEW fields \in Seq(AnyField)
  PROVE  Req!TakeAll(msg, fields) \in Requests
<1>1. PICK g \in [0..Len(fields) -> Requests] :
           RequestRun(g, msg, fields) /\ Req!TakeAll(msg, fields) = g[Len(fields)]
  BY RequestRuns
<1>2. Len(fields) \in 0..Len(fields)
  OBVIOUS
<1> QED
  BY <1>1, <1>2

(* What a request reads as after a merge depends on what the two read as.  *)
LEMMA RequestReads ==
  ASSUME NEW msg \in Requests
  PROVE  Req!Read(msg) =
           <<msg.query, [has |-> msg.timestamp.has, text |-> msg.timestamp.text], msg.unknown>>
BY SameFieldsRequest DEF Req!Read, Value

LEMMA RequestMerges ==
  ASSUME NEW msg \in Requests, NEW from \in Requests
  PROVE  /\ Req!MergeFrom(msg, from) \in Requests
         /\ Req!MergeFrom(msg, from).query = msg.query \o from.query
         /\ Req!MergeFrom(msg, from).timestamp = Merged(msg.timestamp, from.timestamp)
         /\ Req!MergeFrom(msg, from).unknown = msg.unknown \o from.unknown
<1>1. Req!MergeFrom(msg, from) =
        [query |-> msg.query \o from.query,
         timestamp |-> Merged(msg.timestamp, from.timestamp),
         unknown |-> msg.unknown \o from.unknown]
  BY SameFieldsRequest DEF Req!MergeFrom
<1>2. /\ msg.query \in Seq(Bytes) /\ from.query \in Seq(Bytes)
      /\ msg.unknown \in Seq(AnyField) /\ from.unknown \in Seq(AnyField)
      /\ Merged(msg.timestamp, from.timestamp) \in StringFields
  BY RequestsAre, MergedFields
<1>3. msg.query \o from.query \in Seq(Bytes) /\ msg.unknown \o from.unknown \in Seq(AnyField)
  BY <1>2
<1> DEFINE q == msg.query \o from.query
           t == Merged(msg.timestamp, from.timestamp)
           u == msg.unknown \o from.unknown
           m == Req!MergeFrom(msg, from)
<1>4. /\ m = [query |-> q, timestamp |-> t, unknown |-> u]
      /\ q \in Seq(Bytes) /\ t \in StringFields /\ u \in Seq(AnyField)
  BY <1>1, <1>2, <1>3
<1> HIDE DEF q, t, u, m
<1>5. m \in Requests
  BY <1>4, RequestOf
<1>6. m.query = q /\ m.timestamp = t /\ m.unknown = u
  BY <1>4
<1> QED
  BY <1>5, <1>6, Zenon DEF q, t, u, m

LEMMA MergedReads ==
  ASSUME NEW field \in StringFields, NEW from \in StringFields
  PROVE  /\ Merged(field, from).has = (field.has \/ from.has)
         /\ Merged(field, from).text = IF from.has THEN from.text ELSE field.text
BY StringFieldsAre DEF Merged, set

LEMMA MergesAlike ==
  ASSUME NEW m1 \in Requests, NEW m2 \in Requests, NEW f1 \in Requests, NEW f2 \in Requests,
         Req!Read(m1) = Req!Read(m2), Req!Read(f1) = Req!Read(f2)
  PROVE  Req!Read(Req!MergeFrom(m1, f1)) = Req!Read(Req!MergeFrom(m2, f2))
<1>1. /\ m1.query = m2.query /\ m1.unknown = m2.unknown
      /\ m1.timestamp.has = m2.timestamp.has /\ m1.timestamp.text = m2.timestamp.text
      /\ f1.query = f2.query /\ f1.unknown = f2.unknown
      /\ f1.timestamp.has = f2.timestamp.has /\ f1.timestamp.text = f2.timestamp.text
  BY RequestReads
<1>2. /\ m1.timestamp \in StringFields /\ m2.timestamp \in StringFields
      /\ f1.timestamp \in StringFields /\ f2.timestamp \in StringFields
  BY RequestsAre
<1> DEFINE t1 == Merged(m1.timestamp, f1.timestamp)
           t2 == Merged(m2.timestamp, f2.timestamp)
<1>3. t1.has = t2.has /\ t1.text = t2.text
  BY <1>1, <1>2, MergedReads
<1> HIDE DEF t1, t2
<1> DEFINE a1 == Req!MergeFrom(m1, f1)
           a2 == Req!MergeFrom(m2, f2)
<1>4. /\ a1 \in Requests /\ a1.query = m1.query \o f1.query
      /\ a1.unknown = m1.unknown \o f1.unknown /\ a1.timestamp = t1
  BY RequestMerges, Zenon DEF t1
<1>5. /\ a2 \in Requests /\ a2.query = m2.query \o f2.query
      /\ a2.unknown = m2.unknown \o f2.unknown /\ a2.timestamp = t2
  BY RequestMerges, Zenon DEF t2
<1> HIDE DEF a1, a2
<1>6. Req!Read(a1) = Req!Read(a2)
  BY <1>1, <1>3, <1>4, <1>5, RequestReads
<1> QED
  BY <1>6 DEF a1, a2

(* A field taken before a merge or after it.                               *)
LEMMA TakeMerges ==
  ASSUME NEW msg \in Requests, NEW x \in Requests, NEW y \in Requests, NEW field \in AnyField,
         Req!Read(x) = Req!Read(Req!MergeFrom(msg, y))
  PROVE  Req!Read(Req!Take(x, field)) = Req!Read(Req!MergeFrom(msg, Req!Take(y, field)))
<1> DEFINE ts == Merged(msg.timestamp, y.timestamp)
<1>0. /\ msg.query \in Seq(Bytes) /\ msg.unknown \in Seq(AnyField)
      /\ y.query \in Seq(Bytes) /\ y.unknown \in Seq(AnyField) /\ field.body \in Bytes
      /\ msg.timestamp \in StringFields /\ y.timestamp \in StringFields
  BY RequestsAre DEF AnyField
<1>1. /\ x.query = msg.query \o y.query /\ x.unknown = msg.unknown \o y.unknown
      /\ x.timestamp.has = ts.has /\ x.timestamp.text = ts.text
  <2> DEFINE m == Req!MergeFrom(msg, y)
  <2>1. /\ m \in Requests /\ m.query = msg.query \o y.query /\ m.timestamp = ts
        /\ m.unknown = msg.unknown \o y.unknown
    BY RequestMerges, Zenon
  <2>2. Req!Read(x) = Req!Read(m)
    OBVIOUS
  <2> HIDE DEF m, ts
  <2>3. /\ x.query = m.query /\ x.unknown = m.unknown
        /\ x.timestamp.has = m.timestamp.has /\ x.timestamp.text = m.timestamp.text
    <3>1. m \in Requests
      BY <2>1
    <3> QED
      BY <2>2, <3>1, RequestReads
  <2> QED
    BY <2>1, <2>3
<1>2. Req!Take(x, field) \in Requests /\ Req!Take(y, field) \in Requests
  BY RequestTakes
<1> DEFINE a == Req!Take(x, field)
           b == Req!Take(y, field)
           m == Req!MergeFrom(msg, b)
           tb == Merged(msg.timestamp, b.timestamp)
<1>3. /\ m \in Requests /\ m.query = msg.query \o b.query
      /\ m.unknown = msg.unknown \o b.unknown /\ m.timestamp = tb
  BY <1>2, RequestMerges, Zenon
<1> SUFFICES a.query = m.query /\ a.unknown = m.unknown
             /\ a.timestamp.has = m.timestamp.has /\ a.timestamp.text = m.timestamp.text
  <2> HIDE DEF a, m
  <2> QED
    BY <1>2, <1>3, RequestReads DEF a, m
<1>4. CASE field.number = 1 /\ field.wire = LENGTH_DELIMITED
  <2>1. /\ a.query = Append(x.query, field.body) /\ a.timestamp = x.timestamp
        /\ a.unknown = x.unknown
        /\ b.query = Append(y.query, field.body) /\ b.timestamp = y.timestamp
        /\ b.unknown = y.unknown
    BY <1>4, RequestTakeCases
  <2> DEFINE p == msg.query
             q == y.query
             e == field.body
  <2>2. p \in Seq(Bytes) /\ q \in Seq(Bytes) /\ e \in Bytes
    BY <1>0
  <2> HIDE DEF a, b, m, p, q, e
  <2>3. Append(p \o q, e) = p \o Append(q, e)
    BY <2>2
  <2>4. a.query = m.query
    BY <1>1, <1>3, <2>1, <2>3, Zenon DEF p, q, e
  <2> HIDE DEF ts, tb
  <2>5. tb = ts
    BY <2>1 DEF tb, ts
  <2> QED
    BY <1>1, <1>3, <2>1, <2>4, <2>5
<1>5. CASE field.number = 2 /\ field.wire = LENGTH_DELIMITED
  <2>1. /\ a.query = x.query /\ a.timestamp = set(field.body) /\ a.unknown = x.unknown
        /\ b.query = y.query /\ b.timestamp = set(field.body) /\ b.unknown = y.unknown
    BY <1>5, RequestTakeCases
  <2>2. tb.has = TRUE /\ tb.text = field.body
    BY <2>1 DEF Merged, set
  <2>3. set(field.body).has = TRUE /\ set(field.body).text = field.body
    BY DEF set
  <2> HIDE DEF a, b, m, tb, ts
  <2> QED
    BY <1>1, <1>3, <2>1, <2>2, <2>3
<1>6. CASE ~(field.number \in {1, 2} /\ field.wire = LENGTH_DELIMITED)
  <2>1. /\ a.query = x.query /\ a.timestamp = x.timestamp
        /\ a.unknown = Append(x.unknown, field)
        /\ b.query = y.query /\ b.timestamp = y.timestamp
        /\ b.unknown = Append(y.unknown, field)
    BY <1>6, RequestTakeCases
  <2> DEFINE p == msg.unknown
             q == y.unknown
  <2>2. p \in Seq(AnyField) /\ q \in Seq(AnyField)
    BY <1>0
  <2> HIDE DEF a, b, m, p, q
  <2>3. Append(p \o q, field) = p \o Append(q, field)
    BY <2>2
  <2>4. a.unknown = m.unknown
    BY <1>1, <1>3, <2>1, <2>3, Zenon DEF p, q
  <2> HIDE DEF ts, tb
  <2>5. tb = ts
    BY <2>1 DEF tb, ts
  <2> QED
    BY <1>1, <1>3, <2>1, <2>4, <2>5
<1> QED
  BY <1>4, <1>5, <1>6

(* To read fields into a message is to merge what they are read as.        *)
LEMMA TakingMerges ==
  ASSUME NEW msg \in Requests, NEW fields \in Seq(AnyField)
  PROVE  Req!Read(Req!TakeAll(msg, fields))
           = Req!Read(Req!MergeFrom(msg, Req!TakeAll(Req!New, fields)))
<1> DEFINE n == Len(fields)
<1>0. n \in Nat /\ n \in 0..n /\ \A i \in 1..n : fields[i] \in AnyField
  OBVIOUS
<1>1. PICK g \in [0..n -> Requests] :
           RequestRun(g, msg, fields) /\ Req!TakeAll(msg, fields) = g[n]
  BY RequestRuns
<1>2. PICK h \in [0..n -> Requests] :
           RequestRun(h, Req!New, fields) /\ Req!TakeAll(Req!New, fields) = h[n]
  BY NewRequest, RequestRuns
<1>3. /\ g[0] = msg /\ h[0] = Req!New
      /\ \A i \in 1..n : /\ g[i] = Req!Take(g[i - 1], fields[i])
                         /\ h[i] = Req!Take(h[i - 1], fields[i])
  BY <1>1, <1>2 DEF RequestRun
<1> HIDE DEF n
<1> DEFINE T == {i \in 0..n : Req!Read(g[i]) = Req!Read(Req!MergeFrom(msg, h[i]))}
<1>4. 0 \in T
  <2> DEFINE m == Req!MergeFrom(msg, Req!New)
  <2>1. Req!New.timestamp = Unset /\ ~Unset.has
    BY SameFieldsRequest DEF Req!New, Unset
  <2>2. /\ msg.query \in Seq(Bytes) /\ msg.unknown \in Seq(AnyField)
        /\ m.query = msg.query \o <<>> /\ m.unknown = msg.unknown \o <<>>
        /\ m.timestamp = msg.timestamp /\ m \in Requests
    <3>1. /\ m \in Requests /\ m.query = msg.query \o Req!New.query
          /\ m.timestamp = Merged(msg.timestamp, Req!New.timestamp)
          /\ m.unknown = msg.unknown \o Req!New.unknown
      BY NewRequest, RequestMerges, Zenon
    <3>2. Merged(msg.timestamp, Req!New.timestamp) = msg.timestamp
      BY <2>1 DEF Merged
    <3>3. msg.query \in Seq(Bytes) /\ msg.unknown \in Seq(AnyField)
      BY RequestsAre
    <3> QED
      BY <3>1, <3>2, <3>3, NewRequest, Zenon
  <2> HIDE DEF m
  <2>3. msg.query \o <<>> = msg.query /\ msg.unknown \o <<>> = msg.unknown
    BY <2>2
  <2>4. Req!Read(msg) = Req!Read(m)
    BY <2>2, <2>3, RequestReads
  <2>5. 0 \in 0..n
    BY <1>0
  <2> QED
    BY <1>3, <2>4, <2>5 DEF m
<1>5. ASSUME NEW i \in 0..(n - 1), i \in T
      PROVE  i + 1 \in T
  <2> DEFINE j == i + 1
  <2>1. j \in 0..n /\ j \in 1..n /\ j - 1 = i /\ i \in 0..n
    BY <1>0
  <2>2. Req!Read(g[i]) = Req!Read(Req!MergeFrom(msg, h[i]))
    BY <1>5
  <2> HIDE DEF j
  <2>3. g[i] \in Requests /\ h[i] \in Requests /\ fields[j] \in AnyField
    BY <1>0, <2>1
  <2>4. g[j] = Req!Take(g[i], fields[j]) /\ h[j] = Req!Take(h[i], fields[j])
    BY <1>3, <2>1
  <2>5. Req!Read(g[j]) = Req!Read(Req!MergeFrom(msg, h[j]))
    BY <2>2, <2>3, <2>4, TakeMerges
  <2> QED
    BY <2>1, <2>5 DEF j
<1>6. n \in T
  <2> HIDE DEF T
  <2> QED
    BY <1>0, <1>4, <1>5, Induction
<1> QED
  BY <1>1, <1>2, <1>6 DEF n

(* Fields one behind the other.                                            *)
LEMMA TakingJoined ==
  ASSUME NEW msg \in Requests, NEW f1 \in Seq(AnyField), NEW f2 \in Seq(AnyField)
  PROVE  Req!TakeAll(msg, f1 \o f2) = Req!TakeAll(Req!TakeAll(msg, f1), f2)
<1> DEFINE n == Len(f1)
           m == Len(f2)
           f == f1 \o f2
           mid == Req!TakeAll(msg, f1)
<1>0. /\ n \in Nat /\ n \in 0..n /\ m \in Nat /\ m \in 0..m
      /\ f \in Seq(AnyField) /\ Len(f) = n + m
      /\ \A i \in 1..n : f[i] = f1[i]
      /\ \A i \in 1..m : f[n + i] = f2[i]
  OBVIOUS
<1>1. PICK g \in [0..n -> Requests] : RequestRun(g, msg, f1) /\ mid = g[n]
  BY RequestRuns
<1>2. mid \in Requests
  BY RequestTaken
<1>3. PICK h \in [0..m -> Requests] : RequestRun(h, mid, f2) /\ Req!TakeAll(mid, f2) = h[m]
  BY <1>2, RequestRuns
<1>4. /\ g[0] = msg /\ \A i \in 1..n : g[i] = Req!Take(g[i - 1], f1[i])
      /\ h[0] = mid /\ \A i \in 1..m : h[i] = Req!Take(h[i - 1], f2[i])
  BY <1>1, <1>3 DEF RequestRun
<1> HIDE DEF n, m, f, mid
<1> DEFINE t == [i \in 0..(n + m) |-> IF i <= n THEN g[i] ELSE h[i - n]]
<1>5. \A i \in 0..n : t[i] = g[i]
  <2> TAKE i \in 0..n
  <2>1. i \in 0..(n + m) /\ i <= n
    BY <1>0
  <2> QED
    BY <2>1
<1>6. \A i \in 0..m : t[n + i] = h[i]
  <2> TAKE i \in 0..m
  <2>1. n + i \in 0..(n + m) /\ (n + i) - n = i /\ (n + i <= n <=> i = 0)
    BY <1>0
  <2>2. t[n + i] = IF i = 0 THEN g[n + i] ELSE h[i]
    BY <2>1
  <2>3. i = 0 => n + i = n
    BY <1>0
  <2> HIDE DEF t
  <2> QED
    BY <1>1, <1>4, <2>2, <2>3
<1>7. DOMAIN t = 0..(n + m) /\ t = [i \in 0..(n + m) |-> t[i]]
  OBVIOUS
<1> HIDE DEF t
<1>8. \A i \in 1..(n + m) : t[i] = Req!Take(t[i - 1], f[i])
  <2> TAKE i \in 1..(n + m)
  <2>1. CASE i <= n
    <3>1. i \in 1..n /\ i - 1 \in 0..n /\ i \in 0..n
      BY <1>0, <2>1
    <3>2. t[i] = g[i] /\ t[i - 1] = g[i - 1] /\ f[i] = f1[i]
      BY <1>0, <1>5, <3>1
    <3> QED
      BY <1>4, <3>1, <3>2
  <2>2. CASE i > n
    <3> DEFINE j == i - n
               k == j - 1
    <3>1. j \in 1..m /\ j \in 0..m /\ k \in 0..m /\ n + j = i /\ n + k = i - 1 /\ j - 1 = k
      BY <1>0, <2>2
    <3> HIDE DEF j, k
    <3>2. h[j] = Req!Take(h[k], f2[j])
      BY <1>4, <3>1
    <3>3. t[i] = h[j] /\ t[i - 1] = h[k] /\ f[i] = f2[j]
      BY <1>0, <1>6, <3>1
    <3> QED
      BY <3>2, <3>3
  <2> QED
    BY <1>0, <2>1, <2>2
<1>9. t[0] = msg
  <2>1. 0 \in 0..n
    BY <1>0
  <2> QED
    BY <1>4, <1>5, <2>1, Zenon
<1>10. RequestRun(t, msg, f) /\ t = [i \in 0..Len(f) |-> t[i]]
  BY <1>0, <1>7, <1>8, <1>9 DEF RequestRun
<1>11. Req!TakeAll(msg, f) = t[Len(f)]
  BY <1>0, <1>10, RequestRunIs
<1>12. t[n + m] = h[m]
  BY <1>0, <1>6
<1> QED
  BY <1>0, <1>3, <1>11, <1>12 DEF f, mid

(* A request is read as it was written.                                    *)
LEMMA UnknownAre ==
  /\ \A fields \in Seq(AnyField) : SerializeUnknownFields(fields) \in Bytes
  /\ SerializeUnknownFields(<<>>) = <<>>
<1>1. ASSUME NEW fields \in Seq(AnyField)
      PROVE  SerializeUnknownFields(fields) \in Bytes
  <2> DEFINE parts == [i \in DOMAIN fields |-> fields[i].bytes]
  <2>1. parts \in Seq(Bytes)
    <3>1. \A i \in 1..Len(fields) : fields[i].bytes \in Bytes
      <4> TAKE i \in 1..Len(fields)
      <4>1. fields[i] \in AnyField
        OBVIOUS
      <4> QED
        BY <4>1 DEF AnyField
    <3>2. DOMAIN fields = 1..Len(fields) /\ Len(fields) \in Nat
      OBVIOUS
    <3> QED
      BY <3>1, <3>2
  <2> HIDE DEF parts
  <2>2. PICK g \in [0..Len(parts) -> Bytes] : FlattenSeq(parts) = g[Len(parts)]
    BY <2>1, FlattenIs
  <2>3. Len(parts) \in 0..Len(parts)
    BY <2>1
  <2>4. FlattenSeq(parts) \in Bytes
    BY <2>2, <2>3
  <2> QED
    BY <2>4 DEF SerializeUnknownFields, parts
<1>2. SerializeUnknownFields(<<>>) = <<>>
  <2> DEFINE parts == [i \in DOMAIN <<>> |-> <<>>[i].bytes]
  <2>1. parts = <<>>
    OBVIOUS
  <2>2. Len(parts) = 0
    BY <2>1
  <2> HIDE DEF parts
  <2>3. FlattenSeq(parts) = <<>>
    BY <2>1, <2>2, Zenon DEF FlattenSeq
  <2> QED
    BY <2>3 DEF SerializeUnknownFields, parts
<1> QED
  BY <1>1, <1>2

LEMMA FieldIsRead ==
  ASSUME NEW number \in 1..15, NEW field \in StringFields
  PROVE  /\ WriteField(number, field) \in Bytes /\ Whole(WriteField(number, field))
         /\ ReadFields(WriteField(number, field)).fields =
              IF field.has THEN <<Written(number, field.text)>> ELSE <<>>
<1>1. field.text \in Bytes /\ field.has \in BOOLEAN
  BY StringFieldsAre
<1>2. CASE field.has
  <2>1. WriteField(number, field) = WriteString(number, field.text)
    BY <1>2 DEF WriteField
  <2> QED
    BY <1>1, <1>2, <2>1, WrittenIsRead
<1>3. CASE ~field.has
  <2>1. WriteField(number, field) = <<>>
    BY <1>3 DEF WriteField
  <2> QED
    BY <1>3, <2>1, NoBytes, NothingIsRead DEF Whole, Start
<1> QED
  BY <1>1, <1>2, <1>3

LEMMA RequestBytes ==
  ASSUME NEW msg \in Requests
  PROVE  /\ Req!SerializeWithCachedSizes(msg) =
              (FlattenSeq(Strings(1, msg.query)) \o WriteField(2, msg.timestamp))
                \o SerializeUnknownFields(msg.unknown)
         /\ Req!SerializeWithCachedSizes(msg) \in Bytes
<1> DEFINE parts == [i \in DOMAIN msg.query |-> Req!WriteString(1, msg.query[i])]
<1>1. parts = Strings(1, msg.query)
  BY SameWriting, Zenon DEF Strings
<1>2. Req!FlattenSeq(parts) = FlattenSeq(parts)
  BY SameWriting, Zenon
<1>3. /\ Req!WriteField(2, msg.timestamp) = WriteField(2, msg.timestamp)
      /\ Req!SerializeUnknownFields(msg.unknown) = SerializeUnknownFields(msg.unknown)
  BY SameFieldsRequest, SameWriting, Zenon
<1>4. Req!SerializeWithCachedSizes(msg) =
        (Req!FlattenSeq(parts) \o Req!WriteField(2, msg.timestamp))
          \o Req!SerializeUnknownFields(msg.unknown)
  BY DEF Req!SerializeWithCachedSizes
<1> DEFINE a == FlattenSeq(Strings(1, msg.query))
           b == WriteField(2, msg.timestamp)
           c == SerializeUnknownFields(msg.unknown)
<1>5. Req!SerializeWithCachedSizes(msg) = (a \o b) \o c
  <2> HIDE DEF parts
  <2> QED
    BY <1>1, <1>2, <1>3, <1>4, Zenon
<1>6. a \in Bytes /\ b \in Bytes /\ c \in Bytes
  <2>1. msg.query \in Seq(Bytes) /\ msg.timestamp \in StringFields
        /\ msg.unknown \in Seq(AnyField) /\ 1 \in 1..15 /\ 2 \in 1..15
    BY RequestsAre
  <2> QED
    BY <2>1, StringsAreRead, FieldIsRead, UnknownAre
<1> HIDE DEF a, b, c
<1>7. (a \o b) \o c \in Bytes
  BY <1>6, JoinedBytes
<1> QED
  BY <1>5, <1>7 DEF a, b, c

LEMMA TakeNone ==
  ASSUME NEW msg \in Requests
  PROVE  Req!TakeAll(msg, <<>>) = msg
<1> DEFINE g == [i \in 0..0 |-> msg]
<1>1. <<>> \in Seq(AnyField) /\ Len(<<>>) = 0 /\ g[0] = msg /\ g = [i \in 0..0 |-> g[i]]
  OBVIOUS
<1>2. RequestRun(g, msg, <<>>)
  BY <1>1 DEF RequestRun
<1> HIDE DEF g
<1> QED
  BY <1>1, <1>2, RequestRunIs

LEMMA TakeOne ==
  ASSUME NEW msg \in Requests, NEW field \in AnyField
  PROVE  Req!TakeAll(msg, <<field>>) = Req!Take(msg, field)
<1> DEFINE g == [i \in 0..1 |-> IF i = 0 THEN msg ELSE Req!Take(msg, field)]
           fields == <<field>>
<1>1. /\ fields \in Seq(AnyField) /\ Len(fields) = 1 /\ fields[1] = field
      /\ g[0] = msg /\ g[1] = Req!Take(msg, field)
      /\ DOMAIN g = 0..1 /\ g = [i \in 0..1 |-> g[i]] /\ 1..1 = {1} /\ 1 - 1 = 0
  OBVIOUS
<1> HIDE DEF g, fields
<1>2. RequestRun(g, msg, fields)
  BY <1>1 DEF RequestRun
<1>3. Req!TakeAll(msg, fields) = g[1]
  BY <1>1, <1>2, RequestRunIs
<1> QED
  BY <1>1, <1>3 DEF fields

LEMMA WrittenIs ==
  ASSUME NEW number \in 1..15, NEW text \in Bytes
  PROVE  /\ Written(number, text) \in AnyField
         /\ Written(number, text).number = number
         /\ Written(number, text).wire = LENGTH_DELIMITED
         /\ Written(number, text).body = text
<1>1. WriteString(number, text) \in Bytes
  BY WriteStringIs
<1> QED
  BY <1>1 DEF Written, AnyField, LENGTH_DELIMITED

LEMMA TakeQueries ==
  ASSUME NEW texts \in Seq(Bytes)
  PROVE  Req!TakeAll(Req!New, [i \in 1..Len(texts) |-> Written(1, texts[i])])
           = [query |-> texts, timestamp |-> Unset, unknown |-> <<>>]
<1> DEFINE n == Len(texts)
           fields == [i \in 1..n |-> Written(1, texts[i])]
           first(i) == [j \in 1..i |-> texts[j]]
           g == [i \in 0..n |-> [query |-> first(i), timestamp |-> Unset, unknown |-> <<>>]]
<1>1. n \in Nat /\ 0 \in 0..n /\ n \in 0..n /\ \A i \in 1..n : texts[i] \in Bytes
  OBVIOUS
<1>2. /\ fields \in Seq(AnyField) /\ Len(fields) = n
      /\ \A i \in 1..n : fields[i] = Written(1, texts[i])
  <2>1. \A i \in 1..n : Written(1, texts[i]) \in AnyField
    BY <1>1, WrittenIs
  <2> QED
    BY <1>1, <2>1
<1>3. \A i \in 0..n : first(i) \in Seq(Bytes)
  BY <1>1
<1>4. \A i \in 0..n : g[i] = [query |-> first(i), timestamp |-> Unset, unknown |-> <<>>]
  OBVIOUS
<1>5. DOMAIN g = 0..n /\ g = [i \in 0..n |-> g[i]]
  OBVIOUS
<1>6. first(0) = <<>> /\ first(n) = texts
  OBVIOUS
<1>7. \A i \in 1..n : first(i) = Append(first(i - 1), texts[i])
  OBVIOUS
<1> HIDE DEF n, fields, first, g
<1>8. g[0] = Req!New
  BY <1>1, <1>4, <1>6, SameFieldsRequest DEF Req!New
<1>9. \A i \in 1..n : g[i] = Req!Take(g[i - 1], fields[i])
  <2> TAKE i \in 1..n
  <2> DEFINE k == i - 1
  <2>1. k \in 0..n /\ i \in 0..n /\ texts[i] \in Bytes
    BY <1>1
  <2>2. first(i) = Append(first(k), texts[i])
    BY <1>7
  <2> HIDE DEF k
  <2>3. g[k] = [query |-> first(k), timestamp |-> Unset, unknown |-> <<>>]
        /\ g[i] = [query |-> first(i), timestamp |-> Unset, unknown |-> <<>>]
    BY <1>4, <2>1
  <2>4. g[k] \in Requests
    <3>1. first(k) \in Seq(Bytes) /\ <<>> \in Seq(AnyField)
      BY <1>3, <2>1
    <3>2. [query |-> first(k), timestamp |-> Unset, unknown |-> <<>>] \in Requests
      BY <3>1, NewFields, RequestOf
    <3> QED
      BY <2>3, <3>2
  <2>5. fields[i].number = 1 /\ fields[i].wire = LENGTH_DELIMITED /\ fields[i].body = texts[i]
    BY <1>2, <2>1, WrittenIs
  <2>6. Req!Take(g[k], fields[i]) =
          [query |-> Append(g[k].query, fields[i].body), timestamp |-> g[k].timestamp,
           unknown |-> g[k].unknown]
    BY <2>4, <2>5, RequestTakeCases, Zenon
  <2>7. g[k].query = first(k) /\ g[k].timestamp = Unset /\ g[k].unknown = <<>>
    BY <2>3
  <2>8. g[i] = Req!Take(g[k], fields[i])
    BY <2>2, <2>3, <2>5, <2>6, <2>7, Zenon
  <2> QED
    BY <2>8 DEF k
<1>10. RequestRun(g, Req!New, fields)
  BY <1>2, <1>5, <1>8, <1>9 DEF RequestRun
<1>11. Req!TakeAll(Req!New, fields) = g[n]
  BY <1>2, <1>5, <1>10, RequestRunIs
<1> QED
  BY <1>1, <1>4, <1>6, <1>11 DEF fields, n

LEMMA RequestIsRead ==
  ASSUME NEW msg \in Requests, msg.unknown = <<>>
  PROVE  /\ Whole(Req!SerializeWithCachedSizes(msg))
         /\ Req!Read(Req!TakeAll(Req!New,
                       ReadFields(Req!SerializeWithCachedSizes(msg)).fields)) = Req!Read(msg)
<1> DEFINE a == FlattenSeq(Strings(1, msg.query))
           b == WriteField(2, msg.timestamp)
           f1 == [i \in 1..Len(msg.query) |-> Written(1, msg.query[i])]
           f2 == IF msg.timestamp.has THEN <<Written(2, msg.timestamp.text)>> ELSE <<>>
           s == Req!SerializeWithCachedSizes(msg)
           x == [query |-> msg.query, timestamp |-> Unset, unknown |-> <<>>]
<1>0. /\ msg.query \in Seq(Bytes) /\ msg.timestamp \in StringFields
      /\ msg.timestamp.text \in Bytes /\ msg.timestamp.has \in BOOLEAN
      /\ 1 \in 1..15 /\ 2 \in 1..15 /\ <<>> \in Seq(AnyField)
  BY RequestsAre, StringFieldsAre
<1>1. a \in Bytes /\ Whole(a) /\ ReadFields(a).fields = f1
  BY <1>0, StringsAreRead
<1>2. b \in Bytes /\ Whole(b) /\ ReadFields(b).fields = f2
  BY <1>0, FieldIsRead
<1>3. s = (a \o b) \o <<>>
  BY RequestBytes, UnknownAre
<1>4. f1 \in Seq(AnyField)
  BY <1>1, WholeIs
<1>5. f2 \in Seq(AnyField)
  BY <1>2, WholeIs
<1>6. x \in Requests /\ x.query = msg.query /\ x.timestamp = Unset /\ x.unknown = <<>>
  <2>1. x \in Requests
    BY <1>0, NewFields, RequestOf
  <2> QED
    BY <2>1
<1>7. Req!TakeAll(Req!New, f1) = x
  BY <1>0, TakeQueries
<1> DEFINE y == Req!TakeAll(x, f2)
<1>8. Req!Read(y) = Req!Read(msg)
  <2>1. CASE msg.timestamp.has
    <3> DEFINE w == Written(2, msg.timestamp.text)
    <3>1. /\ w \in AnyField /\ w.number = 2 /\ w.wire = LENGTH_DELIMITED
          /\ w.body = msg.timestamp.text
      BY <1>0, WrittenIs
    <3> HIDE DEF w, x
    <3>2. f2 = <<w>>
      BY <2>1 DEF w
    <3>3. y = Req!Take(x, w)
      BY <1>6, <3>1, <3>2, TakeOne
    <3>4. Req!Take(x, w) = [query |-> x.query, timestamp |-> set(w.body),
                            unknown |-> x.unknown]
      BY <1>6, <3>1, RequestTakeCases, Zenon
    <3>5. y \in Requests
      BY <1>6, <3>1, <3>3, RequestTakes
    <3> HIDE DEF y, f2
    <3>6. y.query = msg.query /\ y.timestamp = set(msg.timestamp.text) /\ y.unknown = <<>>
      BY <1>6, <3>1, <3>3, <3>4
    <3>7. y.timestamp.has = TRUE /\ y.timestamp.text = msg.timestamp.text
      BY <3>6 DEF set
    <3> QED
      BY <1>0, <2>1, <3>5, <3>6, <3>7, RequestReads
  <2>2. CASE ~msg.timestamp.has
    <3>1. f2 = <<>>
      BY <2>2
    <3> HIDE DEF f2, x
    <3>2. y = x
      BY <1>6, <3>1, TakeNone
    <3>3. msg.timestamp.has = FALSE /\ msg.timestamp.text = <<>>
      BY <1>0, <2>2, StringFieldsAre
    <3>4. Unset.has = FALSE /\ Unset.text = <<>>
      BY DEF Unset
    <3> QED
      BY <1>6, <3>2, <3>3, <3>4, RequestReads
  <2> QED
    BY <1>0, <2>1, <2>2
<1> HIDE DEF a, b, f1, f2, x, y, s
<1>9. (a \o b) \o <<>> = a \o b
  BY <1>1, <1>2, JoinedThrice, NoBytes DEF Bytes
<1>10. Whole(s) /\ ReadFields(s).fields = f1 \o f2
  BY <1>1, <1>2, <1>3, <1>9, JoinedWhole
<1>11. Req!TakeAll(Req!New, f1 \o f2) = y
  BY <1>4, <1>5, <1>7, NewRequest, TakingJoined DEF y
<1> QED
  BY <1>8, <1>10, <1>11, Zenon DEF s

-----------------------------------------------------------------------------
(* Sizes.                                                                  *)
LEMMA TotalRun ==
  ASSUME NEW n \in Nat, NEW sizes, Len(sizes) = n,
         NEW t \in [0..n -> Nat], t[0] = 0,
         \A i \in 1..n : t[i] = t[i - 1] + sizes[i]
  PROVE  Total(sizes) = t[n]
<1> DEFINE Def(f) == f = [i \in 0..n |-> IF i = 0 THEN 0 ELSE f[i - 1] + sizes[i]]
           upTo == CHOOSE f : Def(f)
           T == {i \in 0..n : upTo[i] = t[i]}
<1>1. Total(sizes) = upTo[n]
  BY DEF Total
<1>2. Def(t)
  <2>1. \A i \in 0..n : t[i] = IF i = 0 THEN 0 ELSE t[i - 1] + sizes[i]
    <3> TAKE i \in 0..n
    <3>1. i # 0 => i \in 1..n
      OBVIOUS
    <3> QED
      BY <3>1
  <2>2. [i \in 0..n |-> t[i]] = [i \in 0..n |-> IF i = 0 THEN 0 ELSE t[i - 1] + sizes[i]]
    BY <2>1, Zenon
  <2>3. t = [i \in 0..n |-> t[i]]
    OBVIOUS
  <2> QED
    BY <2>2, <2>3, Zenon
<1>3. Def(upTo)
  <2> HIDE DEF Def
  <2> QED
    BY <1>2, Zenon
<1> HIDE DEF upTo
<1>4. 0 \in T
  <2>1. 0 \in 0..n
    OBVIOUS
  <2>2. upTo[0] = 0
    BY <1>3, <2>1
  <2> QED
    BY <2>1, <2>2
<1>5. ASSUME NEW i \in 0..(n - 1), i \in T
      PROVE  i + 1 \in T
  <2> DEFINE j == i + 1
  <2>1. j \in 0..n /\ j \in 1..n /\ j # 0 /\ j - 1 = i
    OBVIOUS
  <2>2. upTo[i] = t[i]
    BY <1>5
  <2> HIDE DEF j
  <2>3. upTo[j] = upTo[j - 1] + sizes[j]
    BY <1>3, <2>1
  <2>4. t[j] = t[j - 1] + sizes[j]
    BY <2>1
  <2>5. upTo[j] = t[j]
    BY <2>1, <2>2, <2>3, <2>4
  <2> QED
    BY <2>1, <2>5 DEF j
<1>6. n \in T
  <2>1. n \in 0..n
    OBVIOUS
  <2> HIDE DEF T
  <2> QED
    BY <1>4, <1>5, <2>1, Induction
<1> QED
  BY <1>1, <1>6

LEMMA FlattenSize ==
  ASSUME NEW parts \in Seq(Bytes), NEW sizes, Len(sizes) = Len(parts),
         \A i \in 1..Len(parts) : sizes[i] \in Nat /\ Len(parts[i]) = 1 + sizes[i]
  PROVE  /\ Len(FlattenSeq(parts)) = Len(parts) + Total(sizes)
         /\ FlattenSeq(parts) \in Bytes /\ Total(sizes) \in Nat
<1> DEFINE n == Len(parts)
<1>0. n \in Nat /\ n \in 0..n /\ 0 \in 0..n /\ \A i \in 1..n : parts[i] \in Bytes
  OBVIOUS
<1> HIDE DEF n
<1>1. PICK g \in [0..n -> Bytes] :
           /\ g[0] = <<>>
           /\ \A i \in 1..n : g[i] = g[i - 1] \o parts[i]
           /\ FlattenSeq(parts) = g[n]
  BY FlattenIs DEF n
<1>2. \A i \in 0..n : g[i] \in Bytes /\ Len(g[i]) \in Nat
  <2>1. \A i \in 0..n : g[i] \in Bytes
    OBVIOUS
  <2>2. \A b \in Bytes : Len(b) \in Nat
    BY DEF Bytes
  <2> QED
    BY <2>1, <2>2
<1>3. \A i \in 1..n : Len(g[i]) = Len(g[i - 1]) + 1 + sizes[i] /\ sizes[i] \in Nat
  <2> TAKE i \in 1..n
  <2>1. i - 1 \in 0..n /\ i \in 0..n
    BY <1>0
  <2>2. g[i - 1] \in Bytes /\ parts[i] \in Bytes /\ g[i] = g[i - 1] \o parts[i]
    BY <1>0, <1>1, <2>1
  <2>3. Len(g[i]) = Len(g[i - 1]) + Len(parts[i])
    BY <2>2, JoinedBytes
  <2>4. Len(parts[i]) = 1 + sizes[i] /\ sizes[i] \in Nat
    BY DEF n
  <2>5. Len(g[i - 1]) \in Nat
    BY <1>2, <2>1
  <2> QED
    BY <2>3, <2>4, <2>5
<1> DEFINE t == [i \in 0..n |-> Len(g[i]) - i]
<1>4. t = [i \in 0..n |-> t[i]]
  OBVIOUS
<1>5. \A i \in 0..n : t[i] = Len(g[i]) - i
  OBVIOUS
<1> HIDE DEF t
<1>6. t[0] = 0
  BY <1>0, <1>1, <1>5, NoBytes
<1>7. \A i \in 1..n : t[i] = t[i - 1] + sizes[i]
  <2> TAKE i \in 1..n
  <2> DEFINE k == i - 1
  <2>1. k \in 0..n /\ i \in 0..n /\ k \in Nat /\ i = k + 1
    BY <1>0
  <2>2. Len(g[i]) = Len(g[k]) + 1 + sizes[i] /\ sizes[i] \in Nat
    BY <1>3
  <2> HIDE DEF k
  <2>3. t[i] = Len(g[i]) - i /\ t[k] = Len(g[k]) - k /\ Len(g[k]) \in Nat
    BY <1>2, <1>5, <2>1
  <2> DEFINE x == Len(g[i])
             y == Len(g[k])
             z == sizes[i]
  <2> HIDE DEF x, y, z
  <2>4. /\ t[i] = x - i /\ t[k] = y - k /\ y \in Nat /\ z \in Nat /\ x = y + 1 + z
        /\ i = k + 1 /\ k \in Nat
    BY <2>1, <2>2, <2>3, Zenon DEF x, y, z
  <2>5. x - i = (y - k) + z
    BY <2>4
  <2>6. t[i] = t[k] + sizes[i]
    BY <2>4, <2>5, Zenon DEF z
  <2> QED
    BY <2>6 DEF k
<1>9. \A i \in 0..n : t[i] \in Nat
  <2>1. \A i \in 1..n : t[i - 1] \in Nat => t[i] \in Nat
    BY <1>3, <1>7
  <2> DEFINE S == Nat
  <2>2. t[0] \in S /\ \A i \in 1..n : t[i - 1] \in S => t[i] \in S
    BY <1>6, <2>1
  <2> HIDE DEF S
  <2>3. \A i \in 0..n : t[i] \in S
    BY <1>0, <2>2, StepsKeep
  <2> QED
    BY <2>3 DEF S
<1>8. Total(sizes) = t[n]
  <2>1. Len(sizes) = n
    BY DEF n
  <2>2. t \in [0..n -> Nat]
    BY <1>4, <1>9
  <2> QED
    BY <1>0, <1>6, <1>7, <2>1, <2>2, TotalRun
<1>10. Len(g[n]) = n + t[n]
  BY <1>0, <1>2, <1>5
<1> QED
  BY <1>0, <1>1, <1>2, <1>8, <1>9, <1>10 DEF n

LEMMA FieldSizeIs ==
  ASSUME NEW number \in 1..15, NEW field \in StringFields
  PROVE  /\ WriteField(number, field) \in Bytes
         /\ Len(WriteField(number, field)) = FieldSize(field) /\ FieldSize(field) \in Nat
<1>1. field.text \in Bytes /\ field.has \in BOOLEAN /\ Len(field.text) \in Nat
  BY StringFieldsAre DEF Bytes
<1>2. CASE field.has
  <2>1. WriteField(number, field) = WriteString(number, field.text)
    BY <1>2 DEF WriteField
  <2>2. /\ WriteString(number, field.text) \in Bytes
        /\ Len(WriteString(number, field.text)) = Len(field.text) + 2
    BY <1>1, WriteStringIs
  <2> QED
    BY <1>1, <1>2, <2>1, <2>2 DEF FieldSize, StringSize
<1>3. CASE ~field.has
  <2>1. WriteField(number, field) = <<>>
    BY <1>3 DEF WriteField
  <2> QED
    BY <1>3, <2>1, NoBytes DEF FieldSize
<1> QED
  BY <1>1, <1>2, <1>3

LEMMA RequestSize ==
  ASSUME NEW msg \in Requests
  PROVE  Req!ByteSize(msg) = Len(Req!SerializeWithCachedSizes(msg))
<1> DEFINE q == msg.query
           n == Len(q)
           sizes == [i \in DOMAIN q |-> Req!StringSize(q[i])]
           a == FlattenSeq(Strings(1, q))
           b == WriteField(2, msg.timestamp)
           c == SerializeUnknownFields(msg.unknown)
           parts == Strings(1, q)
<1>0. /\ q \in Seq(Bytes) /\ msg.timestamp \in StringFields /\ msg.unknown \in Seq(AnyField)
      /\ n \in Nat /\ 1 \in 1..15 /\ 2 \in 1..15 /\ DOMAIN q = 1..n
  BY RequestsAre
<1>1. /\ parts \in Seq(Bytes) /\ Len(parts) = n
      /\ \A i \in 1..n : q[i] \in Bytes /\ parts[i] = WriteString(1, q[i])
  BY <1>0, StringsAre
<1>2. Len(sizes) = n /\ \A i \in 1..n : sizes[i] = 1 + Len(q[i])
  <2>1. \A i \in 1..n : Req!StringSize(q[i]) = 1 + Len(q[i])
    BY SameWriting
  <2>2. sizes = [i \in 1..n |-> Req!StringSize(q[i])]
    BY <1>0
  <2> QED
    BY <1>0, <2>1, <2>2
<1> HIDE DEF parts, sizes, n
<1>3. \A i \in 1..n : sizes[i] \in Nat /\ Len(parts[i]) = 1 + sizes[i]
  <2> TAKE i \in 1..n
  <2>1. q[i] \in Bytes /\ parts[i] = WriteString(1, q[i]) /\ sizes[i] = 1 + Len(q[i])
    BY <1>1, <1>2
  <2>2. Len(q[i]) \in Nat
    BY <2>1 DEF Bytes
  <2>3. Len(parts[i]) = Len(q[i]) + 2
    BY <1>0, <2>1, WriteStringIs
  <2> QED
    BY <2>1, <2>2, <2>3
<1>4. /\ Len(FlattenSeq(parts)) = n + Total(sizes)
      /\ FlattenSeq(parts) \in Bytes /\ Total(sizes) \in Nat
  BY <1>1, <1>2, <1>3, FlattenSize
<1>5. a \in Bytes /\ Len(a) = n + Total(sizes)
  BY <1>4 DEF parts
<1>6. b \in Bytes /\ Len(b) = FieldSize(msg.timestamp) /\ FieldSize(msg.timestamp) \in Nat
  BY <1>0, FieldSizeIs
<1>7. c \in Bytes /\ Len(c) \in Nat
  BY <1>0, UnknownAre DEF Bytes
<1>8. Req!SerializeWithCachedSizes(msg) = (a \o b) \o c
  BY RequestBytes
<1>9. Req!ByteSize(msg) = FieldSize(msg.timestamp) + n + Total(sizes) + Len(c)
  <2>1. Req!ByteSize(msg) =
          Req!FieldSize(msg.timestamp) + Len(q) + Req!Total(sizes)
            + Len(Req!SerializeUnknownFields(msg.unknown))
    BY DEF Req!ByteSize, sizes
  <2> QED
    BY <2>1, SameFieldsRequest, SameWriting, Zenon DEF n
<1> HIDE DEF a, b, c
<1>10. a \o b \in Bytes /\ Len(a \o b) = Len(a) + Len(b)
  BY <1>5, <1>6, JoinedBytes
<1>11. Len((a \o b) \o c) = Len(a \o b) + Len(c)
  BY <1>7, <1>10, JoinedBytes
<1>12. Len((a \o b) \o c) = n + Total(sizes) + FieldSize(msg.timestamp) + Len(c)
  <2> DEFINE la == Len(a)
             lb == Len(b)
             lc == Len(c)
             lab == Len(a \o b)
             labc == Len((a \o b) \o c)
  <2> HIDE DEF la, lb, lc, lab, labc
  <2>1. la = n + Total(sizes) /\ lb = FieldSize(msg.timestamp) /\ lab = la + lb
        /\ labc = lab + lc
    BY <1>5, <1>6, <1>10, <1>11, Zenon DEF la, lb, lc, lab, labc
  <2>2. labc = n + Total(sizes) + FieldSize(msg.timestamp) + lc
    BY <2>1, Zenon
  <2> QED
    BY <2>2, Zenon DEF labc, lc
<1>13. FieldSize(msg.timestamp) + n + Total(sizes) + Len(c)
         = n + Total(sizes) + FieldSize(msg.timestamp) + Len(c)
  BY <1>0, <1>4, <1>6, <1>7
<1> QED
  BY <1>8, <1>9, <1>12, <1>13, Zenon

-----------------------------------------------------------------------------
(* QueryResponse::Record.                                                  *)
Records == [subject : StringFields, predicate : StringFields, object : StringFields,
            unknown : Seq(AnyField)]

ThreeTexts == Bytes \X Bytes \X Bytes

LEMMA RecordsAre ==
  ASSUME NEW record \in Records
  PROVE  /\ record = [subject |-> record.subject, predicate |-> record.predicate,
                      object |-> record.object, unknown |-> record.unknown]
         /\ record.subject \in StringFields /\ record.predicate \in StringFields
         /\ record.object \in StringFields /\ record.unknown \in Seq(AnyField)
BY DEF Records

LEMMA RecordOf ==
  ASSUME NEW s \in StringFields, NEW p \in StringFields, NEW o \in StringFields,
         NEW unknown \in Seq(AnyField)
  PROVE  [subject |-> s, predicate |-> p, object |-> o, unknown |-> unknown] \in Records
BY DEF Records

LEMMA RecordFields ==
  /\ Res!Record!Fields = <<"subject", "predicate", "object">>
  /\ DOMAIN Res!Record!Fields = 1..3
  /\ Res!Record!Fields[1] = "subject" /\ Res!Record!Fields[2] = "predicate"
  /\ Res!Record!Fields[3] = "object"
<1> DEFINE f == <<"subject", "predicate", "object">>
<1>1. Res!Record!Fields = f
  BY DEF Res!Record!Fields
<1>2. DOMAIN f = 1..3 /\ f[1] = "subject" /\ f[2] = "predicate" /\ f[3] = "object"
  OBVIOUS
<1> QED
  BY <1>1, <1>2

LEMMA NewRecord ==
  /\ Res!Record!New \in Records
  /\ Res!Record!New = [subject |-> Unset, predicate |-> Unset, object |-> Unset, unknown |-> <<>>]
<1>1. Res!Record!New = [subject |-> Unset, predicate |-> Unset, object |-> Unset, unknown |-> <<>>]
  BY SameFieldsRecord DEF Res!Record!New
<1>2. <<>> \in Seq(AnyField)
  OBVIOUS
<1> QED
  BY <1>1, <1>2, NewFields, RecordOf

LEMMA IsRecordIs ==
  ASSUME NEW record \in Records
  PROVE  Res!Record!IsRecord(record)
<1>1. /\ record.subject \in StringFields /\ record.predicate \in StringFields
      /\ record.object \in StringFields
  BY RecordsAre
<1>2. /\ Res!Record!IsField(record.subject) /\ Res!Record!IsField(record.predicate)
      /\ Res!Record!IsField(record.object)
  BY <1>1, StringFieldsAre, SameFieldsRecord
<1>3. ASSUME NEW i \in 1..3
      PROVE  Res!Record!IsField(record[Res!Record!Fields[i]])
  <2>1. i = 1 \/ i = 2 \/ i = 3
    OBVIOUS
  <2> QED
    BY <1>2, <2>1, RecordFields, Zenon
<1> QED
  BY <1>3, RecordFields, Zenon DEF Res!Record!IsRecord

(* A record of a row.                                                      *)
LEMMA RecordIs ==
  ASSUME NEW row \in ThreeTexts
  PROVE  /\ row[1] \in Bytes /\ row[2] \in Bytes /\ row[3] \in Bytes
         /\ Record(row) = [subject |-> set(row[1]), predicate |-> set(row[2]),
                           object |-> set(row[3]), unknown |-> <<>>]
         /\ Record(row) \in Records /\ Res!Record!IsInitialized(Record(row))
<1>1. row[1] \in Bytes /\ row[2] \in Bytes /\ row[3] \in Bytes
  BY DEF ThreeTexts
<1>2. Record(row) = [subject |-> set(row[1]), predicate |-> set(row[2]),
                     object |-> set(row[3]), unknown |-> <<>>]
  <2> DEFINE r1 == Res!Record!set_subject(Res!Record!New, row[1])
             r2 == Res!Record!set_predicate(r1, row[2])
             r3 == Res!Record!set_object(r2, row[3])
  <2>1. r1 = [subject |-> set(row[1]), predicate |-> Unset, object |-> Unset,
              unknown |-> <<>>]
    BY NewRecord, SameFieldsRecord DEF Res!Record!set_subject
  <2> HIDE DEF r1
  <2>2. r2 = [subject |-> set(row[1]), predicate |-> set(row[2]), object |-> Unset,
              unknown |-> <<>>]
    BY <2>1, SameFieldsRecord DEF Res!Record!set_predicate
  <2> HIDE DEF r2
  <2>3. r3 = [subject |-> set(row[1]), predicate |-> set(row[2]), object |-> set(row[3]),
              unknown |-> <<>>]
    BY <2>2, SameFieldsRecord DEF Res!Record!set_object
  <2>4. Record(row) = r3
    BY Zenon DEF Record, r1, r2
  <2> QED
    BY <2>3, <2>4, Zenon
<1>3. <<>> \in Seq(AnyField)
  OBVIOUS
<1>4. Record(row) \in Records
  BY <1>1, <1>2, <1>3, NewFields, RecordOf
<1>5. ASSUME NEW i \in 1..3
      PROVE  Record(row)[Res!Record!Fields[i]].has
  <2>1. i = 1 \/ i = 2 \/ i = 3
    OBVIOUS
  <2>2. Record(row).subject.has /\ Record(row).predicate.has /\ Record(row).object.has
    BY <1>2 DEF set
  <2> QED
    BY <2>1, <2>2, RecordFields, Zenon
<1>6. Res!Record!IsInitialized(Record(row))
  BY <1>5, RecordFields, Zenon DEF Res!Record!IsInitialized
<1> QED
  BY <1>1, <1>2, <1>4, <1>6

(* The bytes of a record.                                                  *)
LEMMA FlattenThree ==
  ASSUME NEW parts \in Seq(Bytes), Len(parts) = 3
  PROVE  FlattenSeq(parts) = (parts[1] \o parts[2]) \o parts[3]
<1>1. PICK g \in [0..3 -> Bytes] :
           /\ g[0] = <<>>
           /\ \A i \in 1..3 : g[i] = g[i - 1] \o parts[i]
           /\ FlattenSeq(parts) = g[3]
  BY FlattenIs
<1>2. 1 \in 1..3 /\ 2 \in 1..3 /\ 3 \in 1..3 /\ 1 - 1 = 0 /\ 2 - 1 = 1 /\ 3 - 1 = 2
  OBVIOUS
<1>3. g[1] = g[1 - 1] \o parts[1] /\ g[2] = g[2 - 1] \o parts[2] /\ g[3] = g[3 - 1] \o parts[3]
  BY <1>1, <1>2, Zenon
<1>4. g[1] = <<>> \o parts[1] /\ g[2] = g[1] \o parts[2] /\ g[3] = g[2] \o parts[3]
  BY <1>1, <1>2, <1>3, Zenon
<1>5. <<>> \o parts[1] = parts[1]
  <2>1. parts[1] \in Bytes
    OBVIOUS
  <2> QED
    BY <2>1 DEF Bytes
<1> QED
  BY <1>1, <1>4, <1>5, Zenon

LEMMA RecordBytes ==
  ASSUME NEW record \in Records
  PROVE  /\ Res!Record!SerializeWithCachedSizes(record) =
              ((WriteField(1, record.subject) \o WriteField(2, record.predicate))
                 \o WriteField(3, record.object)) \o SerializeUnknownFields(record.unknown)
         /\ Res!Record!SerializeWithCachedSizes(record) \in Bytes
         /\ Len(Res!Record!SerializeWithCachedSizes(record)) = Res!Record!ByteSize(record)
<1> DEFINE w1 == WriteField(1, record.subject)
           w2 == WriteField(2, record.predicate)
           w3 == WriteField(3, record.object)
           u == SerializeUnknownFields(record.unknown)
           parts == [i \in DOMAIN Res!Record!Fields |->
                       Res!Record!WriteField(i, record[Res!Record!Fields[i]])]
<1>0. /\ record.subject \in StringFields /\ record.predicate \in StringFields
      /\ record.object \in StringFields /\ record.unknown \in Seq(AnyField)
      /\ 1 \in 1..15 /\ 2 \in 1..15 /\ 3 \in 1..15
  BY RecordsAre
<1>1. /\ w1 \in Bytes /\ Len(w1) = FieldSize(record.subject)
      /\ w2 \in Bytes /\ Len(w2) = FieldSize(record.predicate)
      /\ w3 \in Bytes /\ Len(w3) = FieldSize(record.object)
      /\ FieldSize(record.subject) \in Nat /\ FieldSize(record.predicate) \in Nat
      /\ FieldSize(record.object) \in Nat
  BY <1>0, FieldSizeIs
<1>2. u \in Bytes
  BY <1>0, UnknownAre
<1>3. Res!Record!SerializeWithCachedSizes(record) =
        Res!Record!FlattenSeq(parts) \o Res!Record!SerializeUnknownFields(record.unknown)
  BY DEF Res!Record!SerializeWithCachedSizes
<1>4. Res!Record!ByteSize(record) =
        FieldSize(record.subject) + FieldSize(record.predicate) + FieldSize(record.object)
          + Len(u)
  BY SameFieldsRecord, SameWriting DEF Res!Record!ByteSize
<1>5. parts = [i \in 1..3 |-> Res!Record!WriteField(i, record[Res!Record!Fields[i]])]
  BY RecordFields, Zenon
<1>6. \A i, x : Res!Record!WriteField(i, x) = WriteField(i, x)
  BY SameFieldsRecord
<1> DEFINE f == Res!Record!Fields
<1>7. f[1] = "subject" /\ f[2] = "predicate" /\ f[3] = "object"
  BY RecordFields
<1> HIDE DEF f, parts
<1>8. 1 \in 1..3 /\ 2 \in 1..3 /\ 3 \in 1..3
  OBVIOUS
<1>9. DOMAIN parts = 1..3 /\ \A i \in 1..3 : parts[i] = WriteField(i, record[f[i]])
  BY <1>5, <1>6, Zenon DEF f
<1>10. parts[1] = w1 /\ parts[2] = w2 /\ parts[3] = w3
  <2>1. /\ parts[1] = WriteField(1, record[f[1]]) /\ parts[2] = WriteField(2, record[f[2]])
        /\ parts[3] = WriteField(3, record[f[3]])
    BY <1>8, <1>9, Zenon
  <2> QED
    BY <1>7, <2>1, Zenon
<1> HIDE DEF w1, w2, w3, u
<1>11. parts \in Seq(Bytes) /\ Len(parts) = 3
  <2>1. \A i \in 1..3 : parts[i] \in Bytes
    <3> TAKE i \in 1..3
    <3>1. i = 1 \/ i = 2 \/ i = 3
      OBVIOUS
    <3> QED
      BY <1>1, <1>10, <3>1
  <2>2. parts = [i \in 1..3 |-> parts[i]]
    BY <1>5
  <2> QED
    BY <2>1, <2>2
<1>12. FlattenSeq(parts) = (w1 \o w2) \o w3
  <2>1. FlattenSeq(parts) = (parts[1] \o parts[2]) \o parts[3]
    BY <1>11, FlattenThree
  <2> QED
    BY <1>10, <2>1, Zenon
<1>13. Res!Record!SerializeWithCachedSizes(record) = ((w1 \o w2) \o w3) \o u
  <2>1. Res!Record!FlattenSeq(parts) = FlattenSeq(parts)
        /\ Res!Record!SerializeUnknownFields(record.unknown) = u
    BY SameWriting, Zenon DEF u
  <2> QED
    BY <1>3, <1>12, <2>1, Zenon
<1> DEFINE x == w1 \o w2
           y == x \o w3
           z == y \o u
<1>14. x \in Bytes /\ Len(x) = Len(w1) + Len(w2)
  BY <1>1, JoinedBytes
<1> HIDE DEF x
<1>15. y \in Bytes /\ Len(y) = Len(x) + Len(w3)
  BY <1>1, <1>14, JoinedBytes
<1> HIDE DEF y
<1>16. z \in Bytes /\ Len(z) = Len(y) + Len(u) /\ Len(u) \in Nat
  BY <1>2, <1>15, JoinedBytes
<1> HIDE DEF z
<1>17. Len(z) = Res!Record!ByteSize(record)
  BY <1>1, <1>4, <1>14, <1>15, <1>16
<1> QED
  BY <1>13, <1>16, <1>17, Zenon DEF x, y, z, w1, w2, w3, u

(* A record is read as it was written.                                     *)
RecordRun(g, record, fields) ==
  /\ DOMAIN g = 0..Len(fields) /\ g[0] = record
  /\ \A i \in 1..Len(fields) : g[i] = Res!Record!Take(g[i - 1], fields[i])

LEMMA RecordRunIs ==
  ASSUME NEW record, NEW fields \in Seq(AnyField), NEW g,
         g = [i \in 0..Len(fields) |-> g[i]], RecordRun(g, record, fields)
  PROVE  Res!Record!TakeAll(record, fields) = g[Len(fields)]
<1> DEFINE n == Len(fields)
           Def(f) == f = [i \in 0..n |-> IF i = 0 THEN record
                                         ELSE Res!Record!Take(f[i - 1], fields[i])]
           after == CHOOSE f : Def(f)
           T == {i \in 0..n : after[i] = g[i]}
<1>0. n \in Nat /\ n \in 0..n /\ 0 \in 0..n
  OBVIOUS
<1>1. Res!Record!TakeAll(record, fields) = after[n]
  BY DEF Res!Record!TakeAll
<1>2. /\ g = [i \in 0..n |-> g[i]] /\ g[0] = record
      /\ \A i \in 1..n : g[i] = Res!Record!Take(g[i - 1], fields[i])
  BY DEF RecordRun
<1> HIDE DEF n
<1>3. Def(g)
  <2>1. \A i \in 0..n : g[i] = IF i = 0 THEN record ELSE Res!Record!Take(g[i - 1], fields[i])
    <3> TAKE i \in 0..n
    <3>1. i # 0 => i \in 1..n
      BY <1>0
    <3> QED
      BY <1>2, <3>1
  <2>2. [i \in 0..n |-> g[i]] =
          [i \in 0..n |-> IF i = 0 THEN record ELSE Res!Record!Take(g[i - 1], fields[i])]
    BY <2>1, Zenon
  <2> QED
    BY <1>2, <2>2, Zenon
<1>4. Def(after)
  <2> HIDE DEF Def
  <2> QED
    BY <1>3, Zenon
<1> HIDE DEF after
<1>5. 0 \in T
  <2>1. after[0] = record
    BY <1>0, <1>4
  <2> QED
    BY <1>0, <1>2, <2>1
<1>6. ASSUME NEW i \in 0..(n - 1), i \in T
      PROVE  i + 1 \in T
  <2> DEFINE j == i + 1
  <2>1. j \in 0..n /\ j \in 1..n /\ j # 0 /\ j - 1 = i
    BY <1>0
  <2>2. after[i] = g[i]
    BY <1>6
  <2> HIDE DEF j
  <2>3. after[j] = Res!Record!Take(after[j - 1], fields[j])
    BY <1>4, <2>1
  <2>4. g[j] = Res!Record!Take(g[j - 1], fields[j])
    BY <1>2, <2>1
  <2>5. after[j] = g[j]
    BY <2>1, <2>2, <2>3, <2>4, Zenon
  <2> QED
    BY <2>1, <2>5 DEF j
<1>7. n \in T
  <2> HIDE DEF T
  <2> QED
    BY <1>0, <1>5, <1>6, Induction
<1> QED
  BY <1>1, <1>7 DEF n

LEMMA ThreeJoined ==
  ASSUME NEW S, NEW a \in S, NEW b \in S, NEW c \in S
  PROVE  (<<a>> \o <<b>>) \o <<c>> = <<a, b, c>>
<1> DEFINE x == <<a>>
           y == <<b>>
           z == <<c>>
           l == <<a, b, c>>
           xy == x \o y
           xyz == xy \o z
<1>1. /\ x \in Seq(S) /\ Len(x) = 1 /\ x[1] = a
      /\ y \in Seq(S) /\ Len(y) = 1 /\ y[1] = b
      /\ z \in Seq(S) /\ Len(z) = 1 /\ z[1] = c
      /\ l \in Seq(S) /\ Len(l) = 3 /\ l[1] = a /\ l[2] = b /\ l[3] = c
  OBVIOUS
<1> HIDE DEF x, y, z, l
<1>2. /\ xy \in Seq(S) /\ Len(xy) = Len(x) + Len(y)
      /\ \A i \in 1..Len(x) : xy[i] = x[i]
      /\ \A i \in 1..Len(y) : xy[Len(x) + i] = y[i]
  <2>1. x \in Seq(S) /\ y \in Seq(S)
    BY <1>1
  <2> QED
    BY <2>1
<1> HIDE DEF xy
<1>3. Len(xy) = 2 /\ xy[1] = a /\ xy[2] = b
  BY <1>1, <1>2
<1>4. /\ xyz \in Seq(S) /\ Len(xyz) = Len(xy) + Len(z)
      /\ \A i \in 1..Len(xy) : xyz[i] = xy[i]
      /\ \A i \in 1..Len(z) : xyz[Len(xy) + i] = z[i]
  <2>1. xy \in Seq(S) /\ z \in Seq(S)
    BY <1>1, <1>2
  <2> QED
    BY <2>1
<1> HIDE DEF xyz
<1>5. Len(xyz) = 3 /\ xyz[1] = a /\ xyz[2] = b /\ xyz[3] = c
  BY <1>1, <1>3, <1>4
<1>6. \A i \in 1..3 : xyz[i] = l[i]
  <2> TAKE i \in 1..3
  <2>1. i = 1 \/ i = 2 \/ i = 3
    OBVIOUS
  <2> QED
    BY <1>1, <1>5, <2>1
<1>7. xyz = l
  BY <1>1, <1>4, <1>5, <1>6
<1> QED
  BY <1>7, Zenon DEF xyz, xy, x, y, z, l

LEMMA RecordIsRead ==
  ASSUME NEW row \in ThreeTexts
  PROVE  Res!Record!MergePartialFromCodedStream(Res!Record!New,
             Res!Record!SerializeWithCachedSizes(Record(row)))
           = [msg |-> Record(row), ok |-> TRUE, entire |-> TRUE]
<1> DEFINE s == row[1]
           p == row[2]
           o == row[3]
           bytes == Res!Record!SerializeWithCachedSizes(Record(row))
           f1 == Written(1, s)
           f2 == Written(2, p)
           f3 == Written(3, o)
           fields == <<f1, f2, f3>>
           r0 == [subject |-> Unset, predicate |-> Unset, object |-> Unset, unknown |-> <<>>]
           r1 == [subject |-> set(s), predicate |-> Unset, object |-> Unset, unknown |-> <<>>]
           r2 == [subject |-> set(s), predicate |-> set(p), object |-> Unset, unknown |-> <<>>]
           r3 == [subject |-> set(s), predicate |-> set(p), object |-> set(o), unknown |-> <<>>]
<1>0. s \in Bytes /\ p \in Bytes /\ o \in Bytes
      /\ 1 \in 1..15 /\ 2 \in 1..15 /\ 3 \in 1..15
  BY RecordIs
<1>1. Record(row) = r3 /\ r3 \in Records
  <2>1. Record(row) = r3 /\ Record(row) \in Records
    BY RecordIs
  <2> QED
    BY <2>1, Zenon
<1> DEFINE w1 == WriteString(1, s)
           w2 == WriteString(2, p)
           w3 == WriteString(3, o)
<1>2. bytes = (w1 \o w2) \o w3
  <2> DEFINE a == (WriteField(1, r3.subject) \o WriteField(2, r3.predicate))
                    \o WriteField(3, r3.object)
             u == SerializeUnknownFields(r3.unknown)
  <2>1. bytes = a \o u
    BY <1>1, RecordBytes, Zenon
  <2>2. a = (w1 \o w2) \o w3
    <3>1. /\ r3.subject = set(s) /\ r3.predicate = set(p) /\ r3.object = set(o)
      OBVIOUS
    <3>2. \A i, t : WriteField(i, set(t)) = WriteString(i, t)
      BY DEF WriteField, set
    <3> QED
      BY <3>1, <3>2, Zenon
  <2>3. u = <<>>
    <3>1. r3.unknown = <<>>
      OBVIOUS
    <3> QED
      BY <3>1, UnknownAre, Zenon
  <2>4. ((w1 \o w2) \o w3) \o <<>> = (w1 \o w2) \o w3
    <3>1. w1 \in Bytes /\ w2 \in Bytes /\ w3 \in Bytes
      BY <1>0, WriteStringIs
    <3> HIDE DEF w1, w2, w3
    <3>2. (w1 \o w2) \o w3 \in Bytes
      BY <3>1, JoinedBytes
    <3> QED
      BY <3>2 DEF Bytes
  <2> HIDE DEF bytes, a, u
  <2> QED
    BY <2>1, <2>2, <2>3, <2>4, Zenon
<1>3. /\ w1 \in Bytes /\ Whole(w1) /\ ReadFields(w1).fields = <<f1>>
      /\ w2 \in Bytes /\ Whole(w2) /\ ReadFields(w2).fields = <<f2>>
      /\ w3 \in Bytes /\ Whole(w3) /\ ReadFields(w3).fields = <<f3>>
  BY <1>0, WrittenIsRead
<1>4. /\ f1 \in AnyField /\ f1.number = 1 /\ f1.wire = LENGTH_DELIMITED /\ f1.body = s
      /\ f2 \in AnyField /\ f2.number = 2 /\ f2.wire = LENGTH_DELIMITED /\ f2.body = p
      /\ f3 \in AnyField /\ f3.number = 3 /\ f3.wire = LENGTH_DELIMITED /\ f3.body = o
  BY <1>0, WrittenIs
<1>5. /\ fields \in Seq(AnyField) /\ Len(fields) = 3
      /\ fields[1] = f1 /\ fields[2] = f2 /\ fields[3] = f3
  <2> HIDE DEF f1, f2, f3
  <2> QED
    BY <1>4
<1> DEFINE l1 == <<f1>>
           l2 == <<f2>>
           l3 == <<f3>>
<1>6. (l1 \o l2) \o l3 = fields
  <2>1. (<<f1>> \o <<f2>>) \o <<f3>> = <<f1, f2, f3>>
    <3>1. f1 \in AnyField /\ f2 \in AnyField /\ f3 \in AnyField
      BY <1>4
    <3> HIDE DEF f1, f2, f3
    <3> QED
      BY <3>1, ThreeJoined, Zenon
  <2> HIDE DEF f1, f2, f3
  <2> QED
    BY <2>1, Zenon
<1>l. /\ ReadFields(w1).fields = l1 /\ ReadFields(w2).fields = l2
      /\ ReadFields(w3).fields = l3
  BY <1>3
<1> HIDE DEF w1, w2, w3, f1, f2, f3, fields, s, p, o, l1, l2, l3
<1>7. Whole(bytes) /\ ReadFields(bytes).fields = fields /\ ReadFields(bytes).ok
  <2>1. /\ w1 \o w2 \in Bytes /\ Whole(w1 \o w2)
        /\ ReadFields(w1 \o w2).fields = l1 \o l2
    BY <1>3, <1>l, JoinedWhole, Zenon
  <2> DEFINE x == w1 \o w2
  <2> HIDE DEF x
  <2>2. /\ x \o w3 \in Bytes /\ Whole(x \o w3)
        /\ ReadFields(x \o w3).fields = ReadFields(x).fields \o l3
        /\ ReadFields(x \o w3).ok = ReadFields(w3).ok /\ ReadFields(w3).ok
    BY <1>3, <1>l, <2>1, JoinedWhole, WholeIs, Zenon DEF x
  <2> QED
    BY <1>2, <1>6, <2>1, <2>2, Zenon DEF x
<1>8. Res!Record!Take(r0, f1) = r1 /\ Res!Record!Take(r1, f2) = r2
      /\ Res!Record!Take(r2, f3) = r3
  <2>1. Res!Record!LENGTH_DELIMITED = LENGTH_DELIMITED /\ \A t : Res!Record!set(t) = set(t)
    BY SameFieldsRecord
  <2>2. 1 \in 1..3 /\ 2 \in 1..3 /\ 3 \in 1..3
    OBVIOUS
  <2>3. Res!Record!Take(r0, f1) = [r0 EXCEPT !["subject"] = set(s)]
    <3> HIDE DEF r0
    <3>1. Res!Record!Take(r0, f1) =
            [r0 EXCEPT ![Res!Record!Fields[f1.number]] = Res!Record!set(f1.body)]
      BY <1>4, <2>1, <2>2, RecordFields, Zenon DEF Res!Record!Take
    <3> QED
      BY <1>4, <2>1, <3>1, RecordFields
  <2>4. Res!Record!Take(r1, f2) = [r1 EXCEPT !["predicate"] = set(p)]
    <3> HIDE DEF r1
    <3>1. Res!Record!Take(r1, f2) =
            [r1 EXCEPT ![Res!Record!Fields[f2.number]] = Res!Record!set(f2.body)]
      BY <1>4, <2>1, <2>2, RecordFields, Zenon DEF Res!Record!Take
    <3> QED
      BY <1>4, <2>1, <3>1, RecordFields
  <2>5. Res!Record!Take(r2, f3) = [r2 EXCEPT !["object"] = set(o)]
    <3> HIDE DEF r2
    <3>1. Res!Record!Take(r2, f3) =
            [r2 EXCEPT ![Res!Record!Fields[f3.number]] = Res!Record!set(f3.body)]
      BY <1>4, <2>1, <2>2, RecordFields, Zenon DEF Res!Record!Take
    <3> QED
      BY <1>4, <2>1, <3>1, RecordFields
  <2> QED
    BY <2>3, <2>4, <2>5
<1> HIDE DEF r0, r1, r2, r3
<1> DEFINE g == [i \in 0..3 |-> IF i = 0 THEN r0 ELSE IF i = 1 THEN r1
                                ELSE IF i = 2 THEN r2 ELSE r3]
<1>9. /\ DOMAIN g = 0..3 /\ g = [i \in 0..3 |-> g[i]]
      /\ g[0] = r0 /\ g[1] = r1 /\ g[2] = r2 /\ g[3] = r3
  OBVIOUS
<1> HIDE DEF g
<1>10. RecordRun(g, r0, fields)
  <2>1. \A i \in 1..3 : g[i] = Res!Record!Take(g[i - 1], fields[i])
    <3> TAKE i \in 1..3
    <3>1. CASE i = 1
      BY <1>5, <1>8, <1>9, <3>1
    <3>2. CASE i = 2
      BY <1>5, <1>8, <1>9, <3>2
    <3>3. CASE i = 3
      BY <1>5, <1>8, <1>9, <3>3
    <3> QED
      BY <3>1, <3>2, <3>3
  <2> QED
    BY <1>5, <1>9, <2>1 DEF RecordRun
<1>11. Res!Record!TakeAll(r0, fields) = r3
  BY <1>5, <1>9, <1>10, RecordRunIs
<1>12. Res!Record!New = r0
  BY NewRecord DEF r0
<1>13. Res!Record!ReadFields(bytes) = ReadFields(bytes)
  BY SameReading
<1>14. Whole(bytes) = ReadFields(bytes).entire /\ ReadFields(bytes).entire = TRUE
       /\ ReadFields(bytes).ok = TRUE
  <2>1. ReadFields(bytes).entire \in BOOLEAN /\ ReadFields(bytes).ok \in BOOLEAN
    <3>1. bytes \in Bytes
      BY <1>1, RecordBytes
    <3> HIDE DEF bytes
    <3> QED
      BY <3>1, ReadIs DEF ReadStates
  <2> QED
    BY <1>7, <2>1 DEF Whole
<1> HIDE DEF bytes
<1>15. Res!Record!MergePartialFromCodedStream(Res!Record!New, bytes)
         = [msg |-> r3, ok |-> TRUE, entire |-> TRUE]
  BY <1>7, <1>11, <1>12, <1>13, <1>14 DEF Res!Record!MergePartialFromCodedStream
<1> QED
  BY <1>1, <1>15 DEF bytes

-----------------------------------------------------------------------------
(* QueryResponse.                                                          *)
Responses == [data : Seq(Records), timestamp : StringFields, unknown : Seq(AnyField)]

LEMMA ResponsesAre ==
  ASSUME NEW msg \in Responses
  PROVE  /\ msg = [data |-> msg.data, timestamp |-> msg.timestamp, unknown |-> msg.unknown]
         /\ msg.data \in Seq(Records) /\ msg.timestamp \in StringFields
         /\ msg.unknown \in Seq(AnyField) /\ Res!IsResponse(msg)
<1>1. /\ msg = [data |-> msg.data, timestamp |-> msg.timestamp, unknown |-> msg.unknown]
      /\ msg.data \in Seq(Records) /\ msg.timestamp \in StringFields
      /\ msg.unknown \in Seq(AnyField)
  BY DEF Responses
<1>2. Res!IsField(msg.timestamp)
  BY <1>1, StringFieldsAre, SameFieldsResponse
<1>3. \A i \in DOMAIN msg.data : msg.data[i] \in Records
  BY <1>1
<1>4. \A i \in DOMAIN msg.data : Res!Record!IsRecord(msg.data[i])
  BY <1>3, IsRecordIs
<1> QED
  BY <1>1, <1>2, <1>4 DEF Res!IsResponse

LEMMA ResponseOf ==
  ASSUME NEW data \in Seq(Records), NEW timestamp \in StringFields, NEW unknown \in Seq(AnyField)
  PROVE  [data |-> data, timestamp |-> timestamp, unknown |-> unknown] \in Responses
BY DEF Responses

LEMMA NewResponse ==
  /\ Res!New = [data |-> <<>>, timestamp |-> Unset, unknown |-> <<>>]
  /\ Res!New \in Responses
<1>1. Res!New = [data |-> <<>>, timestamp |-> Unset, unknown |-> <<>>]
  BY SameFieldsResponse DEF Res!New
<1>2. <<>> \in Seq(Records) /\ <<>> \in Seq(AnyField)
  OBVIOUS
<1> QED
  BY <1>1, <1>2, NewFields, ResponseOf

Bodies(data) == [i \in 1..Len(data) |-> Res!Record!SerializeWithCachedSizes(data[i])]

LEMMA BodiesAre ==
  ASSUME NEW data \in Seq(Records)
  PROVE  /\ Bodies(data) \in Seq(Bytes) /\ Len(Bodies(data)) = Len(data)
         /\ \A i \in 1..Len(data) :
              /\ data[i] \in Records
              /\ Bodies(data)[i] = Res!Record!SerializeWithCachedSizes(data[i])
<1>1. Len(data) \in Nat /\ \A i \in 1..Len(data) : data[i] \in Records
  OBVIOUS
<1>2. \A i \in 1..Len(data) : Res!Record!SerializeWithCachedSizes(data[i]) \in Bytes
  BY <1>1, RecordBytes
<1> QED
  BY <1>1, <1>2 DEF Bodies

LEMMA ResponseBytes ==
  ASSUME NEW msg \in Responses
  PROVE  Res!SerializeWithCachedSizes(msg) =
           (FlattenSeq(Strings(1, Bodies(msg.data))) \o WriteField(2, msg.timestamp))
             \o SerializeUnknownFields(msg.unknown)
<1> DEFINE d == msg.data
           parts == [i \in DOMAIN d |->
                       Res!WriteString(1, Res!Record!SerializeWithCachedSizes(d[i]))]
<1>0. d \in Seq(Records) /\ DOMAIN d = 1..Len(d) /\ Len(d) \in Nat
  BY ResponsesAre
<1>1. parts = Strings(1, Bodies(d))
  <2> DEFINE b == Bodies(d)
  <2>1. DOMAIN b = 1..Len(d)
    BY DEF Bodies
  <2>2. \A i \in 1..Len(d) : b[i] = Res!Record!SerializeWithCachedSizes(d[i])
    BY DEF Bodies
  <2>3. \A number, text : Res!WriteString(number, text) = WriteString(number, text)
    BY SameWriting
  <2>4. Strings(1, b) = [i \in 1..Len(d) |-> WriteString(1, b[i])]
    BY <2>1, Zenon DEF Strings
  <2>5. parts = [i \in 1..Len(d) |->
                   Res!WriteString(1, Res!Record!SerializeWithCachedSizes(d[i]))]
    BY <1>0, Zenon
  <2>6. \A i \in 1..Len(d) : Res!WriteString(1, Res!Record!SerializeWithCachedSizes(d[i]))
                               = WriteString(1, b[i])
    <3> HIDE DEF b, d
    <3> QED
      BY <2>2, <2>3, Zenon
  <2> HIDE DEF parts, b, d
  <2> QED
    BY <2>4, <2>5, <2>6, Zenon DEF b
<1>2. Res!FlattenSeq(parts) = FlattenSeq(parts)
  BY SameWriting, Zenon
<1>3. /\ Res!WriteField(2, msg.timestamp) = WriteField(2, msg.timestamp)
      /\ Res!SerializeUnknownFields(msg.unknown) = SerializeUnknownFields(msg.unknown)
  BY SameFieldsResponse, SameWriting, Zenon
<1>4. Res!SerializeWithCachedSizes(msg) =
        (Res!FlattenSeq(parts) \o Res!WriteField(2, msg.timestamp))
          \o Res!SerializeUnknownFields(msg.unknown)
  BY DEF Res!SerializeWithCachedSizes
<1> HIDE DEF parts
<1> QED
  BY <1>1, <1>2, <1>3, <1>4, Zenon

LEMMA ResponseSize ==
  ASSUME NEW msg \in Responses
  PROVE  Res!ByteSize(msg) = Len(Res!SerializeWithCachedSizes(msg))
<1> DEFINE d == msg.data
           q == Bodies(d)
           n == Len(d)
           sizes == [i \in DOMAIN d |-> 1 + Res!Record!ByteSize(d[i])]
           parts == Strings(1, q)
           a == FlattenSeq(parts)
           b == WriteField(2, msg.timestamp)
           c == SerializeUnknownFields(msg.unknown)
<1>0. /\ d \in Seq(Records) /\ msg.timestamp \in StringFields /\ msg.unknown \in Seq(AnyField)
      /\ n \in Nat /\ 1 \in 1..15 /\ 2 \in 1..15 /\ DOMAIN d = 1..n
  BY ResponsesAre
<1>1. /\ q \in Seq(Bytes) /\ Len(q) = n
      /\ \A i \in 1..n : d[i] \in Records /\ q[i] = Res!Record!SerializeWithCachedSizes(d[i])
  BY <1>0, BodiesAre
<1> HIDE DEF q
<1>2. /\ parts \in Seq(Bytes) /\ Len(parts) = n
      /\ \A i \in 1..n : q[i] \in Bytes /\ parts[i] = WriteString(1, q[i])
  <2>1. /\ parts \in Seq(Bytes) /\ Len(parts) = Len(q)
        /\ \A i \in 1..Len(q) : q[i] \in Bytes /\ parts[i] = WriteString(1, q[i])
    BY <1>0, <1>1, StringsAre
  <2> HIDE DEF parts, n
  <2> QED
    BY <1>1, <2>1
<1>3. Len(sizes) = n /\ \A i \in 1..n : sizes[i] = 1 + Res!Record!ByteSize(d[i])
  <2>1. sizes = [i \in 1..n |-> 1 + Res!Record!ByteSize(d[i])]
    BY <1>0
  <2> QED
    BY <1>0, <2>1
<1> HIDE DEF parts, sizes, n, d
<1>4. \A i \in 1..n : sizes[i] \in Nat /\ Len(parts[i]) = 1 + sizes[i]
  <2> TAKE i \in 1..n
  <2>1. q[i] \in Bytes /\ parts[i] = WriteString(1, q[i])
        /\ sizes[i] = 1 + Res!Record!ByteSize(d[i])
    BY <1>2, <1>3
  <2>2. Len(q[i]) \in Nat
    BY <2>1 DEF Bytes
  <2>3. Len(parts[i]) = Len(q[i]) + 2
    BY <1>0, <2>1, WriteStringIs
  <2>4. Len(q[i]) = Res!Record!ByteSize(d[i])
    BY <1>1, RecordBytes
  <2> QED
    BY <2>1, <2>2, <2>3, <2>4
<1>5. /\ Len(FlattenSeq(parts)) = n + Total(sizes)
      /\ FlattenSeq(parts) \in Bytes /\ Total(sizes) \in Nat
  BY <1>2, <1>3, <1>4, FlattenSize
<1>6. b \in Bytes /\ Len(b) = FieldSize(msg.timestamp) /\ FieldSize(msg.timestamp) \in Nat
  BY <1>0, FieldSizeIs
<1>7. c \in Bytes /\ Len(c) \in Nat
  BY <1>0, UnknownAre DEF Bytes
<1>8. Res!SerializeWithCachedSizes(msg) = (a \o b) \o c
  BY ResponseBytes, Zenon DEF parts, q, d
<1>9. Res!ByteSize(msg) = FieldSize(msg.timestamp) + n + Total(sizes) + Len(c)
  <2>1. Res!ByteSize(msg) =
          Res!FieldSize(msg.timestamp) + Len(msg.data) + Res!Total(sizes)
            + Len(Res!SerializeUnknownFields(msg.unknown))
    BY DEF Res!ByteSize, sizes, d
  <2> QED
    BY <2>1, SameFieldsResponse, SameWriting, Zenon DEF n, d
<1> HIDE DEF a, b, c
<1>10. a \o b \in Bytes /\ Len(a \o b) = Len(a) + Len(b)
  BY <1>5, <1>6, JoinedBytes DEF a
<1>11. Len((a \o b) \o c) = Len(a \o b) + Len(c)
  BY <1>7, <1>10, JoinedBytes
<1>12. Len((a \o b) \o c) = n + Total(sizes) + FieldSize(msg.timestamp) + Len(c)
  <2> DEFINE la == Len(a)
             lb == Len(b)
             lc == Len(c)
             lab == Len(a \o b)
             labc == Len((a \o b) \o c)
  <2> HIDE DEF la, lb, lc, lab, labc
  <2>1. la = n + Total(sizes) /\ lb = FieldSize(msg.timestamp) /\ lab = la + lb
        /\ labc = lab + lc
    BY <1>5, <1>6, <1>10, <1>11, Zenon DEF la, lb, lc, lab, labc, a
  <2>2. labc = n + Total(sizes) + FieldSize(msg.timestamp) + lc
    BY <2>1, Zenon
  <2> QED
    BY <2>2, Zenon DEF labc, lc
<1>13. FieldSize(msg.timestamp) + n + Total(sizes) + Len(c)
         = n + Total(sizes) + FieldSize(msg.timestamp) + Len(c)
  BY <1>0, <1>5, <1>6, <1>7
<1> QED
  BY <1>8, <1>9, <1>12, <1>13, Zenon

(* The reply to a request whose statements gave these rows.                *)
Answer(result, time) ==
  [data |-> [i \in 1..Len(result) |-> Record(result[i])], timestamp |-> set(time),
   unknown |-> <<>>]

RowBytes(result) ==
  FlattenSeq(Strings(1, Bodies([i \in 1..Len(result) |-> Record(result[i])])))

LEMMA RecordsOfRows ==
  ASSUME NEW result \in Seq(ThreeTexts)
  PROVE  /\ [i \in 1..Len(result) |-> Record(result[i])] \in Seq(Records)
         /\ Len([i \in 1..Len(result) |-> Record(result[i])]) = Len(result)
         /\ \A i \in 1..Len(result) :
              result[i] \in ThreeTexts /\ Record(result[i]) \in Records
<1>1. Len(result) \in Nat /\ \A i \in 1..Len(result) : result[i] \in ThreeTexts
  OBVIOUS
<1>2. \A i \in 1..Len(result) : Record(result[i]) \in Records
  BY <1>1, RecordIs
<1> QED
  BY <1>1, <1>2

LEMMA AnswerIs ==
  ASSUME NEW result \in Seq(ThreeTexts), NEW time \in Bytes
  PROVE  Answer(result, time) \in Responses
<1>1. <<>> \in Seq(AnyField)
  OBVIOUS
<1> QED
  BY <1>1, RecordsOfRows, NewFields, ResponseOf DEF Answer

LEMMA ResponseIs ==
  ASSUME NEW result \in Seq(ThreeTexts), NEW time \in Bytes
  PROVE  Response(result, time) = Answer(result, time)
<1> DEFINE n == Len(result)
           first(i) == [j \in 1..i |-> Record(result[j])]
           state(i) == [data |-> first(i), timestamp |-> set(time), unknown |-> <<>>]
           Def(f) == f = [i \in 0..n |-> IF i = 0 THEN Res!set_timestamp(Res!New, time)
                                         ELSE Res!add_data(f[i - 1], Record(result[i]))]
           resp == CHOOSE f : Def(f)
           g == [i \in 0..n |-> state(i)]
           T == {i \in 0..n : resp[i] = state(i)}
<1>0. n \in Nat /\ n \in 0..n /\ 0 \in 0..n
  OBVIOUS
<1>1. Response(result, time) = resp[n]
  BY DEF Response
<1>2. \A i \in 0..n : first(i) \in Seq(Records)
  <2>1. \A i \in 1..n : Record(result[i]) \in Records
    BY RecordsOfRows
  <2> QED
    BY <1>0, <2>1
<1>3. \A i \in 1..n : first(i) = Append(first(i - 1), Record(result[i]))
  <2> DEFINE rec(i) == Record(result[i])
  <2> HIDE DEF rec
  <2>1. \A i \in 1..n : [j \in 1..i |-> rec(j)] = Append([j \in 1..(i - 1) |-> rec(j)], rec(i))
    OBVIOUS
  <2> QED
    BY <2>1 DEF rec
<1>4. first(0) = <<>>
  OBVIOUS
<1>5. Answer(result, time) = state(n)
  BY DEF Answer
<1> HIDE DEF n, first
<1>6. Res!set_timestamp(Res!New, time) = state(0)
  BY <1>4, NewResponse, SameFieldsResponse DEF Res!set_timestamp
<1>7. \A i \in 1..n : Res!add_data(state(i - 1), Record(result[i])) = state(i)
  <2> TAKE i \in 1..n
  <2> DEFINE p == first(i - 1)
             x == Record(result[i])
  <2>1. state(i) = [data |-> Append(p, x), timestamp |-> set(time), unknown |-> <<>>]
    BY <1>3
  <2>2. state(i - 1) = [data |-> p, timestamp |-> set(time), unknown |-> <<>>]
    OBVIOUS
  <2> HIDE DEF p, x, state
  <2>3. Res!add_data(state(i - 1), x) = state(i)
    BY <2>1, <2>2 DEF Res!add_data
  <2> QED
    BY <2>3 DEF x
<1> HIDE DEF state
<1>8. Def(g)
  <2>1. \A i \in 0..n : g[i] = IF i = 0 THEN Res!set_timestamp(Res!New, time)
                               ELSE Res!add_data(g[i - 1], Record(result[i]))
    <3> TAKE i \in 0..n
    <3>1. g[i] = state(i)
      OBVIOUS
    <3>2. CASE i = 0
      BY <1>6, <3>1, <3>2
    <3>3. CASE i # 0
      <4>1. i - 1 \in 0..n /\ i \in 1..n
        BY <1>0, <3>3
      <4>2. g[i - 1] = state(i - 1)
        BY <4>1
      <4> HIDE DEF g
      <4> QED
        BY <1>7, <3>1, <3>3, <4>1, <4>2
    <3> QED
      BY <3>2, <3>3
  <2>2. [i \in 0..n |-> g[i]] =
          [i \in 0..n |-> IF i = 0 THEN Res!set_timestamp(Res!New, time)
                          ELSE Res!add_data(g[i - 1], Record(result[i]))]
    <3> HIDE DEF g
    <3> QED
      BY <2>1, Zenon
  <2>3. g = [i \in 0..n |-> g[i]]
    OBVIOUS
  <2> HIDE DEF g
  <2> QED
    BY <2>2, <2>3, Zenon
<1>9. Def(resp)
  <2> HIDE DEF Def, g
  <2> QED
    BY <1>8, Zenon
<1> HIDE DEF resp, g
<1>10. 0 \in T
  <2>1. resp[0] = Res!set_timestamp(Res!New, time)
    BY <1>0, <1>9
  <2> QED
    BY <1>0, <1>6, <2>1
<1>11. ASSUME NEW i \in 0..(n - 1), i \in T
       PROVE  i + 1 \in T
  <2> DEFINE j == i + 1
  <2>1. j \in 0..n /\ j \in 1..n /\ j # 0 /\ j - 1 = i
    BY <1>0
  <2>2. resp[i] = state(i)
    BY <1>11
  <2> HIDE DEF j
  <2>3. resp[j] = Res!add_data(resp[j - 1], Record(result[j]))
    BY <1>9, <2>1
  <2>4. Res!add_data(state(j - 1), Record(result[j])) = state(j)
    BY <1>7, <2>1
  <2>5. resp[j] = state(j)
    BY <2>1, <2>2, <2>3, <2>4, Zenon
  <2> QED
    BY <2>1, <2>5 DEF j
<1>12. n \in T
  <2> HIDE DEF T
  <2> QED
    BY <1>0, <1>10, <1>11, Induction
<1> QED
  BY <1>1, <1>5, <1>12 DEF n

LEMMA RowBytesAre ==
  ASSUME NEW result \in Seq(ThreeTexts)
  PROVE  /\ RowBytes(result) \in Bytes /\ Whole(RowBytes(result))
         /\ ReadFields(RowBytes(result)).fields =
              [i \in 1..Len(result) |->
                 Written(1, Res!Record!SerializeWithCachedSizes(Record(result[i])))]
<1> DEFINE d == [i \in 1..Len(result) |-> Record(result[i])]
           b == Bodies(d)
           n == Len(result)
<1>1. d \in Seq(Records) /\ Len(d) = n /\ n \in Nat
  BY RecordsOfRows
<1>2. \A i \in 1..n : d[i] = Record(result[i])
  OBVIOUS
<1> HIDE DEF d, n
<1>3. /\ b \in Seq(Bytes) /\ Len(b) = n
      /\ \A i \in 1..n : b[i] = Res!Record!SerializeWithCachedSizes(d[i])
  BY <1>1, BodiesAre
<1> HIDE DEF b
<1>4. /\ FlattenSeq(Strings(1, b)) \in Bytes /\ Whole(FlattenSeq(Strings(1, b)))
      /\ ReadFields(FlattenSeq(Strings(1, b))).fields = [i \in 1..Len(b) |-> Written(1, b[i])]
  <2>1. 1 \in 1..15
    OBVIOUS
  <2> QED
    BY <1>3, <2>1, StringsAreRead
<1>5. [i \in 1..Len(b) |-> Written(1, b[i])] =
        [i \in 1..n |-> Written(1, Res!Record!SerializeWithCachedSizes(Record(result[i])))]
  BY <1>2, <1>3, Zenon
<1>6. RowBytes(result) = FlattenSeq(Strings(1, b))
  BY DEF RowBytes, b, d
<1> QED
  BY <1>4, <1>5, <1>6, Zenon DEF n

LEMMA ReplyBytes ==
  ASSUME NEW result \in Seq(ThreeTexts), NEW time \in Bytes
  PROVE  /\ Res!SerializeWithCachedSizes(Response(result, time)) =
              RowBytes(result) \o WriteString(2, time)
         /\ RowBytes(result) \o WriteString(2, time) \in Bytes
<1> DEFINE msg == Answer(result, time)
           a == RowBytes(result)
           w == WriteString(2, time)
<1>1. msg \in Responses
  BY AnswerIs
<1>2. Res!SerializeWithCachedSizes(msg) =
        (FlattenSeq(Strings(1, Bodies(msg.data))) \o WriteField(2, msg.timestamp))
          \o SerializeUnknownFields(msg.unknown)
  BY <1>1, ResponseBytes
<1>3. FlattenSeq(Strings(1, Bodies(msg.data))) = a
  BY DEF Answer, RowBytes
<1>4. WriteField(2, msg.timestamp) = w
  BY DEF Answer, WriteField, set
<1>5. SerializeUnknownFields(msg.unknown) = <<>>
  <2>1. msg.unknown = <<>>
    BY DEF Answer
  <2> HIDE DEF msg
  <2> QED
    BY <2>1, UnknownAre
<1>6. a \in Bytes /\ w \in Bytes
  <2>1. 2 \in 1..15
    OBVIOUS
  <2> QED
    BY <2>1, RowBytesAre, WriteStringIs
<1> HIDE DEF msg, a, w
<1>7. a \o w \in Bytes
  BY <1>6, JoinedBytes
<1>8. (a \o w) \o <<>> = a \o w
  BY <1>7 DEF Bytes
<1>9. Res!SerializeWithCachedSizes(msg) = a \o w
  BY <1>2, <1>3, <1>4, <1>5, <1>8, Zenon
<1>10. Response(result, time) = msg
  BY ResponseIs DEF msg
<1> QED
  BY <1>7, <1>9, <1>10, Zenon DEF a, w

(* What one field does to a response, by cases.                            *)
LEMMA ResponseTakeCases ==
  ASSUME NEW data, NEW timestamp, NEW unknown, NEW field
  PROVE  /\ field.number = 1 /\ field.wire = LENGTH_DELIMITED =>
              Res!Take([msg |-> [data |-> data, timestamp |-> timestamp, unknown |-> unknown],
                        ok |-> TRUE], field)
                = Res!TakeRecord([msg |-> [data |-> data, timestamp |-> timestamp,
                                           unknown |-> unknown], ok |-> TRUE], field.body)
         /\ field.number = 2 /\ field.wire = LENGTH_DELIMITED =>
              Res!Take([msg |-> [data |-> data, timestamp |-> timestamp, unknown |-> unknown],
                        ok |-> TRUE], field)
                = [msg |-> [data |-> data, timestamp |-> set(field.body), unknown |-> unknown],
                   ok |-> TRUE]
<1> DEFINE msg == [data |-> data, timestamp |-> timestamp, unknown |-> unknown]
           read == [msg |-> msg, ok |-> TRUE]
<1>1. Res!LENGTH_DELIMITED = LENGTH_DELIMITED /\ 1 # 2 /\ read.ok = TRUE
  BY SameFieldsResponse
<1> HIDE DEF read
<1>2. /\ field.number = 1 /\ field.wire = LENGTH_DELIMITED =>
           Res!Take(read, field) = Res!TakeRecord(read, field.body)
      /\ field.number = 2 /\ field.wire = LENGTH_DELIMITED =>
           Res!Take(read, field) = [read EXCEPT !.msg = Res!set_timestamp(@, field.body)]
  BY <1>1, Zenon DEF Res!Take
<1>3. [read EXCEPT !.msg = Res!set_timestamp(@, field.body)] =
        [msg |-> Res!set_timestamp(msg, field.body), ok |-> TRUE]
  <2> DEFINE x == Res!set_timestamp(msg, field.body)
  <2>1. read.msg = msg
    BY DEF read
  <2> DEFINE t == TRUE
             with(m) == [msg |-> m, ok |-> t]
  <2> HIDE DEF x, msg, t
  <2>3. [with(msg) EXCEPT !.msg = x] = with(x)
    OBVIOUS
  <2> HIDE DEF with
  <2>4. read = with(msg) /\ with(x) = [msg |-> x, ok |-> TRUE]
    BY DEF read, with, t
  <2>2. [read EXCEPT !.msg = x] = [msg |-> x, ok |-> TRUE]
    BY <2>3, <2>4, Zenon
  <2> QED
    BY <2>1, <2>2, Zenon DEF x
<1>4. Res!set_timestamp(msg, field.body) =
        [data |-> data, timestamp |-> set(field.body), unknown |-> unknown]
  BY SameFieldsResponse DEF Res!set_timestamp
<1> HIDE DEF msg
<1> QED
  BY <1>2, <1>3, <1>4, Zenon DEF read, msg

LEMMA RecordComes ==
  ASSUME NEW data, NEW field, field.number = 1, field.wire = LENGTH_DELIMITED
  PROVE  Res!Take([msg |-> [data |-> data, timestamp |-> Unset, unknown |-> <<>>],
                   ok |-> TRUE], field)
           = Res!TakeRecord([msg |-> [data |-> data, timestamp |-> Unset, unknown |-> <<>>],
                             ok |-> TRUE], field.body)
<1> DEFINE read == [msg |-> [data |-> data, timestamp |-> Unset, unknown |-> <<>>], ok |-> TRUE]
<1>1. Res!LENGTH_DELIMITED = LENGTH_DELIMITED /\ read.ok = TRUE
  BY SameFieldsResponse
<1>2. field.number = 1 /\ field.wire = LENGTH_DELIMITED
  OBVIOUS
<1> HIDE DEF read
<1>3. Res!Take(read, field) = Res!TakeRecord(read, field.body)
  <2>1. 1 # 2
    OBVIOUS
  <2> QED
    BY <1>1, <1>2, <2>1, Zenon DEF Res!Take
<1> QED
  BY <1>3, Zenon DEF read

LEMMA RowIsTaken ==
  ASSUME NEW data \in Seq(Records), NEW row \in ThreeTexts
  PROVE  LET msg == [data |-> data, timestamp |-> Unset, unknown |-> <<>>]
         IN Res!TakeRecord([msg |-> msg, ok |-> TRUE],
                Res!Record!SerializeWithCachedSizes(Record(row)))
              = [msg |-> [data |-> Append(data, Record(row)), timestamp |-> Unset,
                          unknown |-> <<>>],
                 ok |-> TRUE]
<1> DEFINE msg == [data |-> data, timestamp |-> Unset, unknown |-> <<>>]
           read == [msg |-> msg, ok |-> TRUE]
           body == Res!Record!SerializeWithCachedSizes(Record(row))
           record == Res!Record!MergePartialFromCodedStream(Res!Record!New, body)
<1>1. record = [msg |-> Record(row), ok |-> TRUE, entire |-> TRUE]
  BY RecordIsRead
<1>2. Res!TakeRecord(read, body) =
        [msg |-> Res!add_data(read.msg, record.msg), ok |-> record.ok /\ record.entire]
  BY DEF Res!TakeRecord
<1>3. read.msg = msg
  OBVIOUS
<1> HIDE DEF record, read
<1>4. record.msg = Record(row) /\ record.ok = TRUE /\ record.entire = TRUE
  BY <1>1
<1>5. Res!add_data(msg, Record(row)) =
        [data |-> Append(data, Record(row)), timestamp |-> Unset, unknown |-> <<>>]
  BY DEF Res!add_data
<1> HIDE DEF msg, body
<1>6. (record.ok /\ record.entire) = TRUE
  BY <1>4
<1>7. Res!TakeRecord(read, body) = [msg |-> Res!add_data(msg, Record(row)), ok |-> TRUE]
  BY <1>2, <1>3, <1>4, <1>6, Zenon
<1> QED
  BY <1>5, <1>7, Zenon DEF read, msg, body

ResponseRun(g, msg, fields) ==
  /\ DOMAIN g = 0..Len(fields) /\ g[0] = [msg |-> msg, ok |-> TRUE]
  /\ \A i \in 1..Len(fields) : g[i] = Res!Take(g[i - 1], fields[i])

LEMMA ResponseRunIs ==
  ASSUME NEW msg, NEW fields \in Seq(AnyField), NEW g,
         g = [i \in 0..Len(fields) |-> g[i]], ResponseRun(g, msg, fields)
  PROVE  Res!TakeAll(msg, fields) = g[Len(fields)]
<1> DEFINE n == Len(fields)
           c == [msg |-> msg, ok |-> TRUE]
           Def(f) == f = [i \in 0..n |-> IF i = 0 THEN [msg |-> msg, ok |-> TRUE]
                                         ELSE Res!Take(f[i - 1], fields[i])]
           after == CHOOSE f : Def(f)
           T == {i \in 0..n : after[i] = g[i]}
<1>0. n \in Nat /\ n \in 0..n /\ 0 \in 0..n
  OBVIOUS
<1>1. Res!TakeAll(msg, fields) = after[n]
  BY DEF Res!TakeAll
<1>2. /\ g = [i \in 0..n |-> g[i]] /\ g[0] = c
      /\ \A i \in 1..n : g[i] = Res!Take(g[i - 1], fields[i])
  BY DEF ResponseRun
<1> HIDE DEF n
<1>3. Def(g)
  <2> HIDE DEF c
  <2>1. \A i \in 0..n : g[i] = IF i = 0 THEN c ELSE Res!Take(g[i - 1], fields[i])
    <3> TAKE i \in 0..n
    <3>1. i # 0 => i \in 1..n
      BY <1>0
    <3> QED
      BY <1>2, <3>1
  <2>2. [i \in 0..n |-> g[i]] =
          [i \in 0..n |-> IF i = 0 THEN c ELSE Res!Take(g[i - 1], fields[i])]
    BY <2>1, Zenon
  <2> QED
    BY <1>2, <2>2, Zenon DEF c
<1>4. Def(after)
  <2> HIDE DEF Def
  <2> QED
    BY <1>3, Zenon
<1> HIDE DEF after
<1>5. 0 \in T
  <2>1. after[0] = c
    BY <1>0, <1>4
  <2> QED
    BY <1>0, <1>2, <2>1
<1>6. ASSUME NEW i \in 0..(n - 1), i \in T
      PROVE  i + 1 \in T
  <2> DEFINE j == i + 1
  <2>1. j \in 0..n /\ j \in 1..n /\ j # 0 /\ j - 1 = i
    BY <1>0
  <2>2. after[i] = g[i]
    BY <1>6
  <2> HIDE DEF j, c
  <2>3. after[j] = Res!Take(after[j - 1], fields[j])
    BY <1>4, <2>1
  <2>4. g[j] = Res!Take(g[j - 1], fields[j])
    BY <1>2, <2>1
  <2>5. after[j] = g[j]
    BY <2>1, <2>2, <2>3, <2>4, Zenon
  <2> QED
    BY <2>1, <2>5 DEF j
<1>7. n \in T
  <2> HIDE DEF T
  <2> QED
    BY <1>0, <1>5, <1>6, Induction
<1> QED
  BY <1>1, <1>7 DEF n

LEMMA FieldsOfReply ==
  ASSUME NEW n \in Nat, NEW f \in Seq(AnyField), Len(f) = n, NEW last \in AnyField
  PROVE  /\ f \o <<last>> \in Seq(AnyField) /\ Len(f \o <<last>>) = n + 1
         /\ \A i \in 1..n : (f \o <<last>>)[i] = f[i]
         /\ (f \o <<last>>)[n + 1] = last
<1> DEFINE l == <<last>>
<1>1. l \in Seq(AnyField) /\ Len(l) = 1 /\ l[1] = last
  OBVIOUS
<1> HIDE DEF l
<1>2. /\ f \o l \in Seq(AnyField) /\ Len(f \o l) = Len(f) + Len(l)
      /\ \A i \in 1..Len(f) : (f \o l)[i] = f[i]
      /\ \A i \in 1..Len(l) : (f \o l)[Len(f) + i] = l[i]
  <2>1. l \in Seq(AnyField)
    BY <1>1
  <2> QED
    BY <2>1
<1>3. (f \o l)[Len(f) + 1] = l[1]
  <2>1. 1 \in 1..Len(l)
    BY <1>1
  <2> QED
    BY <1>2, <2>1, Zenon
<1>4. (f \o l)[n + 1] = last
  BY <1>1, <1>3, Zenon
<1>5. Len(f \o l) = n + 1
  <2>1. Len(f) = n
    OBVIOUS
  <2> QED
    BY <1>1, <1>2, <2>1, Zenon
<1> QED
  BY <1>2, <1>4, <1>5, Zenon DEF l

(* The client reads the rows and the time of a reply.                      *)
LEMMA ReplyIsTaken ==
  ASSUME NEW result \in Seq(ThreeTexts), NEW time \in Bytes
  PROVE  Res!TakeAll(Res!New, ReadFields(RowBytes(result)).fields \o <<Written(2, time)>>)
           = [msg |-> Answer(result, time), ok |-> TRUE]
<1> DEFINE n == Len(result)
           body(i) == Res!Record!SerializeWithCachedSizes(Record(result[i]))
           f == ReadFields(RowBytes(result)).fields
           last == Written(2, time)
           fields == f \o <<last>>
           first(i) == [j \in 1..i |-> Record(result[j])]
           msg(i) == [data |-> first(i), timestamp |-> Unset, unknown |-> <<>>]
           state(i) == [msg |-> msg(i), ok |-> TRUE]
           end == [msg |-> Answer(result, time), ok |-> TRUE]
<1>0. n \in Nat /\ 1 \in 1..15 /\ 2 \in 1..15
  OBVIOUS
<1>1. last \in AnyField /\ last.number = 2 /\ last.wire = LENGTH_DELIMITED /\ last.body = time
  BY <1>0, WrittenIs
<1>2. /\ f \in Seq(AnyField) /\ Len(f) = n
      /\ \A i \in 1..n : f[i] = Written(1, body(i))
  <2>1. f = [i \in 1..n |-> Written(1, body(i))]
    BY RowBytesAre
  <2>2. f \in Seq(AnyField)
    BY RowBytesAre, WholeIs
  <2> HIDE DEF f, n, body
  <2> QED
    BY <1>0, <2>1, <2>2
<1>3. \A i \in 1..n : result[i] \in ThreeTexts /\ body(i) \in Bytes
  <2> TAKE i \in 1..n
  <2>1. result[i] \in ThreeTexts /\ Record(result[i]) \in Records
    BY RecordsOfRows
  <2> QED
    BY <2>1, RecordBytes
<1>4. \A i \in 1..n : /\ f[i].number = 1 /\ f[i].wire = LENGTH_DELIMITED
                      /\ f[i].body = body(i)
  <2> HIDE DEF f, body, n
  <2> QED
    BY <1>0, <1>2, <1>3, WrittenIs
<1> HIDE DEF last, f, body
<1>5. /\ fields \in Seq(AnyField) /\ Len(fields) = n + 1
      /\ \A i \in 1..n : fields[i] = f[i]
      /\ fields[n + 1] = last
  <2> HIDE DEF n
  <2> QED
    BY <1>0, <1>1, <1>2, FieldsOfReply
<1>6. \A i \in 0..n : first(i) \in Seq(Records)
  <2>1. \A i \in 1..n : Record(result[i]) \in Records
    BY RecordsOfRows
  <2> HIDE DEF n
  <2> QED
    BY <1>0, <2>1
<1>7. \A i \in 1..n : first(i) = Append(first(i - 1), Record(result[i]))
  <2> DEFINE rec(i) == Record(result[i])
  <2> HIDE DEF rec
  <2>1. \A i \in 1..n : [j \in 1..i |-> rec(j)] = Append([j \in 1..(i - 1) |-> rec(j)], rec(i))
    OBVIOUS
  <2> QED
    BY <2>1 DEF rec
<1>8. first(0) = <<>>
  OBVIOUS
<1>9. Answer(result, time) = [data |-> first(n), timestamp |-> set(time), unknown |-> <<>>]
  BY DEF Answer
<1> HIDE DEF n, first, fields
<1>10. state(0) = [msg |-> Res!New, ok |-> TRUE]
  BY <1>8, NewResponse, Zenon
<1>11. \A i \in 1..n : Res!Take(state(i - 1), fields[i]) = state(i)
  <2> TAKE i \in 1..n
  <2> DEFINE p == first(i - 1)
             x == Record(result[i])
  <2>1. i - 1 \in 0..n
    BY <1>0
  <2>2. p \in Seq(Records) /\ result[i] \in ThreeTexts
    BY <1>3, <1>6, <2>1
  <2>3. fields[i].number = 1 /\ fields[i].wire = LENGTH_DELIMITED /\ fields[i].body = body(i)
    BY <1>4, <1>5
  <2>4. Res!Take(state(i - 1), fields[i]) = Res!TakeRecord(state(i - 1), body(i))
    <3> DEFINE fld == fields[i]
               s == [msg |-> [data |-> p, timestamp |-> Unset, unknown |-> <<>>], ok |-> TRUE]
    <3>1. state(i - 1) = s
      OBVIOUS
    <3>2. fld.number = 1 /\ fld.wire = LENGTH_DELIMITED /\ fld.body = body(i)
      BY <2>3
    <3> HIDE DEF fld, p
    <3>4. fld.number = 1 /\ fld.wire = LENGTH_DELIMITED
      BY <3>2
    <3>3. Res!Take(s, fld) = Res!TakeRecord(s, fld.body)
      BY <3>4, RecordComes
    <3> HIDE DEF s, state
    <3> QED
      BY <3>1, <3>2, <3>3, Zenon DEF fld
  <2>5. Res!TakeRecord(state(i - 1), body(i)) =
          [msg |-> [data |-> Append(p, x), timestamp |-> Unset, unknown |-> <<>>], ok |-> TRUE]
    BY <2>2, RowIsTaken, Zenon DEF body
  <2>6. Append(p, x) = first(i)
    BY <1>7
  <2> HIDE DEF p, x
  <2> QED
    BY <2>4, <2>5, <2>6, Zenon
<1>12. Res!Take(state(n), fields[n + 1]) = end
  <2>1. fields[n + 1].number = 2 /\ fields[n + 1].wire = LENGTH_DELIMITED
        /\ fields[n + 1].body = time
    BY <1>1, <1>5, Zenon
  <2> DEFINE fld == fields[n + 1]
             p == first(n)
  <2>2. fld.number = 2 /\ fld.wire = LENGTH_DELIMITED /\ fld.body = time
    BY <2>1
  <2> HIDE DEF fld, p
  <2>3. Res!Take([msg |-> [data |-> p, timestamp |-> Unset, unknown |-> <<>>], ok |-> TRUE], fld)
          = [msg |-> [data |-> p, timestamp |-> set(fld.body), unknown |-> <<>>], ok |-> TRUE]
    BY <2>2, ResponseTakeCases
  <2> QED
    BY <1>9, <2>2, <2>3, Zenon DEF fld, p
<1> HIDE DEF state, end
<1> DEFINE m == n + 1
           g == [i \in 0..m |-> IF i = m THEN end ELSE state(i)]
<1>13. m \in Nat /\ m \in 0..m /\ m \in 1..m /\ m # 0 /\ m - 1 = n /\ 0 \in 0..m
       /\ n \in 0..m /\ n # m
  BY <1>0
<1>14. g = [i \in 0..m |-> g[i]] /\ DOMAIN g = 0..m
  OBVIOUS
<1>15. g[m] = end /\ \A i \in 0..m : i # m => g[i] = state(i)
  BY <1>13
<1>16. \A i \in 1..m : g[i] = Res!Take(g[i - 1], fields[i])
  <2> TAKE i \in 1..m
  <2>1. CASE i = m
    <3>1. g[n] = state(n)
      BY <1>13, <1>15
    <3> HIDE DEF g
    <3>2. fields[i] = fields[n + 1] /\ g[i - 1] = g[n] /\ g[i] = end
      BY <1>13, <1>15, <2>1
    <3> QED
      BY <1>12, <3>1, <3>2, Zenon
  <2>2. CASE i # m
    <3>1. i \in 1..n /\ i \in 0..m /\ i - 1 \in 0..m /\ i - 1 # m
      BY <1>0, <2>2
    <3> HIDE DEF g
    <3>2. g[i] = state(i) /\ g[i - 1] = state(i - 1)
      BY <1>15, <2>2, <3>1, Zenon
    <3> QED
      BY <1>11, <3>1, <3>2, Zenon
  <2> QED
    BY <2>1, <2>2
<1>17. g[0] = [msg |-> Res!New, ok |-> TRUE]
  BY <1>10, <1>13, <1>15
<1>18. Len(fields) = m
  BY <1>5
<1> HIDE DEF g, m
<1>19. ResponseRun(g, Res!New, fields)
  BY <1>14, <1>16, <1>17, <1>18, Zenon DEF ResponseRun
<1>20. Res!TakeAll(Res!New, fields) = g[m]
  BY <1>5, <1>14, <1>18, <1>19, ResponseRunIs
<1> QED
  BY <1>15, <1>20, Zenon DEF end, fields, f, last

(* Reading what pack wrote gives the answer again.                         *)
LEMMA ReplyIsRead ==
  ASSUME NEW result \in Seq(ThreeTexts), NEW time \in Bytes
  PROVE  Res!ParseFromArray(Res!New, RowBytes(result) \o WriteString(2, time))
           = [msg |-> Answer(result, time), ok |-> TRUE]
<1> DEFINE a == RowBytes(result)
           w == WriteString(2, time)
           b == a \o w
           answer == Answer(result, time)
           fields == ReadFields(b).fields
           parsed == Res!MergePartialFromCodedStream(Res!New, b)
<1>1. a \in Bytes /\ Whole(a) /\ w \in Bytes /\ Whole(w)
      /\ ReadFields(w).fields = <<Written(2, time)>>
  <2>1. 2 \in 1..15
    OBVIOUS
  <2> QED
    BY <2>1, RowBytesAre, WrittenIsRead
<1> HIDE DEF w
<1>2. b \in Bytes /\ Whole(b) /\ fields = ReadFields(a).fields \o <<Written(2, time)>>
  <2> HIDE DEF a
  <2>1. /\ a \o w \in Bytes /\ (Whole(a \o w) <=> Whole(w))
        /\ ReadFields(a \o w).fields = ReadFields(a).fields \o ReadFields(w).fields
    BY <1>1, JoinedWhole
  <2> QED
    BY <1>1, <2>1, Zenon
<1> HIDE DEF b
<1>3. ReadFields(b).ok = TRUE /\ ReadFields(b).entire = TRUE
  BY <1>2, ReadIs, WholeIs DEF Whole, ReadStates
<1>4. Res!TakeAll(Res!New, fields) = [msg |-> answer, ok |-> TRUE]
  BY <1>2, ReplyIsTaken, Zenon
<1>5. parsed = [msg |-> answer, ok |-> TRUE, entire |-> TRUE]
  <2> HIDE DEF answer, fields
  <2>1. Res!TakeAll(Res!New, fields).msg = answer /\ Res!TakeAll(Res!New, fields).ok = TRUE
    BY <1>4
  <2> DEFINE taken == Res!TakeAll(Res!New, fields)
  <2>2. parsed = [msg |-> taken.msg, ok |-> taken.ok /\ ReadFields(b).ok,
                  entire |-> ReadFields(b).entire]
    BY SameReading, Zenon DEF Res!MergePartialFromCodedStream, fields
  <2> HIDE DEF taken
  <2>3. (taken.ok /\ ReadFields(b).ok) = TRUE
    BY <1>3, <2>1 DEF taken
  <2> QED
    BY <1>3, <2>1, <2>2, <2>3, Zenon DEF taken
<1>6. Res!IsInitialized(answer)
  <2>1. answer.data = [i \in 1..Len(result) |-> Record(result[i])]
    BY DEF Answer
  <2>2. \A i \in 1..Len(result) : Res!Record!IsInitialized(Record(result[i]))
    BY RecordsOfRows, RecordIs
  <2> HIDE DEF answer
  <2> QED
    BY <2>1, <2>2 DEF Res!IsInitialized
<1>7. Res!Clear(Res!New) = Res!New
  <2>1. Res!Cleared(Unset) = Unset
    BY SameFieldsResponse DEF Cleared, Unset
  <2>2. Res!New.timestamp = Unset
    BY NewResponse
  <2> QED
    BY <2>1, <2>2, NewResponse, Zenon DEF Res!Clear
<1> HIDE DEF parsed, answer
<1>8. Res!ParseFromArray(Res!New, b) =
        [msg |-> parsed.msg, ok |-> parsed.ok /\ parsed.entire /\ Res!IsInitialized(parsed.msg)]
  BY <1>7, Zenon DEF Res!ParseFromArray, parsed
<1>9. parsed.msg = answer /\ parsed.ok = TRUE /\ parsed.entire = TRUE
  BY <1>5
<1>10. (parsed.ok /\ parsed.entire /\ Res!IsInitialized(parsed.msg)) = TRUE
  <2>1. Res!IsInitialized(parsed.msg)
    BY <1>6, <1>9, Zenon
  <2> QED
    BY <1>9, <2>1
<1> QED
  BY <1>8, <1>9, <1>10, Zenon DEF answer, b, a, w

(* An empty buffer is the empty response.                                  *)
LEMMA NothingIsParsed ==
  Res!ParseFromArray(Res!New, <<>>) = [msg |-> Res!New, ok |-> TRUE]
<1> DEFINE new == Res!New
           parsed == Res!MergePartialFromCodedStream(new, <<>>)
<1>1. Res!Clear(new) = new
  <2>1. Res!Cleared(Unset) = Unset
    BY SameFieldsResponse DEF Cleared, Unset
  <2>2. new.timestamp = Unset
    BY NewResponse
  <2> QED
    BY <2>1, <2>2, NewResponse, Zenon DEF Res!Clear
<1>2. new.data = <<>>
  BY NewResponse
<1> HIDE DEF new
<1>3. Res!TakeAll(new, <<>>) = [msg |-> new, ok |-> TRUE]
  <2> DEFINE g == [i \in 0..Len(<<>>) |-> [msg |-> new, ok |-> TRUE]]
  <2>1. <<>> \in Seq(AnyField) /\ Len(<<>>) = 0 /\ 0 \in 0..0 /\ 1..0 = {}
    OBVIOUS
  <2>2. g = [i \in 0..Len(<<>>) |-> g[i]] /\ DOMAIN g = 0..Len(<<>>)
    OBVIOUS
  <2>3. g[0] = [msg |-> new, ok |-> TRUE]
    BY <2>1
  <2> HIDE DEF g
  <2>4. ResponseRun(g, new, <<>>)
    BY <2>1, <2>2, <2>3 DEF ResponseRun
  <2>5. Res!TakeAll(new, <<>>) = g[Len(<<>>)]
    BY <2>1, <2>2, <2>4, ResponseRunIs
  <2> QED
    BY <2>1, <2>3, <2>5, Zenon
<1>4. Start.fields = <<>> /\ Start.ok = TRUE /\ Start.entire = TRUE
  BY DEF Start
<1>5. parsed = [msg |-> new, ok |-> TRUE, entire |-> TRUE]
  <2> DEFINE taken == Res!TakeAll(new, Start.fields)
  <2>1. parsed = [msg |-> taken.msg, ok |-> taken.ok /\ Start.ok, entire |-> Start.entire]
    BY SameReading, NothingIsRead, Zenon DEF Res!MergePartialFromCodedStream
  <2>2. taken.msg = new /\ taken.ok = TRUE
    <3>1. taken = [msg |-> new, ok |-> TRUE]
      BY <1>3, <1>4, Zenon
    <3> HIDE DEF taken
    <3> QED
      BY <3>1
  <2> HIDE DEF taken
  <2>3. (taken.ok /\ Start.ok) = TRUE
    BY <1>4, <2>2
  <2> QED
    BY <1>4, <2>1, <2>2, <2>3, Zenon
<1> HIDE DEF parsed
<1>6. Res!ParseFromArray(new, <<>>) =
        [msg |-> parsed.msg, ok |-> parsed.ok /\ parsed.entire /\ Res!IsInitialized(parsed.msg)]
  BY <1>1, Zenon DEF Res!ParseFromArray, parsed
<1>7. parsed.msg = new /\ parsed.ok = TRUE /\ parsed.entire = TRUE
  BY <1>5
<1>8. (parsed.ok /\ parsed.entire /\ Res!IsInitialized(parsed.msg)) = TRUE
  <2>1. Res!IsInitialized(new)
    BY <1>2 DEF Res!IsInitialized
  <2>2. Res!IsInitialized(parsed.msg)
    BY <1>7, <2>1, Zenon
  <2> QED
    BY <1>7, <2>2
<1> QED
  BY <1>6, <1>7, <1>8, Zenon DEF new

(* A reply that was cut parses only if all of its rows came: a timestamp   *)
(* may be cut, for its length is written before it.                        *)
LEMMA ReplyTorn ==
  ASSUME NEW result \in Seq(ThreeTexts), NEW time \in Bytes,
         NEW k \in 0..(Len(RowBytes(result) \o WriteString(2, time)) - 1),
         Whole(Torn(RowBytes(result) \o WriteString(2, time), k))
  PROVE  \E other \in Bytes :
           Torn(RowBytes(result) \o WriteString(2, time), k)
             = RowBytes(result) \o WriteString(2, other)
<1> DEFINE data == [i \in 1..Len(result) |-> Record(result[i])]
           texts == Bodies(data)
           a == RowBytes(result)
           w == WriteString(2, time)
<1>0. 1 \in 1..15 /\ 2 \in 1..15
  OBVIOUS
<1>1. texts \in Seq(Bytes)
  BY RecordsOfRows, BodiesAre
<1>2. a = FlattenSeq(Strings(1, texts))
  BY DEF RowBytes
<1>3. a \in Bytes /\ Whole(a) /\ w \in Bytes /\ Len(w) = Len(time) + 2 /\ Len(time) \in Nat
  <2>1. a \in Bytes /\ Whole(a)
    BY RowBytesAre
  <2>2. w \in Bytes /\ Len(w) = Len(time) + 2
    BY <1>0, WriteStringIs
  <2>3. Len(time) \in Nat
    BY DEF Bytes
  <2> QED
    BY <2>1, <2>2, <2>3, Zenon
<1>4. k \in 0..(Len(a \o w) - 1) /\ Whole(Torn(a \o w, k))
  OBVIOUS
<1> HIDE DEF a, w, texts
<1>5. Len(a \o w) = Len(a) + Len(w) /\ Len(a) \in Nat /\ Len(w) \in Nat /\ k \in Nat
  <2>1. Len(a \o w) = Len(a) + Len(w) /\ Len(a) \in Nat /\ Len(w) \in Nat
    BY <1>3, JoinedBytes
  <2> HIDE DEF data
  <2> QED
    BY <1>4, <2>1
<1>6. ~(k < Len(a))
  <2> SUFFICES ASSUME k < Len(a)
               PROVE  FALSE
    OBVIOUS
  <2> DEFINE m == Len(w)
  <2>1. k \in 0..(Len(a) - 1) /\ k \in 0..Len(a) /\ m \in Nat \ {0}
    BY <1>3, <1>5
  <2>2. Torn(a \o w, k) = Torn(a, k) \o Zeros(m)
    BY <1>3, <2>1, TornBefore
  <2> HIDE DEF m
  <2>3. ~Whole(Torn(a, k) \o Zeros(m))
    BY <1>0, <1>1, <1>2, <2>1, StringsTorn
  <2> QED
    BY <1>4, <2>2, <2>3, Zenon
<1> DEFINE j == k - Len(a)
<1>7. j \in 0..(Len(w) - 1) /\ j \in 0..Len(w) /\ Len(a) + j = k
  BY <1>4, <1>5, <1>6
<1> HIDE DEF j
<1>8. Torn(a \o w, Len(a) + j) = a \o Torn(w, j)
  BY <1>3, <1>7, TornBehind
<1>9. Torn(a \o w, k) = a \o Torn(w, j)
  BY <1>7, <1>8, Zenon
<1>10. Torn(w, j) \in Bytes
  BY <1>3, <1>7, TornIs
<1> DEFINE t == Torn(w, j)
<1> HIDE DEF t
<1>11. Whole(t)
  <2>1. t \in Bytes /\ Whole(a \o t)
    BY <1>4, <1>9, <1>10, Zenon DEF t
  <2> QED
    BY <1>3, <2>1, JoinedWhole
<1>12. t \o Zeros(0) = t
  <2>1. Zeros(0) = <<>>
    BY DEF Zeros
  <2>2. t \in Bytes
    BY <1>10 DEF t
  <2>3. t \o <<>> = t
    BY <2>2 DEF Bytes
  <2> QED
    BY <2>1, <2>3, Zenon
<1>13. \E other \in Bytes : t = WriteString(2, other)
  <2> DEFINE z == 0
  <2>1. z \in Nat /\ Whole(t \o Zeros(z))
    BY <1>11, <1>12, Zenon
  <2>2. Whole(Torn(WriteString(2, time), j) \o Zeros(z))
    BY <2>1, Zenon DEF t, w
  <2>3. j \in 0..(Len(WriteString(2, time)) - 1)
    BY <1>7 DEF w
  <2> HIDE DEF z
  <2>4. \E other \in Bytes : Torn(WriteString(2, time), j) = WriteString(2, other)
    BY <1>0, <2>1, <2>2, <2>3, TornString
  <2> QED
    BY <2>4, Zenon DEF t, w
<1> QED
  BY <1>9, <1>13, Zenon DEF a, w, t

-----------------------------------------------------------------------------
(* The session parses into a message that it used before.                  *)
LEMMA RequestCleared ==
  ASSUME NEW msg \in Requests
  PROVE  /\ Req!Clear(msg) \in Requests
         /\ Req!Read(Req!Clear(msg)) = Req!Read(Req!New)
<1> DEFINE t == Cleared(msg.timestamp)
           c == [query |-> <<>>, timestamp |-> t, unknown |-> <<>>]
<1>1. t \in StringFields /\ Value(t) = Value(Unset)
  BY RequestsAre, ClearedFields
<1>2. Req!Clear(msg) = c
  BY SameFieldsRequest DEF Req!Clear
<1> HIDE DEF t
<1>3. c \in Requests
  <2>1. <<>> \in Seq(Bytes) /\ <<>> \in Seq(AnyField)
    OBVIOUS
  <2> QED
    BY <1>1, <2>1, RequestOf
<1>4. c.query = <<>> /\ c.timestamp = t /\ c.unknown = <<>>
  OBVIOUS
<1>5. Req!New.query = <<>> /\ Req!New.timestamp = Unset /\ Req!New.unknown = <<>>
  BY SameFieldsRequest DEF Req!New
<1> HIDE DEF c
<1>6. Req!Read(c) = <<<<>>, Value(t), <<>>>>
  BY <1>4, SameFieldsRequest, Zenon DEF Req!Read
<1>7. Req!Read(Req!New) = <<<<>>, Value(Unset), <<>>>>
  BY <1>5, SameFieldsRequest, Zenon DEF Req!Read
<1> QED
  BY <1>1, <1>2, <1>3, <1>6, <1>7, Zenon

LEMMA NewIsClear == Req!Clear(Req!New) = Req!New
<1>1. Req!New = [query |-> <<>>, timestamp |-> Unset, unknown |-> <<>>]
  BY SameFieldsRequest DEF Req!New
<1>2. Req!New.timestamp = Unset
  BY <1>1
<1>3. Req!Cleared(Unset) = Unset
  BY SameFieldsRequest DEF Cleared, Unset
<1> QED
  BY <1>1, <1>2, <1>3, Zenon DEF Req!Clear

LEMMA RequestParsed ==
  ASSUME NEW msg \in Requests, NEW bytes \in Bytes
  PROVE  /\ Req!ParseFromArray(msg, bytes).msg =
              Req!TakeAll(Req!Clear(msg), ReadFields(bytes).fields)
         /\ Req!ParseFromArray(msg, bytes).ok <=> Whole(bytes)
         /\ Req!ParseFromArray(msg, bytes).msg \in Requests
         /\ ReadFields(bytes).fields \in Seq(AnyField)
<1> DEFINE c == Req!Clear(msg)
           read == ReadFields(bytes)
           parsed == Req!MergePartialFromCodedStream(c, bytes)
           taken == Req!TakeAll(c, read.fields)
<1>1. /\ read.fields \in Seq(AnyField) /\ read.ok \in BOOLEAN /\ read.entire \in BOOLEAN
      /\ read.entire => read.ok
  BY ReadIs DEF ReadStates
<1>2. taken \in Requests
  <2>1. c \in Requests
    BY RequestCleared
  <2> HIDE DEF c, read
  <2> QED
    BY <1>1, <2>1, RequestTaken
<1>3. Req!ReadFields(bytes) = read
  BY SameReading
<1>4. Whole(bytes) = read.entire
  BY DEF Whole
<1> HIDE DEF read, c
<1>5. parsed = [msg |-> taken, ok |-> read.ok, entire |-> read.entire]
  BY <1>3, Zenon DEF Req!MergePartialFromCodedStream
<1> HIDE DEF taken
<1>6. parsed.msg = taken /\ parsed.ok = read.ok /\ parsed.entire = read.entire
  <2> HIDE DEF parsed
  <2> QED
    BY <1>5
<1> HIDE DEF parsed
<1>7. Req!ParseFromArray(msg, bytes) =
        [msg |-> parsed.msg, ok |-> parsed.ok /\ parsed.entire /\ Req!IsInitialized(parsed.msg)]
  BY Zenon DEF Req!ParseFromArray, parsed, c
<1>8. Req!IsInitialized(parsed.msg)
  BY DEF Req!IsInitialized
<1> DEFINE ok == parsed.ok /\ parsed.entire /\ Req!IsInitialized(parsed.msg)
<1>9. ok <=> read.entire
  BY <1>1, <1>6, <1>8
<1> HIDE DEF ok
<1>10. /\ Req!ParseFromArray(msg, bytes).msg = parsed.msg
       /\ Req!ParseFromArray(msg, bytes).ok = ok
  <2> DEFINE p == Req!ParseFromArray(msg, bytes)
  <2>1. p = [msg |-> parsed.msg, ok |-> ok]
    BY <1>7, Zenon DEF ok
  <2> HIDE DEF p
  <2>2. p.msg = parsed.msg /\ p.ok = ok
    BY <2>1
  <2> QED
    BY <2>2 DEF p
<1>11. Req!ParseFromArray(msg, bytes).ok <=> Whole(bytes)
  BY <1>4, <1>9, <1>10, Zenon
<1> QED
  BY <1>1, <1>2, <1>6, <1>10, <1>11, Zenon DEF taken, read, c

(* What is read of the bytes does not depend on what the message held.     *)
LEMMA ParsedAlike ==
  ASSUME NEW msg \in Requests, NEW bytes \in Bytes
  PROVE  Req!Read(Req!ParseFromArray(msg, bytes).msg)
           = Req!Read(Req!TakeAll(Req!New, ReadFields(bytes).fields))
<1> DEFINE c == Req!Clear(msg)
           f == ReadFields(bytes).fields
           y == Req!TakeAll(Req!New, f)
<1>1. f \in Seq(AnyField) /\ Req!ParseFromArray(msg, bytes).msg = Req!TakeAll(c, f)
  BY RequestParsed
<1>2. c \in Requests /\ Req!Read(c) = Req!Read(Req!New) /\ Req!New \in Requests
  BY RequestCleared, NewRequest
<1> HIDE DEF c, f
<1>3. y \in Requests
  BY <1>1, <1>2, RequestTaken
<1>4. Req!Read(Req!TakeAll(c, f)) = Req!Read(Req!MergeFrom(c, y))
  BY <1>1, <1>2, TakingMerges
<1>5. Req!Read(Req!TakeAll(Req!New, f)) = Req!Read(Req!MergeFrom(Req!New, y))
  BY <1>1, <1>2, TakingMerges
<1> HIDE DEF y
<1>6. Req!Read(Req!MergeFrom(c, y)) = Req!Read(Req!MergeFrom(Req!New, y))
  <2> DEFINE new == Req!New
  <2>1. new \in Requests /\ Req!Read(c) = Req!Read(new)
    BY <1>2
  <2> HIDE DEF new
  <2>2. Req!Read(Req!MergeFrom(c, y)) = Req!Read(Req!MergeFrom(new, y))
    BY <1>2, <1>3, <2>1, MergesAlike
  <2> QED
    BY <2>2, Zenon DEF new
<1> QED
  BY <1>1, <1>4, <1>5, <1>6, Zenon DEF f

(* A copy reads as what it is a copy of.                                   *)
LEMMA CopyReads ==
  ASSUME NEW msg \in Requests, NEW from \in Requests
  PROVE  Req!Read(Req!CopyFrom(msg, from)) = Req!Read(from)
<1> DEFINE c == Req!Clear(msg)
           m == Req!MergeFrom(c, from)
<1>1. c \in Requests /\ Req!Read(c) = Req!Read(Req!New)
  BY RequestCleared
<1>2. c.query = <<>> /\ c.unknown = <<>>
  BY DEF Req!Clear
<1>3. c.timestamp.has = FALSE /\ c.timestamp.text = <<>> /\ c.timestamp \in StringFields
  <2> DEFINE t == Cleared(msg.timestamp)
  <2>1. c.timestamp = t
    BY SameFieldsRequest DEF Req!Clear
  <2>2. t \in StringFields /\ Value(t) = Value(Unset)
    BY RequestsAre, ClearedFields
  <2> HIDE DEF t, c
  <2>3. t.has = FALSE /\ t.text = <<>>
    BY <2>2 DEF Value, Unset
  <2> QED
    BY <2>1, <2>2, <2>3, Zenon
<1> HIDE DEF c
<1>4. /\ m \in Requests
      /\ m.query = c.query \o from.query /\ m.unknown = c.unknown \o from.unknown
      /\ m.timestamp = Merged(c.timestamp, from.timestamp)
  BY <1>1, RequestMerges
<1> HIDE DEF m
<1>5. from.query \in Seq(Bytes) /\ from.unknown \in Seq(AnyField) /\ from.timestamp \in StringFields
  BY RequestsAre
<1>6. m.query = from.query /\ m.unknown = from.unknown
  <2> DEFINE q == from.query
             u == from.unknown
  <2> HIDE DEF q, u
  <2>1. q \in Seq(Bytes) /\ u \in Seq(AnyField)
    BY <1>5 DEF q, u
  <2>2. <<>> \o q = q /\ <<>> \o u = u
    BY <2>1
  <2> QED
    BY <1>2, <1>4, <2>2, Zenon DEF q, u
<1>7. m.timestamp.has = from.timestamp.has /\ m.timestamp.text = from.timestamp.text
  <2> DEFINE s == c.timestamp
             t == from.timestamp
  <2>1. s \in StringFields /\ t \in StringFields /\ s.has = FALSE /\ s.text = <<>>
    BY <1>3, <1>5
  <2>2. m.timestamp = Merged(s, t)
    BY <1>4
  <2> HIDE DEF s, t
  <2>3. /\ Merged(s, t).has = (s.has \/ t.has)
        /\ Merged(s, t).text = IF t.has THEN t.text ELSE s.text
    BY <2>1, MergedReads
  <2>4. t.has \in BOOLEAN /\ (~t.has => t.text = <<>>)
    BY <2>1, StringFieldsAre
  <2>5. (s.has \/ t.has) = t.has
    BY <2>1, <2>4
  <2>6. (IF t.has THEN t.text ELSE s.text) = t.text
    BY <2>1, <2>4
  <2> QED
    BY <2>2, <2>3, <2>5, <2>6, Zenon DEF t
<1>8. Req!Read(m) = Req!Read(from)
  BY <1>4, <1>6, <1>7, RequestReads, Zenon
<1> QED
  BY <1>8 DEF Req!CopyFrom, m, c

(* A buffer of two copies of a message is read as the merge of the two.    *)
LEMMA TwiceIsMerge ==
  ASSUME NEW msg \in Requests, NEW bytes \in Bytes, Whole(bytes),
         Req!Read(msg) = Req!Read(Req!TakeAll(Req!New, ReadFields(bytes).fields))
  PROVE  Req!Read(Req!ParseFromArray(Req!New, bytes \o bytes).msg)
           = Req!Read(Req!MergeFrom(msg, msg))
<1> DEFINE f == ReadFields(bytes).fields
           y == Req!TakeAll(Req!New, f)
           twice == bytes \o bytes
<1>1. f \in Seq(AnyField)
  BY WholeIs
<1>2. twice \in Bytes /\ ReadFields(twice).fields = f \o f
  BY JoinedWhole
<1>3. Req!New \in Requests
  BY NewRequest
<1>4. Req!Read(msg) = Req!Read(y)
  OBVIOUS
<1> HIDE DEF f, twice
<1>5. y \in Requests
  BY <1>1, <1>3, RequestTaken
<1>6. Req!Read(Req!ParseFromArray(Req!New, twice).msg)
        = Req!Read(Req!TakeAll(Req!New, f \o f))
  BY <1>2, <1>3, ParsedAlike, Zenon
<1>7. Req!TakeAll(Req!New, f \o f) = Req!TakeAll(y, f)
  BY <1>1, <1>3, TakingJoined
<1>8. Req!Read(Req!TakeAll(y, f)) = Req!Read(Req!MergeFrom(y, y))
  <2> DEFINE z == y
  <2>1. z \in Requests /\ z = y
    BY <1>5
  <2> HIDE DEF z
  <2>2. Req!Read(Req!TakeAll(z, f)) = Req!Read(Req!MergeFrom(z, Req!TakeAll(Req!New, f)))
    BY <1>1, <2>1, TakingMerges
  <2> QED
    BY <2>1, <2>2, Zenon
<1> HIDE DEF y
<1>9. Req!Read(Req!MergeFrom(y, y)) = Req!Read(Req!MergeFrom(msg, msg))
  BY <1>4, <1>5, MergesAlike, Zenon
<1> QED
  BY <1>6, <1>7, <1>8, <1>9, Zenon DEF twice

-----------------------------------------------------------------------------
(* The accessors.                                                          *)
LEMMA QueryTexts ==
  ASSUME NEW query \in Seq(Bytes), NEW text \in Bytes
  PROVE  /\ Append(query, text) \in Seq(Bytes)
         /\ \A i \in DOMAIN query : [query EXCEPT ![i] = text] \in Seq(Bytes)
OBVIOUS

LEMMA RequestAccesses ==
  ASSUME NEW msg \in Requests, NEW queries \in SUBSET Bytes, NEW times \in SUBSET Bytes,
         NEW other \in Req!Accesses(msg, queries, times)
  PROVE  other \in Requests /\ other.unknown = msg.unknown
<1> DEFINE q == msg.query
           t == msg.timestamp
           u == msg.unknown
<1>1. /\ msg = [query |-> q, timestamp |-> t, unknown |-> u]
      /\ q \in Seq(Bytes) /\ t \in StringFields /\ u \in Seq(AnyField)
  BY RequestsAre
<1>2. \/ \E text \in queries : other = Req!add_query(msg, text)
      \/ \E i \in DOMAIN q, text \in queries : other = [msg EXCEPT !.query[i] = text]
      \/ other = [msg EXCEPT !.query = <<>>]
      \/ \E field \in Accessed(t, times) : other = [msg EXCEPT !.timestamp = field]
  BY SameFieldsRequest DEF Req!Accesses
<1> HIDE DEF q, t, u
<1>3. ASSUME NEW q1 \in Seq(Bytes), other = [query |-> q1, timestamp |-> t, unknown |-> u]
      PROVE  other \in Requests /\ other.unknown = u
  BY <1>1, <1>3, RequestOf
<1>4. CASE \E text \in queries : other = Req!add_query(msg, text)
  <2>1. PICK text \in queries : other = Req!add_query(msg, text)
    BY <1>4
  <2> DEFINE q1 == Append(q, text)
  <2>2. other = [query |-> q1, timestamp |-> t, unknown |-> u]
    BY <1>1, <2>1 DEF Req!add_query
  <2>3. q1 \in Seq(Bytes)
    BY <1>1, QueryTexts
  <2> HIDE DEF q1
  <2> QED
    BY <1>3, <2>2, <2>3 DEF u
<1>5. CASE \E i \in DOMAIN q, text \in queries : other = [msg EXCEPT !.query[i] = text]
  <2>1. PICK i \in DOMAIN q, text \in queries : other = [msg EXCEPT !.query[i] = text]
    BY <1>5
  <2> DEFINE q1 == [q EXCEPT ![i] = text]
  <2>2. other = [query |-> q1, timestamp |-> t, unknown |-> u]
    <3>1. other = [msg EXCEPT !.query = q1]
      BY <2>1 DEF q
    <3> HIDE DEF q1
    <3> QED
      BY <1>1, <3>1
  <2>3. q1 \in Seq(Bytes)
    BY <1>1, QueryTexts
  <2> HIDE DEF q1
  <2> QED
    BY <1>3, <2>2, <2>3 DEF u
<1>6. CASE other = [msg EXCEPT !.query = <<>>]
  <2>1. <<>> \in Seq(Bytes)
    OBVIOUS
  <2>2. other = [query |-> <<>>, timestamp |-> t, unknown |-> u]
    BY <1>1, <1>6
  <2> QED
    BY <1>3, <2>1, <2>2 DEF u
<1>7. CASE \E field \in Accessed(t, times) : other = [msg EXCEPT !.timestamp = field]
  <2>1. PICK field \in Accessed(t, times) : other = [msg EXCEPT !.timestamp = field]
    BY <1>7
  <2>2. field \in StringFields
    BY <1>1, AccessedFields
  <2>3. other = [query |-> q, timestamp |-> field, unknown |-> u]
    BY <1>1, <2>1
  <2> QED
    BY <1>1, <2>2, <2>3, RequestOf DEF u
<1> QED
  BY <1>2, <1>4, <1>5, <1>6, <1>7

LEMMA RecordAccesses ==
  ASSUME NEW record \in Records, NEW texts \in SUBSET Bytes,
         NEW other \in Res!OfRecord(record, texts)
  PROVE  other \in Records
<1> DEFINE s == record.subject
           p == record.predicate
           o == record.object
           u == record.unknown
<1>1. /\ record = [subject |-> s, predicate |-> p, object |-> o, unknown |-> u]
      /\ s \in StringFields /\ p \in StringFields /\ o \in StringFields /\ u \in Seq(AnyField)
  BY RecordsAre
<1>2. \/ \E field \in Accessed(s, texts) : other = [record EXCEPT !.subject = field]
      \/ \E field \in Accessed(p, texts) : other = [record EXCEPT !.predicate = field]
      \/ \E field \in Accessed(o, texts) : other = [record EXCEPT !.object = field]
      \/ other = Res!Record!New
  BY SameFieldsRecord
  DEF Res!OfRecord, Res!Record!Accesses, Res!Record!SubjectAccesses,
      Res!Record!PredicateAccesses, Res!Record!ObjectAccesses, Res!Record!Swap
<1> HIDE DEF s, p, o, u
<1>3. CASE \E field \in Accessed(s, texts) : other = [record EXCEPT !.subject = field]
  <2>1. PICK field \in Accessed(s, texts) : other = [record EXCEPT !.subject = field]
    BY <1>3
  <2>2. field \in StringFields
    BY <1>1, AccessedFields
  <2>3. other = [subject |-> field, predicate |-> p, object |-> o, unknown |-> u]
    BY <1>1, <2>1
  <2> QED
    BY <1>1, <2>2, <2>3, RecordOf
<1>4. CASE \E field \in Accessed(p, texts) : other = [record EXCEPT !.predicate = field]
  <2>1. PICK field \in Accessed(p, texts) : other = [record EXCEPT !.predicate = field]
    BY <1>4
  <2>2. field \in StringFields
    BY <1>1, AccessedFields
  <2>3. other = [subject |-> s, predicate |-> field, object |-> o, unknown |-> u]
    BY <1>1, <2>1
  <2> QED
    BY <1>1, <2>2, <2>3, RecordOf
<1>5. CASE \E field \in Accessed(o, texts) : other = [record EXCEPT !.object = field]
  <2>1. PICK field \in Accessed(o, texts) : other = [record EXCEPT !.object = field]
    BY <1>5
  <2>2. field \in StringFields
    BY <1>1, AccessedFields
  <2>3. other = [subject |-> s, predicate |-> p, object |-> field, unknown |-> u]
    BY <1>1, <2>1
  <2> QED
    BY <1>1, <2>2, <2>3, RecordOf
<1> QED
  BY <1>2, <1>3, <1>4, <1>5, NewRecord

LEMMA RecordTexts ==
  ASSUME NEW data \in Seq(Records), NEW record \in Records
  PROVE  /\ Append(data, record) \in Seq(Records)
         /\ \A i \in DOMAIN data : /\ data[i] \in Records
                                   /\ [data EXCEPT ![i] = record] \in Seq(Records)
OBVIOUS

LEMMA ResponseAccesses ==
  ASSUME NEW msg \in Responses, NEW texts \in SUBSET Bytes,
         NEW other \in Res!Accesses(msg, texts)
  PROVE  other \in Responses
<1> DEFINE d == msg.data
           t == msg.timestamp
           u == msg.unknown
<1>1. /\ msg = [data |-> d, timestamp |-> t, unknown |-> u]
      /\ d \in Seq(Records) /\ t \in StringFields /\ u \in Seq(AnyField)
  BY ResponsesAre
<1>2. \/ other = Res!add_data(msg, Res!Record!New)
      \/ other = [msg EXCEPT !.data = <<>>]
      \/ \E i \in DOMAIN d : \E record \in Res!OfRecord(d[i], texts) :
           other = [msg EXCEPT !.data[i] = record]
      \/ \E field \in Accessed(t, texts) : other = [msg EXCEPT !.timestamp = field]
  <2> DEFINE changed(i) == {[msg EXCEPT !.data[i] = record] :
                              record \in Res!OfRecord(msg.data[i], texts)}
             ofData == UNION {changed(i) : i \in DOMAIN msg.data}
             times == Res!Accessed(msg.timestamp, texts)
             ofTime == {[msg EXCEPT !.timestamp = field] : field \in times}
  <2>1. Res!Accesses(msg, texts) =
          {Res!add_data(msg, Res!Record!New), [msg EXCEPT !.data = <<>>]} \cup ofData \cup ofTime
    BY DEF Res!Accesses
  <2>2. ASSUME other \in ofData
        PROVE  \E i \in DOMAIN d : \E record \in Res!OfRecord(d[i], texts) :
                 other = [msg EXCEPT !.data[i] = record]
    <3> HIDE DEF changed
    <3>1. PICK i \in DOMAIN msg.data : other \in changed(i)
      BY <2>2
    <3> QED
      BY <3>1, Zenon DEF changed
  <2>3. ASSUME other \in ofTime
        PROVE  \E field \in Accessed(t, texts) : other = [msg EXCEPT !.timestamp = field]
    <3>1. times = Accessed(t, texts)
      BY SameFieldsResponse
    <3> HIDE DEF times
    <3>2. \E field \in times : other = [msg EXCEPT !.timestamp = field]
      BY <2>3
    <3> QED
      BY <3>1, <3>2, Zenon
  <2> HIDE DEF ofData, ofTime, d, t
  <2> QED
    BY <2>1, <2>2, <2>3, Zenon
<1> HIDE DEF d, t, u
<1>3. ASSUME NEW d1 \in Seq(Records), other = [data |-> d1, timestamp |-> t, unknown |-> u]
      PROVE  other \in Responses
  BY <1>1, <1>3, ResponseOf
<1>4. CASE other = Res!add_data(msg, Res!Record!New)
  <2> DEFINE new == Res!Record!New
             d1 == Append(d, new)
  <2>1. new \in Records
    BY NewRecord
  <2>2. other = Res!add_data(msg, new)
    BY <1>4
  <2> HIDE DEF new
  <2>3. other = [data |-> d1, timestamp |-> t, unknown |-> u]
    BY <1>1, <2>2 DEF Res!add_data
  <2>4. d1 \in Seq(Records)
    BY <1>1, <2>1, RecordTexts
  <2> HIDE DEF d1
  <2> QED
    BY <1>3, <2>3, <2>4
<1>5. CASE other = [msg EXCEPT !.data = <<>>]
  <2>1. <<>> \in Seq(Records)
    OBVIOUS
  <2>2. other = [data |-> <<>>, timestamp |-> t, unknown |-> u]
    BY <1>1, <1>5
  <2> QED
    BY <1>3, <2>1, <2>2
<1>6. CASE \E i \in DOMAIN d : \E record \in Res!OfRecord(d[i], texts) :
             other = [msg EXCEPT !.data[i] = record]
  <2>1. PICK i \in DOMAIN d : \E record \in Res!OfRecord(d[i], texts) :
               other = [msg EXCEPT !.data[i] = record]
    BY <1>6
  <2>2. PICK record \in Res!OfRecord(d[i], texts) : other = [msg EXCEPT !.data[i] = record]
    BY <2>1
  <2> DEFINE d1 == [d EXCEPT ![i] = record]
             r == d[i]
  <2>3. r \in Records
    BY <1>1, NewRecord, RecordTexts
  <2>4. record \in Records
    <3>1. record \in Res!OfRecord(r, texts)
      OBVIOUS
    <3> HIDE DEF r
    <3> QED
      BY <2>3, <3>1, RecordAccesses
  <2>5. other = [data |-> d1, timestamp |-> t, unknown |-> u]
    <3>1. other = [msg EXCEPT !.data = d1]
      BY <2>2 DEF d
    <3> HIDE DEF d1
    <3> QED
      BY <1>1, <3>1
  <2>6. d1 \in Seq(Records)
    BY <1>1, <2>4, RecordTexts
  <2> HIDE DEF d1
  <2> QED
    BY <1>3, <2>5, <2>6
<1>7. CASE \E field \in Accessed(t, texts) : other = [msg EXCEPT !.timestamp = field]
  <2>1. PICK field \in Accessed(t, texts) : other = [msg EXCEPT !.timestamp = field]
    BY <1>7
  <2>2. field \in StringFields
    BY <1>1, AccessedFields
  <2>3. other = [data |-> d, timestamp |-> field, unknown |-> u]
    BY <1>1, <2>1
  <2> QED
    BY <1>1, <2>2, <2>3, ResponseOf
<1> QED
  BY <1>2, <1>4, <1>5, <1>6, <1>7

(* The client takes a copy of what it parsed.                              *)
LEMMA ResponseCopied ==
  ASSUME NEW msg \in Responses
  PROVE  Res!MergeFrom(Res!New, msg).data = msg.data /\ Res!MergeFrom(Res!New, msg) \in Responses
<1> DEFINE d == msg.data
           u == msg.unknown
           t == Merged(Unset, msg.timestamp)
<1>1. d \in Seq(Records) /\ u \in Seq(AnyField) /\ t \in StringFields
  BY ResponsesAre, NewFields, MergedFields
<1>2. Res!New.data = <<>> /\ Res!New.timestamp = Unset /\ Res!New.unknown = <<>>
  BY NewResponse
<1>3. Res!MergeFrom(Res!New, msg) = [data |-> <<>> \o d, timestamp |-> t, unknown |-> <<>> \o u]
  BY <1>2, SameFieldsResponse, Zenon DEF Res!MergeFrom
<1> HIDE DEF d, u, t
<1>4. <<>> \o d = d /\ <<>> \o u = u
  BY <1>1
<1>5. Res!MergeFrom(Res!New, msg) = [data |-> d, timestamp |-> t, unknown |-> u]
  BY <1>3, <1>4, Zenon
<1> DEFINE m == Res!MergeFrom(Res!New, msg)
<1> HIDE DEF m
<1>6. m = [data |-> d, timestamp |-> t, unknown |-> u]
  BY <1>5 DEF m
<1>7. m.data = d /\ m \in Responses
  BY <1>1, <1>6, ResponseOf
<1> QED
  BY <1>7, Zenon DEF m, d

LEMMA NewCopied == Res!MergeFrom(Res!New, Res!New) = Res!New
<1>1. Res!New.data = <<>> /\ Res!New.timestamp = Unset /\ Res!New.unknown = <<>>
  BY NewResponse
<1>2. Res!Merged(Unset, Unset) = Unset
  BY SameFieldsResponse DEF Merged, Unset
<1>3. <<>> \o <<>> = <<>>
  OBVIOUS
<1> QED
  BY <1>1, <1>2, <1>3, NewResponse, Zenon DEF Res!MergeFrom

-----------------------------------------------------------------------------
(* The invariant.  What was sent reads as what was asked, if it parses at  *)
(* all; and the buffer of the client holds the rows that the statement     *)
(* gave, if it parses at all.                                              *)
Stages == {"idle", "prepared", "asked", "unpacked", "answered", "cut", "lost",
           "read", "read cut", "read nothing", "adapted", "closed"}

Arrived(msg, bytes) ==
  Req!Read(msg) = Req!Read(Req!TakeAll(Req!New, ReadFields(bytes).fields))

RequestInv ==
  /\ asked \in Requests /\ m_request \in Requests /\ sent \in Bytes
  /\ stage \in {"idle", "prepared"} => asked.unknown = <<>>
  /\ stage \in {"asked", "unpacked"} /\ Whole(sent) => Arrived(asked, sent)
  /\ stage = "unpacked" => Whole(sent) /\ Req!Read(m_request) = Req!Read(asked)

HasRows(bytes, result) ==
  \E time \in Bytes : bytes = RowBytes(result) \o WriteString(2, time)

ReplyInv ==
  /\ shown \in Responses /\ rows \in SeqOf(Rows, MaxRows)
  /\ stage = "answered" => HasRows(reply, rows)
  /\ stage = "cut" /\ Whole(reply) => HasRows(reply, rows)
  /\ stage = "lost" => reply = <<>>
  /\ RowsArrive

IInv == stage \in Stages /\ RequestInv /\ ReplyInv

LEMMA Texts ==
  /\ Statements \in SUBSET Bytes /\ Times \in SUBSET Bytes /\ Strange \in SUBSET Bytes
  /\ Rows \in SUBSET ThreeTexts
BY TextsAssumption DEF Bytes, ThreeTexts

LEMMA RowsAre ==
  ASSUME NEW result \in SeqOf(Rows, MaxRows)
  PROVE  result \in Seq(ThreeTexts) /\ DOMAIN result = 1..Len(result)
<1>1. PICK m \in 0..MaxRows : result \in [1..m -> Rows]
  BY DEF SeqOf
<1>2. m \in Nat
  BY MaxRowsAssumption
<1>3. result \in [1..m -> ThreeTexts]
  BY <1>1, Texts
<1> QED
  BY <1>2, <1>3

LEMMA NoRows == <<>> \in SeqOf(Rows, MaxRows)
<1>1. 0 \in 0..MaxRows
  BY MaxRowsAssumption
<1>2. <<>> \in [1..0 -> Rows]
  OBVIOUS
<1> QED
  BY <1>1, <1>2, Zenon DEF SeqOf

LEMMA AddedQuery ==
  ASSUME NEW text \in Bytes
  PROVE  /\ Req!add_query(Req!New, text) \in Requests
         /\ Req!add_query(Req!New, text).unknown = <<>>
<1> DEFINE q == Append(<<>>, text)
           msg == [query |-> q, timestamp |-> Unset, unknown |-> <<>>]
<1>1. Req!New = [query |-> <<>>, timestamp |-> Unset, unknown |-> <<>>]
  BY SameFieldsRequest DEF Req!New
<1>2. Req!add_query(Req!New, text) = msg
  BY <1>1 DEF Req!add_query
<1>3. q \in Seq(Bytes) /\ <<>> \in Seq(AnyField)
  OBVIOUS
<1> HIDE DEF q
<1>4. msg \in Requests /\ msg.unknown = <<>>
  BY <1>3, NewFields, RequestOf
<1> QED
  BY <1>2, <1>4, Zenon

LEMMA AskedIs ==
  ASSUME NEW text \in Bytes, NEW time \in Bytes
  PROVE  /\ Req!set_timestamp(Req!add_query(Req!New, text), time) \in Requests
         /\ Req!set_timestamp(Req!add_query(Req!New, text), time).unknown = <<>>
<1> DEFINE m == Req!add_query(Req!New, text)
           t == set(time)
           q == m.query
           msg == [query |-> q, timestamp |-> t, unknown |-> <<>>]
<1>1. m \in Requests /\ m.unknown = <<>> /\ t \in StringFields
  BY AddedQuery, NewFields
<1>2. Req!set(time) = t
  BY SameFieldsRequest
<1> HIDE DEF m, t
<1>3. m = [query |-> q, timestamp |-> m.timestamp, unknown |-> <<>>] /\ q \in Seq(Bytes)
  BY <1>1, RequestsAre
<1> HIDE DEF q
<1>4. Req!set_timestamp(m, time) = msg
  BY <1>2, <1>3 DEF Req!set_timestamp
<1>5. msg \in Requests /\ msg.unknown = <<>>
  <2>1. <<>> \in Seq(AnyField)
    OBVIOUS
  <2> QED
    BY <1>1, <1>3, <2>1, RequestOf
<1> QED
  BY <1>4, <1>5, Zenon DEF m

(* What is sent of a message without unknown fields arrives as it is.      *)
LEMMA SentArrives ==
  ASSUME NEW msg \in Requests, msg.unknown = <<>>
  PROVE  /\ Req!SerializeWithCachedSizes(msg) \in Bytes
         /\ Arrived(msg, Req!SerializeWithCachedSizes(msg))
BY RequestBytes, RequestIsRead, Zenon DEF Arrived

LEMMA RequestInit == Init => RequestInv
<1> SUFFICES ASSUME Init
             PROVE  RequestInv
  OBVIOUS
<1>1. asked = Req!New /\ sent = <<>> /\ m_request = Req!New /\ stage = "idle"
  BY DEF Init
<1> QED
  BY <1>1, NewRequest, NoBytes DEF RequestInv

LEMMA ReplyInit == Init => ReplyInv
<1> SUFFICES ASSUME Init
             PROVE  ReplyInv
  OBVIOUS
<1>1. rows = <<>> /\ shown = Res!New /\ stage = "idle"
  BY DEF Init
<1> QED
  BY <1>1, NewResponse, NoRows DEF ReplyInv, RowsArrive

-----------------------------------------------------------------------------
(* The requests.                                                           *)
LEMMA AskKeeps ==
  ASSUME RequestInv, Ask
  PROVE  RequestInv'
<1>1. PICK statement \in Statements, time \in Times :
        asked' = Req!set_timestamp(Req!add_query(Req!New, statement), time)
  BY DEF Ask
<1>2. statement \in Bytes /\ time \in Bytes
  BY Texts
<1>3. asked' \in Requests /\ asked'.unknown = <<>>
  BY <1>1, <1>2, AskedIs, Zenon
<1>4. sent' = Req!SerializeWithCachedSizes(asked') /\ stage' = "asked" /\ m_request' = m_request
  BY DEF Ask
<1>5. sent' \in Bytes /\ Arrived(asked', sent')
  BY <1>3, <1>4, SentArrives, Zenon
<1>6. m_request' \in Requests
  BY <1>4 DEF RequestInv
<1> QED
  BY <1>3, <1>4, <1>5, <1>6 DEF RequestInv, Arrived

LEMMA PrepareKeeps ==
  ASSUME RequestInv, Prepare
  PROVE  RequestInv'
<1>1. asked \in Requests /\ asked.unknown = <<>>
  BY DEF RequestInv, Prepare
<1>2. asked' \in Requests /\ asked'.unknown = <<>>
  <2>1. CASE asked' \in Req!Accesses(asked, Statements, Times)
    <3> DEFINE other == asked'
    <3>1. other \in Req!Accesses(asked, Statements, Times)
      BY <2>1
    <3> HIDE DEF other
    <3>2. other \in Requests /\ other.unknown = asked.unknown
      BY <1>1, <3>1, Texts, RequestAccesses
    <3> QED
      BY <1>1, <3>2 DEF other
  <2>2. CASE asked' \in {Req!Swap(asked, Req!add_query(Req!New, text))[1] : text \in Statements}
    <3>1. PICK text \in Statements : asked' = Req!Swap(asked, Req!add_query(Req!New, text))[1]
      BY <2>2
    <3> DEFINE other == Req!add_query(Req!New, text)
    <3>2. other \in Requests /\ other.unknown = <<>>
      BY Texts, AddedQuery
    <3> HIDE DEF other
    <3>3. Req!Swap(asked, other)[1] = other
      BY DEF Req!Swap
    <3> QED
      BY <3>1, <3>2, <3>3, Zenon DEF other
  <2> QED
    BY <2>1, <2>2 DEF Prepare
<1>3. sent' = sent /\ m_request' = m_request /\ stage' = "prepared"
  BY DEF Prepare
<1> QED
  BY <1>2, <1>3 DEF RequestInv

LEMMA AskOtherwiseKeeps ==
  ASSUME RequestInv, AskOtherwise
  PROVE  RequestInv'
<1>1. asked \in Requests /\ asked.unknown = <<>>
  BY DEF RequestInv, AskOtherwise
<1>2. PICK strange \in Strange :
        /\ sent' = Req!SerializeWithCachedSizes(asked) \o strange
        /\ asked' = IF strange = <<>> THEN asked ELSE Req!ParseFromArray(Req!New, sent').msg
  BY DEF AskOtherwise
<1> DEFINE ser == Req!SerializeWithCachedSizes(asked)
           bytes == sent'
<1>3. ser \in Bytes /\ Arrived(asked, ser) /\ strange \in Bytes
  BY <1>1, SentArrives, Texts
<1> HIDE DEF ser
<1>4. sent' = ser \o strange
  BY <1>2 DEF ser
<1>5. sent' \in Bytes
  BY <1>3, <1>4, JoinedBytes
<1> HIDE DEF bytes
<1>6. bytes \in Bytes /\ sent' = bytes
  BY <1>5 DEF bytes
<1>7. asked' \in Requests /\ Arrived(asked', bytes)
  <2>1. CASE strange = <<>>
    <3>1. ser \o <<>> = ser
      BY <1>3 DEF Bytes
    <3>2. bytes = ser
      BY <1>4, <1>6, <2>1, <3>1, Zenon
    <3>3. asked' = asked
      BY <1>2, <2>1
    <3> QED
      BY <1>1, <1>3, <3>2, <3>3, Zenon DEF Arrived
  <2>2. CASE strange # <<>>
    <3> DEFINE p == Req!ParseFromArray(Req!New, bytes).msg
    <3>1. asked' = p
      BY <1>2, <1>6, <2>2
    <3>2. p = Req!TakeAll(Req!Clear(Req!New), ReadFields(bytes).fields) /\ p \in Requests
      BY <1>6, NewRequest, RequestParsed
    <3> HIDE DEF p
    <3>3. p = Req!TakeAll(Req!New, ReadFields(bytes).fields)
      BY <3>2, NewIsClear, Zenon
    <3> QED
      BY <3>1, <3>2, <3>3, Zenon DEF Arrived
  <2> QED
    BY <2>1, <2>2
<1>8. stage' = "asked" /\ m_request' = m_request
  BY DEF AskOtherwise
<1> QED
  BY <1>6, <1>7, <1>8 DEF RequestInv, Arrived

LEMMA UnpackKeeps ==
  ASSUME RequestInv, Unpack
  PROVE  RequestInv'
<1> DEFINE parsed == Req!ParseFromArray(m_request, sent)
<1>1. /\ m_request \in Requests /\ asked \in Requests /\ sent \in Bytes
      /\ Whole(sent) => Arrived(asked, sent)
  BY DEF RequestInv, Unpack
<1>2. (parsed.ok <=> Whole(sent)) /\ parsed.msg \in Requests
  BY <1>1, RequestParsed
<1>3. Req!Read(parsed.msg) = Req!Read(Req!TakeAll(Req!New, ReadFields(sent).fields))
  BY <1>1, ParsedAlike
<1>4. /\ m_request' = parsed.msg /\ asked' = asked /\ sent' = sent
      /\ stage' = IF parsed.ok THEN "unpacked" ELSE "closed"
  BY Zenon DEF Unpack
<1> HIDE DEF parsed
<1>5. Whole(sent) => Req!Read(parsed.msg) = Req!Read(asked)
  BY <1>1, <1>3, Zenon DEF Arrived
<1>6. Whole(sent)' = Whole(sent) /\ Arrived(asked, sent)' = Arrived(asked, sent)
  BY <1>4 DEF Whole, Arrived
<1>7. Req!Read(m_request)' = Req!Read(parsed.msg) /\ Req!Read(asked)' = Req!Read(asked)
  BY <1>4 DEF Req!Read
<1>8. stage' = "unpacked" => Whole(sent)
  BY <1>2, <1>4
<1>9. stage' \notin {"idle", "prepared"}
  BY <1>4
<1> QED
  BY <1>1, <1>2, <1>4, <1>5, <1>6, <1>7, <1>8, <1>9 DEF RequestInv

LEMMA OthersKeepRequests ==
  ASSUME RequestInv,
         Respond \/ Cut \/ Lose \/ Read \/ Adapt \/ Continue \/ Reconnect
  PROVE  RequestInv'
<1>1. asked \in Requests /\ m_request \in Requests /\ sent \in Bytes
  BY DEF RequestInv
<1>2. \/ asked' = asked /\ sent' = sent
      \/ asked' = Req!New /\ sent' = <<>>
  BY DEF Respond, Cut, Lose, Read, Adapt, Continue, Reconnect, Finish
<1>3. m_request' = m_request \/ m_request' = Req!New
  BY DEF Respond, Cut, Lose, Read, Adapt, Continue, Reconnect
<1>4. stage' \in {"idle", "prepared"} => asked' = Req!New
  <2>1. CASE Read
    <3> DEFINE ok == Res!ParseFromArray(Res!New, reply).ok
    <3>1. stage' = CASE ~ok -> "closed"
                     [] ok /\ stage = "answered" -> "read"
                     [] ok /\ stage = "cut" -> "read cut"
                     [] OTHER -> "read nothing"
      BY <2>1, Zenon DEF Read
    <3> HIDE DEF ok
    <3> QED
      BY <3>1
  <2>2. CASE Respond \/ Cut \/ Lose \/ Adapt \/ Continue \/ Reconnect
    BY <2>2 DEF Respond, Cut, Lose, Adapt, Continue, Reconnect, Finish
  <2> QED
    BY <2>1, <2>2
<1>5. stage' \notin {"asked", "unpacked"}
  <2>1. CASE Read
    <3> DEFINE ok == Res!ParseFromArray(Res!New, reply).ok
    <3>1. stage' = CASE ~ok -> "closed"
                     [] ok /\ stage = "answered" -> "read"
                     [] ok /\ stage = "cut" -> "read cut"
                     [] OTHER -> "read nothing"
      BY <2>1, Zenon DEF Read
    <3> HIDE DEF ok
    <3> QED
      BY <3>1
  <2>2. CASE Respond \/ Cut \/ Lose \/ Adapt \/ Continue \/ Reconnect
    BY <2>2 DEF Respond, Cut, Lose, Adapt, Continue, Reconnect, Finish
  <2> QED
    BY <2>1, <2>2
<1>6. asked' \in Requests /\ m_request' \in Requests /\ sent' \in Bytes
  BY <1>1, <1>2, <1>3, NewRequest, NoBytes
<1>7. stage' \in {"idle", "prepared"} => asked'.unknown = <<>>
  BY <1>4, NewRequest
<1> QED
  BY <1>5, <1>6, <1>7 DEF RequestInv

-----------------------------------------------------------------------------
(* The replies.                                                            *)
LEMMA ReadReply ==
  ASSUME NEW result \in Seq(ThreeTexts), NEW bytes, HasRows(bytes, result)
  PROVE  LET parsed == Res!ParseFromArray(Res!New, bytes)
             copy == Res!MergeFrom(Res!New, parsed.msg)
         IN /\ parsed.ok
            /\ copy \in Responses
            /\ copy.data = [i \in 1..Len(result) |-> Record(result[i])]
<1> DEFINE parsed == Res!ParseFromArray(Res!New, bytes)
           copy == Res!MergeFrom(Res!New, parsed.msg)
<1>1. PICK time \in Bytes : bytes = RowBytes(result) \o WriteString(2, time)
  BY DEF HasRows
<1> DEFINE answer == Answer(result, time)
<1>2. answer \in Responses
  BY AnswerIs
<1>3. answer.data = [i \in 1..Len(result) |-> Record(result[i])]
  BY DEF Answer
<1>4. parsed = [msg |-> answer, ok |-> TRUE]
  BY <1>1, ReplyIsRead, Zenon
<1> HIDE DEF parsed, answer
<1>5. parsed.msg = answer /\ parsed.ok
  BY <1>4
<1>6. copy = Res!MergeFrom(Res!New, answer)
  BY <1>5, Zenon
<1>7. copy \in Responses /\ copy.data = answer.data
  BY <1>2, <1>6, ResponseCopied, Zenon
<1> QED
  BY <1>3, <1>5, <1>7, Zenon DEF parsed

LEMMA ReplyOk ==
  ASSUME NEW bytes, Res!ParseFromArray(Res!New, bytes).ok
  PROVE  Whole(bytes)
<1> DEFINE c == Res!Clear(Res!New)
           parsed == Res!MergePartialFromCodedStream(c, bytes)
           ok == parsed.ok /\ parsed.entire /\ Res!IsInitialized(parsed.msg)
           taken == Res!TakeAll(c, ReadFields(bytes).fields)
           whole == ReadFields(bytes).entire
           both == taken.ok /\ ReadFields(bytes).ok
           p == Res!ParseFromArray(Res!New, bytes)
<1>1. parsed = [msg |-> taken.msg, ok |-> both, entire |-> whole]
  BY SameReading, Zenon DEF Res!MergePartialFromCodedStream
<1>2. p = [msg |-> parsed.msg, ok |-> ok]
  BY Zenon DEF Res!ParseFromArray
<1>3. p.ok
  OBVIOUS
<1> HIDE DEF p, ok
<1>4. ok
  <2>1. p.ok = ok
    BY <1>2
  <2> QED
    BY <1>3, <2>1
<1> HIDE DEF taken, whole, both
<1>5. parsed.entire = whole
  <2> HIDE DEF parsed
  <2> QED
    BY <1>1
<1>6. parsed.entire
  <2> HIDE DEF parsed
  <2> QED
    BY <1>4 DEF ok
<1>7. whole
  BY <1>5, <1>6, Zenon
<1> QED
  BY <1>7 DEF whole, Whole

LEMMA RespondGives ==
  ASSUME ReplyInv, Respond
  PROVE  ReplyInv'
<1>1. rows' \in SeqOf(Rows, MaxRows) /\ stage' = "answered" /\ shown' = shown
  BY DEF Respond
<1>2. PICK time \in Times : reply' = Res!SerializeWithCachedSizes(Response(rows', time))
  BY DEF Respond
<1> DEFINE result == rows'
<1>3. result \in Seq(ThreeTexts) /\ time \in Bytes
  BY <1>1, RowsAre, Texts
<1>4. reply' = Res!SerializeWithCachedSizes(Response(result, time))
  BY <1>2
<1> HIDE DEF result
<1>5. reply' = RowBytes(result) \o WriteString(2, time)
  BY <1>3, <1>4, ReplyBytes, Zenon
<1>6. HasRows(reply', rows')
  BY <1>3, <1>5, Zenon DEF HasRows, result
<1> QED
  BY <1>1, <1>6 DEF ReplyInv, HasRows, RowsArrive

LEMMA CutKeepsRows ==
  ASSUME ReplyInv, Cut
  PROVE  ReplyInv'
<1>1. stage' = "cut" /\ shown' = shown /\ rows' = rows
  BY DEF Cut
<1>2. rows \in Seq(ThreeTexts) /\ HasRows(reply, rows)
  BY RowsAre DEF ReplyInv, Cut
<1>3. PICK time \in Bytes : reply = RowBytes(rows) \o WriteString(2, time)
  BY <1>2 DEF HasRows
<1>4. PICK k \in 0..(Len(reply) - 1) : reply' = Torn(reply, k)
  BY DEF Cut, Torn, Zeros
<1> DEFINE whole == RowBytes(rows) \o WriteString(2, time)
<1>5. k \in 0..(Len(whole) - 1) /\ reply' = Torn(whole, k)
  BY <1>3, <1>4
<1>6. ASSUME Whole(reply')
      PROVE  HasRows(reply', rows)
  <2>1. Whole(Torn(whole, k))
    BY <1>5, <1>6
  <2>2. \E other \in Bytes : Torn(whole, k) = RowBytes(rows) \o WriteString(2, other)
    BY <1>2, <1>5, <2>1, ReplyTorn
  <2> HIDE DEF whole
  <2> QED
    BY <1>5, <2>2, Zenon DEF HasRows
<1>7. Whole(reply)' = Whole(reply') /\ HasRows(reply, rows)' = HasRows(reply', rows)
  BY <1>1 DEF Whole, HasRows
<1> QED
  BY <1>1, <1>6, <1>7 DEF ReplyInv, RowsArrive

LEMMA ReadShows ==
  ASSUME ReplyInv, Read
  PROVE  ReplyInv'
<1> DEFINE parsed == Res!ParseFromArray(Res!New, reply)
           copy == Res!MergeFrom(Res!New, parsed.msg)
           given == [i \in 1..Len(rows) |-> Record(rows[i])]
<1>1. /\ shown \in Responses /\ rows \in SeqOf(Rows, MaxRows)
      /\ stage \in {"answered", "cut", "lost"}
      /\ stage = "answered" => HasRows(reply, rows)
      /\ stage = "cut" /\ Whole(reply) => HasRows(reply, rows)
      /\ stage = "lost" => reply = <<>>
  BY DEF ReplyInv, Read
<1>2. rows \in Seq(ThreeTexts) /\ DOMAIN rows = 1..Len(rows)
  BY <1>1, RowsAre
<1>3. HasRows(reply, rows) => parsed.ok /\ copy \in Responses /\ copy.data = given
  BY <1>2, ReadReply
<1>4. parsed.ok => Whole(reply)
  BY ReplyOk
<1>5. stage = "lost" => parsed.ok /\ copy = Res!New
  <2>1. ASSUME stage = "lost"
        PROVE  parsed.ok /\ copy = Res!New
    <3>1. parsed = [msg |-> Res!New, ok |-> TRUE]
      BY <1>1, <2>1, NothingIsParsed, Zenon
    <3> HIDE DEF parsed
    <3>2. parsed.msg = Res!New /\ parsed.ok
      BY <3>1
    <3> QED
      BY <3>2, NewCopied, Zenon
  <2> QED
    BY <2>1
<1> DEFINE ok == parsed.ok
<1>6. /\ shown' = IF ok THEN copy ELSE shown
      /\ stage' = CASE ~ok -> "closed"
                    [] ok /\ stage = "answered" -> "read"
                    [] ok /\ stage = "cut" -> "read cut"
                    [] OTHER -> "read nothing"
      /\ rows' = rows
  BY Zenon DEF Read
<1>7. [i \in DOMAIN rows |-> Record(rows[i])]' = given
  BY <1>2, <1>6
<1> HIDE DEF copy, given
<1>8. (ok => Whole(reply)) /\ (stage = "lost" => ok)
  BY <1>4, <1>5
<1>9. HasRows(reply, rows) => ok /\ copy \in Responses /\ copy.data = given
  BY <1>3
<1>10. stage = "lost" => copy = Res!New
  BY <1>5
<1> HIDE DEF ok, parsed
<1>11. /\ ok /\ stage \in {"answered", "cut"} => copy \in Responses /\ copy.data = given
       /\ ok /\ stage = "lost" => copy \in Responses
  BY <1>1, <1>8, <1>9, <1>10, NewResponse
<1>12. CASE ok
  <2>1. shown' = copy /\ copy \in Responses
    BY <1>1, <1>6, <1>11, <1>12
  <2>2. /\ stage = "answered" => stage' = "read"
        /\ stage = "cut" => stage' = "read cut"
        /\ stage = "lost" => stage' = "read nothing"
    BY <1>6, <1>12
  <2>3. stage' \in {"read", "read cut"} => stage \in {"answered", "cut"}
    BY <1>1, <2>2
  <2>4. stage' \in {"read", "read cut"} => shown'.data = given
    BY <1>11, <1>12, <2>1, <2>3
  <2>5. stage' = "read nothing" => shown' = Res!New
    <3>1. stage' = "read nothing" => stage = "lost"
      BY <1>1, <2>2
    <3> QED
      BY <1>10, <2>1, <3>1
  <2>6. RowsArrive'
    BY <1>7, <2>4, <2>5 DEF RowsArrive
  <2>7. stage' \notin {"answered", "cut", "lost"}
    BY <1>1, <2>2
  <2> QED
    BY <1>1, <1>6, <2>1, <2>6, <2>7 DEF ReplyInv
<1>13. CASE ~ok
  <2>1. shown' = shown /\ stage' = "closed"
    BY <1>6, <1>13
  <2> QED
    BY <1>1, <1>6, <2>1 DEF ReplyInv, RowsArrive
<1> QED
  BY <1>12, <1>13

LEMMA AdaptKeeps ==
  ASSUME ReplyInv, Adapt
  PROVE  ReplyInv'
<1>1. shown \in Responses /\ rows \in SeqOf(Rows, MaxRows)
  BY DEF ReplyInv
<1>2. stage' = "adapted" /\ rows' = rows
  BY DEF Adapt
<1>3. shown' \in Responses
  <2>1. CASE shown' \in Res!Accesses(shown, Times)
    <3> DEFINE other == shown'
    <3>1. other \in Res!Accesses(shown, Times)
      BY <2>1
    <3> HIDE DEF other
    <3>2. other \in Responses
      BY <1>1, <3>1, Texts, ResponseAccesses
    <3> QED
      BY <3>2 DEF other
  <2>2. CASE shown' \in {Res!Swap(shown, Response(<<>>, time))[1] : time \in Times}
    <3>1. PICK time \in Times : shown' = Res!Swap(shown, Response(<<>>, time))[1]
      BY <2>2
    <3> DEFINE other == Response(<<>>, time)
    <3>2. other \in Responses
      <4>1. <<>> \in Seq(ThreeTexts) /\ time \in Bytes
        BY Texts
      <4> QED
        BY <4>1, AnswerIs, ResponseIs
    <3> HIDE DEF other
    <3>3. Res!Swap(shown, other)[1] = other
      BY DEF Res!Swap
    <3> QED
      BY <3>1, <3>2, <3>3, Zenon DEF other
  <2> QED
    BY <2>1, <2>2 DEF Adapt
<1> QED
  BY <1>1, <1>2, <1>3 DEF ReplyInv, RowsArrive

LEMMA OthersKeepReplies ==
  ASSUME ReplyInv,
         Ask \/ Prepare \/ AskOtherwise \/ Unpack \/ Lose \/ Continue \/ Reconnect
  PROVE  ReplyInv'
<1>1. shown \in Responses /\ rows \in SeqOf(Rows, MaxRows)
  BY DEF ReplyInv
<1>2. CASE Ask \/ Prepare \/ AskOtherwise \/ Unpack
  <2>1. shown' = shown /\ rows' = rows
    BY <1>2 DEF Ask, Prepare, AskOtherwise, Unpack
  <2>2. stage' \in {"asked", "prepared", "unpacked", "closed"}
    <3>1. CASE Unpack
      <4> DEFINE ok == Req!ParseFromArray(m_request, sent).ok
      <4>1. stage' = IF ok THEN "unpacked" ELSE "closed"
        BY <3>1, Zenon DEF Unpack
      <4> HIDE DEF ok
      <4> QED
        BY <4>1
    <3>2. CASE Ask \/ Prepare \/ AskOtherwise
      BY <3>2 DEF Ask, Prepare, AskOtherwise
    <3> QED
      BY <1>2, <3>1, <3>2
  <2> QED
    BY <1>1, <2>1, <2>2 DEF ReplyInv, RowsArrive
<1>3. CASE Lose
  <2>1. shown' = shown /\ rows' = rows /\ stage' = "lost" /\ reply' = <<>>
    BY <1>3 DEF Lose
  <2> QED
    BY <1>1, <2>1 DEF ReplyInv, RowsArrive
<1>4. CASE Continue \/ Reconnect
  <2>1. rows' = <<>> /\ shown' = Res!New /\ stage' = "idle"
    BY <1>4 DEF Continue, Reconnect, Finish
  <2> QED
    BY <2>1, NewResponse, NoRows DEF ReplyInv, RowsArrive
<1> QED
  BY <1>2, <1>3, <1>4

-----------------------------------------------------------------------------
LEMMA StagesKept ==
  ASSUME stage \in Stages, Next
  PROVE  stage' \in Stages
<1>1. CASE Read
  <2> DEFINE ok == Res!ParseFromArray(Res!New, reply).ok
  <2>1. stage' = CASE ~ok -> "closed"
                   [] ok /\ stage = "answered" -> "read"
                   [] ok /\ stage = "cut" -> "read cut"
                   [] OTHER -> "read nothing"
    BY <1>1, Zenon DEF Read
  <2> HIDE DEF ok
  <2> QED
    BY <2>1 DEF Stages
<1>2. CASE Unpack
  <2> DEFINE ok == Req!ParseFromArray(m_request, sent).ok
  <2>1. stage' = IF ok THEN "unpacked" ELSE "closed"
    BY <1>2, Zenon DEF Unpack
  <2> HIDE DEF ok
  <2> QED
    BY <2>1 DEF Stages
<1>3. CASE Ask \/ Prepare \/ AskOtherwise
  BY <1>3 DEF Stages, Ask, Prepare, AskOtherwise
<1>4. CASE Respond \/ Cut \/ Lose \/ Adapt \/ Continue \/ Reconnect
  BY <1>4 DEF Stages, Respond, Cut, Lose, Adapt, Continue, Reconnect, Finish
<1> QED
  BY <1>1, <1>2, <1>3, <1>4 DEF Next

LEMMA Inductive ==
  /\ Init => IInv
  /\ IInv /\ [Next]_vars => IInv'
<1>1. Init => IInv
  BY RequestInit, ReplyInit DEF Init, IInv, Stages
<1>2. ASSUME IInv, Next
      PROVE  IInv'
  <2>1. stage \in Stages /\ RequestInv /\ ReplyInv
    BY <1>2 DEF IInv
  <2>2. RequestInv'
    BY <1>2, <2>1, AskKeeps, PrepareKeeps, AskOtherwiseKeeps, UnpackKeeps, OthersKeepRequests
    DEF Next
  <2>3. ReplyInv'
    BY <1>2, <2>1, RespondGives, CutKeepsRows, ReadShows, AdaptKeeps, OthersKeepReplies
    DEF Next
  <2>4. (stage \in Stages)'
    BY <1>2, <2>1, StagesKept DEF Stages
  <2> QED
    BY <2>2, <2>3, <2>4 DEF IInv
<1>3. ASSUME IInv, UNCHANGED vars
      PROVE  IInv'
  BY <1>3
  DEF vars, IInv, RequestInv, ReplyInv, RowsArrive, Stages, Requests, Responses, HasRows,
      Whole, Arrived
<1> QED
  BY <1>1, <1>2, <1>3

LEMMA Invariant == Spec => []IInv
BY Inductive, PTL DEF Spec

(* Every field that is not set reads as the empty string, in the messages  *)
(* of clients that call any accessors on them as in those that were parsed *)
(* over an older one: nobody writes into the empty string that they share. *)
THEOREM TypeCorrect == Spec => []TypeOK
<1>1. IInv => TypeOK
  BY RequestsAre, ResponsesAre DEF IInv, RequestInv, ReplyInv, TypeOK, Stages
<1> QED
  BY <1>1, Invariant, PTL

(* The session executes what this request asks, whatever the message that  *)
(* it parses into held before and whatever stands behind the request.      *)
THEOREM RequestsArrive == Spec => []RequestArrives
<1>1. IInv => RequestArrives
  BY DEF IInv, RequestInv, RequestArrives
<1> QED
  BY <1>1, Invariant, PTL

(* What the client takes for an answer has all the rows that the statement *)
(* gave, wherever the reply was cut, for any number of rows.               *)
THEOREM RepliesArrive == Spec => []RowsArrive
<1>1. IInv => RowsArrive
  BY DEF IInv, ReplyInv
<1> QED
  BY <1>1, Invariant, PTL

(* The buffer that pack allocates by ByteSize holds what is serialised.    *)
THEOREM SizesAreRight == Spec => []SizeIsRight
<1>1. IInv => SizeIsRight
  BY RequestSize, ResponseSize DEF IInv, RequestInv, ReplyInv, SizeIsRight
<1> QED
  BY <1>1, Invariant, PTL

(* Two requests in one buffer parse as their merge, and a copy over a used *)
(* message is the message it is a copy of.                                 *)
THEOREM BuffersMerge == Spec => []ConcatenationMerges
<1>1. IInv => ConcatenationMerges
  <2> SUFFICES ASSUME IInv, stage = "unpacked"
               PROVE  /\ Req!Read(Req!ParseFromArray(Req!New, sent \o sent).msg)
                           = Req!Read(Req!MergeFrom(asked, asked))
                      /\ Req!Read(Req!CopyFrom(m_request, asked)) = Req!Read(asked)
    BY DEF ConcatenationMerges
  <2>1. /\ asked \in Requests /\ m_request \in Requests /\ sent \in Bytes
        /\ Whole(sent) /\ Arrived(asked, sent)
    BY DEF IInv, RequestInv
  <2> QED
    BY <2>1, TwiceIsMerge, CopyReads, Zenon DEF Arrived
<1> QED
  BY <1>1, Invariant, PTL

-----------------------------------------------------------------------------
(* The tables that are printed.                                            *)
Tab(lines, line, headers, widths, i, j, table_width) ==
  [lines |-> lines, line |-> line, headers |-> headers, widths |-> widths, i |-> i, j |-> j,
   table_width |-> table_width]

W == COLUMN_WIDTH

Pitch == W + 1

LEMMA WidthIs == W \in Nat /\ W >= 4 /\ Pitch \in Nat /\ Pitch = W + 1
BY ColumnWidthAssumption DEF W, Pitch

(* A table of which one field is another.                                  *)
LEMMA SetLines ==
  ASSUME NEW l, NEW c, NEW h, NEW w, NEW i, NEW j, NEW t, NEW new
  PROVE  [Tab(l, c, h, w, i, j, t) EXCEPT !.lines = new] = Tab(new, c, h, w, i, j, t)
BY DEF Tab

LEMMA SetLine ==
  ASSUME NEW l, NEW c, NEW h, NEW w, NEW i, NEW j, NEW t, NEW new
  PROVE  [Tab(l, c, h, w, i, j, t) EXCEPT !.line = new] = Tab(l, new, h, w, i, j, t)
BY DEF Tab

LEMMA SetHeaders ==
  ASSUME NEW l, NEW c, NEW h, NEW w, NEW i, NEW j, NEW t, NEW new
  PROVE  [Tab(l, c, h, w, i, j, t) EXCEPT !.headers = new] = Tab(l, c, new, w, i, j, t)
BY DEF Tab

LEMMA SetWidths ==
  ASSUME NEW l, NEW c, NEW h, NEW w, NEW i, NEW j, NEW t, NEW new
  PROVE  [Tab(l, c, h, w, i, j, t) EXCEPT !.widths = new] = Tab(l, c, h, new, i, j, t)
BY DEF Tab

LEMMA SetI ==
  ASSUME NEW l, NEW c, NEW h, NEW w, NEW i, NEW j, NEW t, NEW new
  PROVE  [Tab(l, c, h, w, i, j, t) EXCEPT !.i = new] = Tab(l, c, h, w, new, j, t)
BY DEF Tab

LEMMA SetJ ==
  ASSUME NEW l, NEW c, NEW h, NEW w, NEW i, NEW j, NEW t, NEW new
  PROVE  [Tab(l, c, h, w, i, j, t) EXCEPT !.j = new] = Tab(l, c, h, w, i, new, t)
BY DEF Tab

LEMMA SetWidth ==
  ASSUME NEW l, NEW c, NEW h, NEW w, NEW i, NEW j, NEW t, NEW new
  PROVE  [Tab(l, c, h, w, i, j, t) EXCEPT !.table_width = new] = Tab(l, c, h, w, i, j, new)
BY DEF Tab

LEMMA TabFields ==
  ASSUME NEW l, NEW c, NEW h, NEW w, NEW i, NEW j, NEW t
  PROVE  /\ Tab(l, c, h, w, i, j, t).lines = l /\ Tab(l, c, h, w, i, j, t).line = c
         /\ Tab(l, c, h, w, i, j, t).headers = h /\ Tab(l, c, h, w, i, j, t).widths = w
         /\ Tab(l, c, h, w, i, j, t).i = i /\ Tab(l, c, h, w, i, j, t).j = j
         /\ Tab(l, c, h, w, i, j, t).table_width = t
BY DEF Tab

IsLonger(m, l, line) ==
  /\ m \in Seq(Bytes) /\ Len(m) = Len(l) + 1 /\ Len(l) \in Nat
  /\ \A k \in 1..Len(l) : m[k] = l[k]
  /\ m[Len(l) + 1] = line

LEMMA OneLineMore ==
  ASSUME NEW l \in Seq(Bytes), NEW line \in Bytes
  PROVE  IsLonger(Append(l, line), l, line)
<1> DEFINE S == Bytes
<1> HIDE DEF S
<1>1. l \in Seq(S) /\ line \in S
  BY DEF S
<1>2. /\ Append(l, line) \in Seq(S) /\ Len(Append(l, line)) = Len(l) + 1 /\ Len(l) \in Nat
      /\ \A k \in 1..Len(l) : Append(l, line)[k] = l[k]
      /\ Append(l, line)[Len(l) + 1] = line
  BY <1>1
<1> QED
  BY <1>2, Zenon DEF IsLonger, S

LEMMA PutIs ==
  ASSUME NEW l, NEW c, NEW h, NEW w, NEW i, NEW j, NEW t, NEW text
  PROVE  Put(Tab(l, c, h, w, i, j, t), text) = Tab(l, c \o text, h, w, i, j, t)
<1> DEFINE tp == Tab(l, c, h, w, i, j, t)
           new == tp.line \o text
<1>1. tp.line = c
  BY TabFields
<1>2. Put(tp, text) = [tp EXCEPT !.line = new]
  BY Zenon DEF Put
<1>3. new = c \o text
  BY <1>1, Zenon
<1> HIDE DEF new
<1>4. [tp EXCEPT !.line = new] = Tab(l, new, h, w, i, j, t)
  BY SetLine
<1> QED
  BY <1>2, <1>3, <1>4, Zenon

LEMMA EndLineIs ==
  ASSUME NEW l, NEW c, NEW h, NEW w, NEW i, NEW j, NEW t
  PROVE  EndLine(Tab(l, c, h, w, i, j, t)) = Tab(Append(l, c), <<>>, h, w, i, j, t)
<1> DEFINE tp == Tab(l, c, h, w, i, j, t)
           ended == Append(tp.lines, tp.line)
           nothing == <<>>
<1>1. tp.lines = l /\ tp.line = c
  BY TabFields
<1>2. EndLine(tp) = [tp EXCEPT !.lines = ended, !.line = nothing]
  BY Zenon DEF EndLine
<1>3. ended = Append(l, c)
  BY <1>1, Zenon
<1> HIDE DEF ended, nothing
<1>4. [tp EXCEPT !.lines = ended] = Tab(ended, c, h, w, i, j, t)
  BY SetLines
<1>5. [Tab(ended, c, h, w, i, j, t) EXCEPT !.line = nothing] = Tab(ended, nothing, h, w, i, j, t)
  BY SetLine
<1> HIDE DEF tp
<1>6. [tp EXCEPT !.lines = ended, !.line = nothing] = [[tp EXCEPT !.lines = ended] EXCEPT !.line = nothing]
  OBVIOUS
<1> QED
  BY <1>2, <1>3, <1>4, <1>5, <1>6, Zenon DEF tp, nothing

LEMMA ProductsAre ==
  ASSUME NEW n \in Nat
  PROVE  n * Pitch \in Nat /\ (n + 1) * Pitch = n * Pitch + Pitch
<1>1. Pitch \in Nat
  BY WidthIs
<1>2. n * Pitch \in Nat
  BY <1>1
<1>3. (n + 1) * Pitch = n * Pitch + Pitch
  BY <1>1
<1> QED
  BY <1>2, <1>3, Zenon

(* A text in its column, and a line of dashes.                             *)
LEMMA setwIs ==
  ASSUME NEW text \in Bytes
  PROVE  /\ setw(W, text) \in Bytes
         /\ Len(text) <= W => Len(setw(W, text)) = W
         /\ Len(setw(W, text)) \in Nat
<1> DEFINE k == W - Len(text)
           blanks == [n \in 1..k |-> Space]
<1>1. Len(text) \in Nat /\ W \in Nat /\ k \in Int
  BY WidthIs DEF Bytes
<1>2. setw(W, text) = blanks \o text
  BY DEF setw
<1>3. CASE k >= 0
  <2>1. k \in Nat
    BY <1>1, <1>3
  <2>2. Len(text) + k = W
    BY <1>1
  <2> HIDE DEF k
  <2>3. blanks \in Bytes /\ Len(blanks) = k
    BY <2>1 DEF Bytes, Space
  <2> HIDE DEF blanks
  <2>4. blanks \o text \in Bytes /\ Len(blanks \o text) = k + Len(text)
    BY <2>3 DEF Bytes
  <2> QED
    BY <1>1, <1>2, <2>1, <2>2, <2>4
<1>4. CASE k < 0
  <2>1. 1..k = {}
    BY <1>1, <1>4
  <2> HIDE DEF k
  <2>2. blanks = <<>>
    BY <2>1
  <2> HIDE DEF blanks
  <2>3. <<>> \o text = text
    BY DEF Bytes
  <2>4. setw(W, text) = text
    BY <1>2, <2>2, <2>3, Zenon
  <2>5. ~(Len(text) <= W)
    BY <1>1, <1>4 DEF k
  <2> QED
    BY <1>1, <2>4, <2>5
<1> QED
  BY <1>1, <1>3, <1>4

LEMMA substrIs ==
  ASSUME NEW S, NEW text \in Seq(S), NEW n \in Nat
  PROVE  /\ substr(text, n) \in Seq(S)
         /\ Len(substr(text, n)) = IF Len(text) < n THEN Len(text) ELSE n
         /\ \A k \in 1..Len(substr(text, n)) : substr(text, n)[k] = text[k]
<1> DEFINE m == IF Len(text) < n THEN Len(text) ELSE n
<1>1. m \in 0..Len(text) /\ Len(text) \in Nat
  OBVIOUS
<1>2. substr(text, n) = SubSeq(text, 1, m)
  BY DEF substr
<1> HIDE DEF m
<1>3. /\ SubSeq(text, 1, m) \in Seq(S) /\ Len(SubSeq(text, 1, m)) = m
      /\ \A k \in 1..m : SubSeq(text, 1, m)[k] = text[k]
  BY <1>1
<1> QED
  BY <1>2, <1>3, Zenon DEF m

LEMMA DashesAre ==
  ASSUME NEW t \in Nat \ {0}
  PROVE  LET rule == <<Plus>> \o [n \in 1..(t - 1) |-> Dash] \o <<Plus>>
         IN rule \in Bytes /\ Len(rule) = t + 1
<1> DEFINE k == t - 1
           dashes == [n \in 1..k |-> Dash]
           a == <<Plus>>
<1>1. k \in Nat /\ k + 1 = t
  OBVIOUS
<1> HIDE DEF k
<1>2. dashes \in Bytes /\ Len(dashes) = k
  BY <1>1 DEF Bytes, Dash
<1>3. a \in Bytes /\ Len(a) = 1
  BY DEF Bytes, Plus
<1> HIDE DEF a, dashes
<1>4. a \o dashes \in Bytes /\ Len(a \o dashes) = 1 + k
  <2>1. a \in Seq(Nat) /\ dashes \in Seq(Nat)
    BY <1>2, <1>3 DEF Bytes
  <2>2. a \o dashes \in Seq(Nat) /\ Len(a \o dashes) = Len(a) + Len(dashes)
    BY <2>1
  <2> QED
    BY <1>2, <1>3, <2>2, Zenon DEF Bytes
<1> DEFINE b == a \o dashes
<1> HIDE DEF b
<1>5. b \in Bytes /\ Len(b) = 1 + k
  BY <1>4 DEF b
<1>6. b \o a \in Bytes /\ Len(b \o a) = (1 + k) + 1
  <2>1. a \in Seq(Nat) /\ b \in Seq(Nat)
    BY <1>3, <1>5 DEF Bytes
  <2>2. b \o a \in Seq(Nat) /\ Len(b \o a) = Len(b) + Len(a)
    BY <2>1
  <2> QED
    BY <1>3, <1>5, <2>2, Zenon DEF Bytes
<1>7. (1 + k) + 1 = t + 1
  BY <1>1
<1> QED
  BY <1>6, <1>7, Zenon DEF b, a, dashes, k

(* A rule is as long as the table is wide, and one.                        *)
IsRuled(rule, l, h, w, i, j, t) ==
  /\ Len(rule) = t + 1
  /\ PrintHorizontalLine(Tab(l, <<>>, h, w, i, j, t)) = Tab(Append(l, rule), <<>>, h, w, i, j, t)

LEMMA RuleIs ==
  ASSUME NEW l \in Seq(Bytes), NEW h \in Seq(Bytes), NEW w \in Seq(Nat), NEW i \in Nat,
         NEW j \in Nat, NEW t \in Nat \ {0}
  PROVE  \E rule \in Bytes : IsRuled(rule, l, h, w, i, j, t)
<1> DEFINE rule == <<Plus>> \o [n \in 1..(t - 1) |-> Dash] \o <<Plus>>
           tp == Tab(l, <<>>, h, w, i, j, t)
<1>1. rule \in Bytes /\ Len(rule) = t + 1
  BY DashesAre
<1>2. tp.table_width = t
  BY DEF Tab
<1>3. PrintHorizontalLine(tp) = EndLine(Put(tp, rule))
  BY <1>2, Zenon DEF PrintHorizontalLine
<1> HIDE DEF rule
<1>4. <<>> \o rule = rule
  BY <1>1 DEF Bytes
<1>5. Put(tp, rule) = Tab(l, <<>> \o rule, h, w, i, j, t)
  <2> DEFINE nothing == <<>>
  <2> HIDE DEF nothing
  <2>1. Put(Tab(l, nothing, h, w, i, j, t), rule) = Tab(l, nothing \o rule, h, w, i, j, t)
    BY PutIs
  <2> QED
    BY <2>1, Zenon DEF nothing
<1>6. EndLine(Tab(l, rule, h, w, i, j, t)) = Tab(Append(l, rule), <<>>, h, w, i, j, t)
  BY EndLineIs
<1>7. PrintHorizontalLine(tp) = Tab(Append(l, rule), <<>>, h, w, i, j, t)
  BY <1>3, <1>4, <1>5, <1>6, Zenon
<1> QED
  BY <1>1, <1>7, Zenon DEF IsRuled

(* What a cell puts on the line, and what becomes of the line.             *)
IsCell(line, n, l, c, h, w, i, j, t, text) ==
  /\ Len(text) <= W => Len(line) = Len(c) + Pitch + (IF j = 0 THEN 1 ELSE 0)
  /\ PrintCell(Tab(l, c, h, w, i, j, t), text)
       = IF j = n - 1 THEN Tab(Append(l, line), <<>>, h, w, i + 1, 0, t)
         ELSE Tab(l, line, h, w, i, j + 1, t)

LEMMA CellIs ==
  ASSUME NEW n \in Nat \ {0}, NEW l \in Seq(Bytes), NEW c \in Bytes, NEW h \in Seq(Bytes),
         NEW w \in Seq(Nat), NEW i \in Nat, NEW j \in 0..(n - 1), NEW t \in Nat,
         NEW text \in Bytes,
         Len(h) = n, Len(w) = n, \A k \in 1..n : w[k] = W
  PROVE  \E line \in Bytes : IsCell(line, n, l, c, h, w, i, j, t, text)
<1> DEFINE tp == Tab(l, c, h, w, i, j, t)
           bar == <<Bar>>
           nothing == <<>>
           left == IF j = 0 THEN bar ELSE nothing
           middle == setw(W, text)
           cell == left \o middle \o bar
           line == c \o cell
           put == Tab(l, line, h, w, i, j, t)
           ended == Tab(Append(l, line), nothing, h, w, i, j, t)
           next == i + 1
           back == 0
           onward == j + 1
<1>1. bar \in Bytes /\ Len(bar) = 1 /\ nothing \in Bytes /\ Len(nothing) = 0
  BY DEF Bar, Bytes
<1>2. left \in Bytes /\ Len(left) = IF j = 0 THEN 1 ELSE 0
  <2> HIDE DEF bar, nothing
  <2> QED
    BY <1>1
<1>3. middle \in Bytes /\ (Len(text) <= W => Len(middle) = W)
  BY setwIs
<1> HIDE DEF left, middle, bar, nothing
<1>4. cell \in Bytes /\ Len(cell) = Len(left) + Len(middle) + 1
  <2> DEFINE both == left \o middle
  <2>1. both \in Bytes /\ Len(both) = Len(left) + Len(middle)
    BY <1>2, <1>3, JoinedBytes, Zenon
  <2>2. both \o bar \in Bytes /\ Len(both \o bar) = Len(both) + 1
    <3> HIDE DEF both
    <3>1. both \o bar \in Bytes /\ Len(both \o bar) = Len(both) + Len(bar)
      BY <1>1, <2>1, JoinedBytes
    <3> QED
      BY <1>1, <3>1, Zenon
  <2> QED
    BY <2>1, <2>2, Zenon
<1> HIDE DEF cell
<1>5. line \in Bytes /\ Len(line) = Len(c) + Len(cell)
  BY <1>4, JoinedBytes, Zenon
<1> HIDE DEF line
<1>6. Len(text) <= W => Len(line) = Len(c) + Pitch + (IF j = 0 THEN 1 ELSE 0)
  <2>1. /\ Len(c) \in Nat /\ W \in Nat /\ Pitch = W + 1
        /\ Len(text) \in Nat /\ Len(middle) \in Nat /\ Len(left) \in Nat
    BY <1>2, <1>3, WidthIs DEF Bytes
  <2>2. Len(line) = Len(c) + (Len(left) + Len(middle) + 1)
    BY <1>4, <1>5, Zenon
  <2> SUFFICES ASSUME Len(text) <= W
               PROVE  Len(line) = Len(c) + Pitch + (IF j = 0 THEN 1 ELSE 0)
    OBVIOUS
  <2>3. Len(middle) = W
    BY <1>3
  <2> DEFINE x == Len(left)
             y == Len(middle)
             z == Len(line)
             u == Len(c)
  <2>4. x = (IF j = 0 THEN 1 ELSE 0) /\ y = W /\ z = u + (x + y + 1)
    BY <1>2, <2>2, <2>3, Zenon
  <2>5. u \in Nat /\ W \in Nat /\ Pitch = W + 1
    BY <2>1
  <2> HIDE DEF x, y, z, u
  <2>6. z = u + Pitch + (IF j = 0 THEN 1 ELSE 0)
    BY <2>4, <2>5
  <2> QED
    BY <2>6, Zenon DEF z, u
<1>7. tp.j = j /\ tp.widths = w /\ tp.headers = h
  BY TabFields
<1>8. w[tp.j + 1] = W /\ get_num_columns(tp) = n
  <2>1. j + 1 \in 1..n
    OBVIOUS
  <2>2. w[j + 1] = W
    BY <2>1
  <2> HIDE DEF tp
  <2> QED
    BY <1>7, <2>2, Zenon DEF get_num_columns
<1>9. Put(tp, cell) = put
  <2>1. Put(tp, cell) = Tab(l, c \o cell, h, w, i, j, t)
    BY PutIs
  <2> QED
    BY <2>1, Zenon DEF line
<1>10. EndLine(put) = ended
  <2>1. EndLine(put) = Tab(Append(l, line), <<>>, h, w, i, j, t)
    BY EndLineIs
  <2> QED
    BY <2>1, Zenon DEF nothing
<1>11. PrintCell(tp, text) =
         IF j = n - 1 THEN [ended EXCEPT !.i = @ + 1, !.j = 0] ELSE [put EXCEPT !.j = @ + 1]
  <2> HIDE DEF tp, put, ended
  <2>1. w[j + 1] = W
    BY <1>7, <1>8, Zenon
  <2> QED
    BY <1>7, <1>8, <1>9, <1>10, <2>1, Zenon DEF PrintCell, cell, left, middle, bar, nothing
<1>12. [put EXCEPT !.j = @ + 1] = Tab(l, line, h, w, i, onward, t)
  <2>1. put.j = j
    BY TabFields
  <2> DEFINE other == put.j + 1
  <2>2. other = onward
    BY <2>1, Zenon
  <2>3. [put EXCEPT !.j = @ + 1] = [put EXCEPT !.j = other]
    BY Zenon
  <2> HIDE DEF other, onward
  <2>4. [put EXCEPT !.j = other] = Tab(l, line, h, w, i, other, t)
    BY SetJ
  <2> QED
    BY <2>2, <2>3, <2>4, Zenon
<1>13. [ended EXCEPT !.i = @ + 1, !.j = 0] = Tab(Append(l, line), nothing, h, w, next, back, t)
  <2>1. ended.i = i
    BY TabFields
  <2> DEFINE other == ended.i + 1
             longer == Append(l, line)
  <2>2. other = next
    BY <2>1, Zenon
  <2>3. [ended EXCEPT !.i = @ + 1, !.j = 0] = [ended EXCEPT !.i = other, !.j = back]
    BY Zenon
  <2> HIDE DEF other, next, back, longer, nothing
  <2>4. [Tab(longer, nothing, h, w, i, j, t) EXCEPT !.i = other]
          = Tab(longer, nothing, h, w, other, j, t)
    BY SetI
  <2>5. [Tab(longer, nothing, h, w, other, j, t) EXCEPT !.j = back]
          = Tab(longer, nothing, h, w, other, back, t)
    BY SetJ
  <2>6. ended = Tab(longer, nothing, h, w, i, j, t)
    BY Zenon DEF longer
  <2> HIDE DEF ended
  <2>7. [ended EXCEPT !.i = other, !.j = back] = [[ended EXCEPT !.i = other] EXCEPT !.j = back]
    OBVIOUS
  <2> QED
    BY <2>2, <2>3, <2>4, <2>5, <2>6, <2>7, Zenon DEF longer
<1>14. PrintCell(tp, text)
         = IF j = n - 1 THEN Tab(Append(l, line), <<>>, h, w, i + 1, 0, t)
           ELSE Tab(l, line, h, w, i, j + 1, t)
  BY <1>11, <1>12, <1>13, Zenon DEF nothing
<1> QED
  BY <1>5, <1>6, <1>14, Zenon DEF IsCell

(* The cells of a row, one after the other, are a line.                    *)
Cells(f, n, tp, text) == f[0] = tp /\ \A k \in 1..n : f[k] = PrintCell(f[k - 1], text[k])

IsLine(line, n, l, h, w, i, t, text, last) ==
  /\ (\A k \in 1..n : Len(text[k]) <= W) => Len(line) = n * Pitch + 1
  /\ last = Tab(Append(l, line), <<>>, h, w, i + 1, 0, t)

LEMMA CellsAre ==
  ASSUME NEW n \in Nat \ {0}, NEW l \in Seq(Bytes), NEW h \in Seq(Bytes), NEW w \in Seq(Nat),
         NEW i \in Nat, NEW t \in Nat, NEW text, NEW f,
         \A k \in 1..n : text[k] \in Bytes,
         Len(h) = n, Len(w) = n, \A k \in 1..n : w[k] = W,
         Cells(f, n, Tab(l, <<>>, h, w, i, 0, t), text)
  PROVE  \E line \in Bytes : IsLine(line, n, l, h, w, i, t, text, f[n])
<1> DEFINE Narrow(k) == \A m \in 1..k : Len(text[m]) <= W
           Length(k) == IF k = 0 THEN 0 ELSE k * Pitch + 1
           Upto(k, c) == IF k = n THEN Tab(Append(l, c), <<>>, h, w, i + 1, 0, t)
                          ELSE Tab(l, c, h, w, i, k, t)
           T == {k \in 0..n : \E c \in Bytes : (Narrow(k) => Len(c) = Length(k))
                                               /\ f[k] = Upto(k, c)}
<1>0. f[0] = Tab(l, <<>>, h, w, i, 0, t) /\ \A k \in 1..n : f[k] = PrintCell(f[k - 1], text[k])
  BY Zenon DEF Cells
<1>1. 0 \in T
  <2>1. <<>> \in Bytes /\ Len(<<>>) = 0 /\ 0 \in 0..n /\ 0 # n
    BY DEF Bytes
  <2>2. f[0] = Upto(0, <<>>)
    BY <1>0, <2>1
  <2>3. Len(<<>>) = Length(0)
    BY <2>1
  <2> HIDE DEF Narrow, Length, Upto
  <2> QED
    BY <2>1, <2>2, <2>3, Zenon
<1>2. ASSUME NEW k \in 0..(n - 1), k \in T
      PROVE  k + 1 \in T
  <2>1. PICK c \in Bytes : (Narrow(k) => Len(c) = Length(k)) /\ f[k] = Upto(k, c)
    BY <1>2, Zenon
  <2>2. k # n /\ k + 1 \in 1..n /\ k + 1 \in 0..n /\ k + 1 - 1 = k /\ k \in Nat
    OBVIOUS
  <2>3. f[k + 1] = PrintCell(Tab(l, c, h, w, i, k, t), text[k + 1])
    <3> DEFINE m == k + 1
    <3> HIDE DEF m
    <3>1. m \in 1..n /\ m - 1 = k
      BY <2>2 DEF m
    <3>2. f[m] = PrintCell(f[m - 1], text[m])
      BY <1>0, <3>1, Zenon
    <3> QED
      BY <2>1, <2>2, <3>1, <3>2, Zenon DEF m
  <2>4. text[k + 1] \in Bytes
    BY <2>2, Zenon
  <2>5. PICK line \in Bytes : IsCell(line, n, l, c, h, w, i, k, t, text[k + 1])
    <3> HIDE DEF T
    <3> QED
      BY <2>4, CellIs
  <2>6. f[k + 1] = Upto(k + 1, line)
    <3>1. k = n - 1 <=> k + 1 = n
      BY <2>2
    <3> QED
      BY <2>3, <2>5, <3>1, Zenon DEF IsCell
  <2>7. Narrow(k + 1) => Len(line) = Length(k + 1)
    <3> SUFFICES ASSUME Narrow(k + 1)
                 PROVE  Len(line) = Length(k + 1)
      BY Zenon
    <3>1. Len(text[k + 1]) <= W
      <4>1. k + 1 \in 1..(k + 1)
        BY <2>2
      <4> QED
        BY <4>1, Zenon
    <3>2. Narrow(k)
      <4>1. \A m \in 1..k : m \in 1..(k + 1)
        BY <2>2
      <4> QED
        BY <4>1, Zenon
    <3>3. Len(c) = Length(k)
      BY <2>1, <3>2, Zenon
    <3>4. Len(line) = Len(c) + Pitch + (IF k = 0 THEN 1 ELSE 0)
      BY <2>5, <3>1, Zenon DEF IsCell
    <3> DEFINE x == k * Pitch
               y == (k + 1) * Pitch
    <3>5. x \in Nat /\ y = x + Pitch /\ Pitch \in Nat /\ (k = 0 => x = 0)
      <4>1. x \in Nat /\ y = x + Pitch
        BY <2>2, ProductsAre, Zenon
      <4>2. Pitch \in Nat
        BY WidthIs
      <4>3. 0 * Pitch = 0
        BY <4>2
      <4> QED
        BY <4>1, <4>2, <4>3, Zenon
    <3>6. Length(k) = (IF k = 0 THEN 0 ELSE x + 1) /\ Length(k + 1) = y + 1
      <4>1. k + 1 # 0
        BY <2>2
      <4> QED
        BY <4>1, Zenon
    <3> HIDE DEF x, y, Length, Narrow, Upto, T
    <3> QED
      BY <3>3, <3>4, <3>5, <3>6
  <2> HIDE DEF Narrow, Length, Upto
  <2> QED
    BY <2>2, <2>5, <2>6, <2>7, Zenon
<1>3. n \in T
  <2>1. \A k \in 0..n : k \in T
    <3> HIDE DEF T
    <3> QED
      BY <1>1, <1>2, Induction
  <2>2. n \in 0..n
    OBVIOUS
  <2> QED
    BY <2>1, <2>2, Zenon
<1>4. PICK c \in Bytes : (Narrow(n) => Len(c) = Length(n)) /\ f[n] = Upto(n, c)
  BY <1>3, Zenon
<1>5. Length(n) = n * Pitch + 1
  <2>1. n # 0
    OBVIOUS
  <2> QED
    BY <2>1, Zenon
<1> HIDE DEF Length
<1> QED
  BY <1>4, <1>5, Zenon DEF IsLine

(* The function of some steps is the one of their recursive definition.    *)
DefinedBySteps(f, n, S, c, step) ==
  /\ f \in [0..n -> S]
  /\ f[0] = c /\ \A k \in 1..n : f[k] = step[k][f[k - 1]]
  /\ f = [k \in 0..n |-> IF k = 0 THEN c ELSE step[k][f[k - 1]]]

LEMMA StepsDefine ==
  ASSUME NEW n \in Nat, NEW S, NEW c \in S, NEW step \in [1..n -> [S -> S]]
  PROVE  \E f : DefinedBySteps(f, n, S, c, step)
<1>1. PICK f : FollowsSteps(f, n, S, c, step)
  BY FunctionOfSteps
<1>2. f \in [0..n -> S] /\ f[0] = c /\ \A k \in 1..n : f[k] = step[k][f[k - 1]]
  BY <1>1 DEF FollowsSteps
<1>3. ASSUME NEW k \in 0..n
      PROVE  f[k] = IF k = 0 THEN c ELSE step[k][f[k - 1]]
  <2>1. k = 0 \/ k \in 1..n
    OBVIOUS
  <2> QED
    BY <1>2, <2>1
<1>4. f = [k \in 0..n |-> IF k = 0 THEN c ELSE step[k][f[k - 1]]]
  BY <1>2, <1>3
<1> QED
  BY <1>2, <1>4, Zenon DEF DefinedBySteps

(* The columns of a table are one, two or three.                           *)
LEMMA ColumnsAre ==
  ASSUME NEW cmd \in ValidCommands, IsTable(cmd)
  PROVE  /\ Len(Columns(cmd)) \in 1..3 /\ DOMAIN Columns(cmd) = 1..Len(Columns(cmd))
         /\ \A k \in 1..Len(Columns(cmd)) : Heading[Columns(cmd)[k][1]] \in Bytes
<1>1. /\ cmd = "GETS" => Columns(cmd) = <<<<"Subject", "subject">>>>
      /\ cmd = "GETP" => Columns(cmd) = <<<<"Predicate", "predicate">>>>
      /\ cmd = "GETO" => Columns(cmd) = <<<<"Object", "object">>>>
      /\ cmd = "GET" => Columns(cmd) = <<<<"Subject", "subject">>, <<"Predicate", "predicate">>,
                                         <<"Object", "object">>>>
      /\ cmd = "COUNT" => Columns(cmd) = <<<<"Count", "object">>>>
      /\ cmd = "STATUS" => Columns(cmd) = <<<<"Property", "subject">>, <<"Value", "object">>>>
  BY DEF Columns
<1>2. cmd \in {"GET", "GETS", "GETP", "GETO", "COUNT", "STATUS"}
  BY DEF IsTable
<1>3. Len(Columns(cmd)) \in 1..3 /\ DOMAIN Columns(cmd) = 1..Len(Columns(cmd))
  BY <1>1, <1>2
<1> QED
  BY <1>3, HeadingAssumption DEF Bytes

LEMMA NoColumns ==
  ASSUME NEW cmd \in ValidCommands, ~IsTable(cmd)
  PROVE  Columns(cmd) = <<>>
BY DEF ValidCommands, IsTable, Columns

LEMMA FieldTexts ==
  ASSUME NEW row \in Records, NEW name
  PROVE  Field(row, name) \in Bytes
<1>1. /\ Res!Record!subject(row) \in Bytes /\ Res!Record!predicate(row) \in Bytes
      /\ Res!Record!object(row) \in Bytes
  BY DEF Records, StringFields, Res!Record!subject, Res!Record!predicate, Res!Record!object
<1> QED
  BY <1>1, Zenon DEF Field

(* The tables between two rows, or in one, with these columns.             *)
InColumns(n, h, w, t) ==
  {Tab(l, c, h, w, i, j, t) : l \in Seq(Bytes), c \in Bytes, i \in Nat, j \in 0..(n - 1)}

LEMMA InColumnsIs ==
  ASSUME NEW n, NEW h, NEW w, NEW t, NEW l \in Seq(Bytes), NEW c \in Bytes, NEW i \in Nat,
         NEW j \in 0..(n - 1)
  PROVE  Tab(l, c, h, w, i, j, t) \in InColumns(n, h, w, t)
BY DEF InColumns

LEMMA CellStays ==
  ASSUME NEW n \in Nat \ {0}, NEW h \in Seq(Bytes), NEW w \in Seq(Nat), NEW t \in Nat,
         Len(h) = n, Len(w) = n, \A k \in 1..n : w[k] = W,
         NEW tp \in InColumns(n, h, w, t), NEW text \in Bytes
  PROVE  PrintCell(tp, text) \in InColumns(n, h, w, t)
<1>1. PICK l \in Seq(Bytes), c \in Bytes, i \in Nat, j \in 0..(n - 1) :
        tp = Tab(l, c, h, w, i, j, t)
  BY DEF InColumns
<1>2. PICK line \in Bytes : IsCell(line, n, l, c, h, w, i, j, t, text)
  BY CellIs
<1>3. CASE j = n - 1
  <2>1. PrintCell(tp, text) = Tab(Append(l, line), <<>>, h, w, i + 1, 0, t)
    BY <1>1, <1>2, <1>3, Zenon DEF IsCell
  <2>2. Append(l, line) \in Seq(Bytes) /\ <<>> \in Bytes /\ i + 1 \in Nat /\ 0 \in 0..(n - 1)
    BY NoBytes
  <2>3. Tab(Append(l, line), <<>>, h, w, i + 1, 0, t) \in InColumns(n, h, w, t)
    BY <2>2, InColumnsIs
  <2> QED
    BY <2>1, <2>3, Zenon
<1>4. CASE j # n - 1
  <2>1. PrintCell(tp, text) = Tab(l, line, h, w, i, j + 1, t)
    BY <1>1, <1>2, <1>4, Zenon DEF IsCell
  <2>2. j + 1 \in 0..(n - 1)
    BY <1>4
  <2>3. Tab(l, line, h, w, i, j + 1, t) \in InColumns(n, h, w, t)
    BY <2>2, InColumnsIs
  <2> QED
    BY <2>1, <2>3, Zenon
<1> QED
  BY <1>3, <1>4

(* A row puts one line on the table, as wide as the rules unless one of    *)
(* its texts is too wide.                                                  *)
IsRow(line, n, l, h, w, i, t, cmd, row) ==
  /\ ~TooWide(cmd, row) => Len(line) = n * Pitch + 1
  /\ PrintRow(Tab(l, <<>>, h, w, i, 0, t), cmd, row) = Tab(Append(l, line), <<>>, h, w, i + 1, 0, t)

LEMMA RowIs ==
  ASSUME NEW cmd \in ValidCommands, IsTable(cmd), NEW row \in Records,
         NEW n, n = Len(Columns(cmd)),
         NEW l \in Seq(Bytes), NEW h \in Seq(Bytes), NEW w \in Seq(Nat), NEW i \in Nat,
         NEW t \in Nat, Len(h) = n, Len(w) = n, \A k \in 1..n : w[k] = W
  PROVE  \E line \in Bytes : IsRow(line, n, l, h, w, i, t, cmd, row)
<1> DEFINE tp == Tab(l, <<>>, h, w, i, 0, t)
           S == InColumns(n, h, w, t)
           text == [k \in 1..n |-> Field(row, Columns(cmd)[k][2])]
           step == [k \in 1..n |-> [x \in S |-> PrintCell(x, text[k])]]
           Def(f) == f = [k \in 0..n |->
                            IF k = 0 THEN tp
                            ELSE PrintCell(f[k - 1], Field(row, Columns(cmd)[k][2]))]
           cells == CHOOSE f : Def(f)
<1>1. n \in Nat \ {0} /\ DOMAIN Columns(cmd) = 1..n
  <2>1. Len(Columns(cmd)) \in 1..3 /\ DOMAIN Columns(cmd) = 1..Len(Columns(cmd))
    BY ColumnsAre, Zenon
  <2>2. n \in 1..3 /\ DOMAIN Columns(cmd) = 1..n
    BY <2>1, Zenon
  <2> QED
    BY <2>2
<1>2. \A k \in 1..n : text[k] = Field(row, Columns(cmd)[k][2]) /\ text[k] \in Bytes
  BY FieldTexts
<1>3. PrintRow(tp, cmd, row) = cells[n]
  BY Zenon DEF PrintRow
<1>4. tp \in S
  <2>1. <<>> \in Bytes /\ 0 \in 0..(n - 1)
    BY <1>1, NoBytes
  <2> QED
    BY <2>1, InColumnsIs
<1> HIDE DEF text, tp
<1>5. \A k \in 1..n : \A x \in S : PrintCell(x, text[k]) \in S
  BY <1>1, <1>2, CellStays, Zenon
<1> HIDE DEF S
<1>6. PICK f : DefinedBySteps(f, n, S, tp, step)
  <2>1. step \in [1..n -> [S -> S]]
    BY <1>5
  <2> HIDE DEF step
  <2>2. n \in Nat
    BY <1>1
  <2> QED
    BY <1>4, <2>1, <2>2, StepsDefine
<1>7. Def(f)
  <2>1. f \in [0..n -> S] /\ f = [k \in 0..n |-> IF k = 0 THEN tp ELSE step[k][f[k - 1]]]
    BY <1>6, Zenon DEF DefinedBySteps
  <2>2. ASSUME NEW k \in 0..n, k # 0
        PROVE  step[k][f[k - 1]] = PrintCell(f[k - 1], Field(row, Columns(cmd)[k][2]))
    <3>1. k \in 1..n /\ k - 1 \in 0..n
      BY <1>1, <2>2
    <3>2. f[k - 1] \in S
      BY <2>1, <3>1
    <3> QED
      BY <1>2, <3>1, <3>2
  <2> HIDE DEF step
  <2>3. \A k \in 0..n : (IF k = 0 THEN tp ELSE step[k][f[k - 1]])
          = IF k = 0 THEN tp ELSE PrintCell(f[k - 1], Field(row, Columns(cmd)[k][2]))
    BY <2>2, Zenon
  <2> QED
    BY <2>1, <2>3
<1>8. Def(cells)
  <2> HIDE DEF Def
  <2> QED
    BY <1>7, Zenon
<1> HIDE DEF cells
<1>9. Cells(cells, n, tp, text)
  <2>1. 0 \in 0..n /\ \A k \in 1..n : k \in 0..n /\ k # 0
    BY <1>1
  <2>2. \A k \in 0..n : cells[k] = IF k = 0 THEN tp
                                   ELSE PrintCell(cells[k - 1], Field(row, Columns(cmd)[k][2]))
    BY <1>8
  <2> HIDE DEF Def
  <2> QED
    BY <1>2, <2>1, <2>2, Zenon DEF Cells
<1>10. PICK line \in Bytes : IsLine(line, n, l, h, w, i, t, text, cells[n])
  <2>1. n \in Nat \ {0} /\ \A k \in 1..n : text[k] \in Bytes
    BY <1>1, <1>2, Zenon
  <2> HIDE DEF Def, step
  <2> QED
    BY <1>9, <2>1, CellsAre DEF tp
<1>11. ~TooWide(cmd, row) => \A k \in 1..n : Len(text[k]) <= W
  <2> SUFFICES ASSUME ~TooWide(cmd, row), NEW k \in 1..n
               PROVE  Len(text[k]) <= W
    OBVIOUS
  <2>1. ~(Len(text[k]) > COLUMN_WIDTH)
    BY <1>1, <1>2, Zenon DEF TooWide
  <2>2. Len(text[k]) \in Nat
    BY <1>2 DEF Bytes
  <2> QED
    BY <2>1, <2>2, WidthIs DEF W
<1> QED
  BY <1>3, <1>10, <1>11, Zenon DEF IsRow, IsLine, tp

(* The columns that are added are all as wide.                             *)
LEMMA ColumnIs ==
  ASSUME NEW l, NEW c, NEW h, NEW w, NEW i, NEW j, NEW t, NEW header
  PROVE  AddColumn(Tab(l, c, h, w, i, j, t), header, COLUMN_WIDTH)
           = Tab(l, c, Append(h, header), Append(w, W), i, j, t + W + 1)
<1> DEFINE tp == Tab(l, c, h, w, i, j, t)
           headers == Append(tp.headers, header)
           widths == Append(tp.widths, W)
           width == tp.table_width + W + 1
<1>1. tp.headers = h /\ tp.widths = w /\ tp.table_width = t
  BY TabFields
<1>2. headers = Append(h, header) /\ widths = Append(w, W) /\ width = t + W + 1
  BY <1>1, Zenon
<1>3. AddColumn(tp, header, COLUMN_WIDTH)
        = [tp EXCEPT !.headers = headers, !.widths = widths, !.table_width = width]
  BY Zenon DEF AddColumn, W
<1> HIDE DEF headers, widths, width
<1>4. [tp EXCEPT !.headers = headers] = Tab(l, c, headers, w, i, j, t)
  BY SetHeaders
<1>5. [Tab(l, c, headers, w, i, j, t) EXCEPT !.widths = widths] = Tab(l, c, headers, widths, i, j, t)
  BY SetWidths
<1>6. [Tab(l, c, headers, widths, i, j, t) EXCEPT !.table_width = width]
        = Tab(l, c, headers, widths, i, j, width)
  BY SetWidth
<1> HIDE DEF tp
<1>7. [tp EXCEPT !.headers = headers, !.widths = widths, !.table_width = width]
        = [[[tp EXCEPT !.headers = headers] EXCEPT !.widths = widths] EXCEPT !.table_width = width]
  OBVIOUS
<1> QED
  BY <1>2, <1>3, <1>4, <1>5, <1>6, <1>7, Zenon DEF tp

NewTables == {Tab(<<>>, <<>>, h, w, 0, 0, t) : h \in Seq(Bytes), w \in Seq(Nat), t \in Nat}

LEMMA NewTablesAre ==
  /\ \A h \in Seq(Bytes), w \in Seq(Nat), t \in Nat : Tab(<<>>, <<>>, h, w, 0, 0, t) \in NewTables
  /\ \A tp \in NewTables : \E h \in Seq(Bytes), w \in Seq(Nat), t \in Nat :
       tp = Tab(<<>>, <<>>, h, w, 0, 0, t)
<1>1. \A h \in Seq(Bytes), w \in Seq(Nat), t \in Nat : Tab(<<>>, <<>>, h, w, 0, 0, t) \in NewTables
  BY DEF NewTables
<1>2. \A tp \in NewTables : \E h \in Seq(Bytes), w \in Seq(Nat), t \in Nat :
        tp = Tab(<<>>, <<>>, h, w, 0, 0, t)
  BY DEF NewTables
<1> QED
  BY <1>1, <1>2, Zenon

LEMMA ColumnStays ==
  ASSUME NEW tp \in NewTables, NEW header \in Bytes
  PROVE  AddColumn(tp, header, COLUMN_WIDTH) \in NewTables
<1>1. PICK h \in Seq(Bytes), w \in Seq(Nat), t \in Nat : tp = Tab(<<>>, <<>>, h, w, 0, 0, t)
  BY NewTablesAre, Zenon
<1>2. AddColumn(tp, header, COLUMN_WIDTH)
        = Tab(<<>>, <<>>, Append(h, header), Append(w, W), 0, 0, t + W + 1)
  BY <1>1, ColumnIs
<1>3. Append(h, header) \in Seq(Bytes) /\ Append(w, W) \in Seq(Nat) /\ t + W + 1 \in Nat
  <2>1. W \in Nat
    BY WidthIs
  <2> QED
    BY <2>1
<1>4. Tab(<<>>, <<>>, Append(h, header), Append(w, W), 0, 0, t + W + 1) \in NewTables
  BY <1>3, NewTablesAre
<1> QED
  BY <1>2, <1>4, Zenon

(* A table of n columns, all of the same width.                            *)
OfColumns(tp, n) ==
  \E h \in Seq(Bytes), w \in Seq(Nat), t \in Nat :
    /\ tp = Tab(<<>>, <<>>, h, w, 0, 0, t)
    /\ Len(h) = n /\ Len(w) = n /\ t = n * Pitch
    /\ \A k \in 1..n : w[k] = W

LEMMA NoColumnsYet == Table \in NewTables /\ OfColumns(Table, 0)
<1>1. Table = Tab(<<>>, <<>>, <<>>, <<>>, 0, 0, 0)
  BY Zenon DEF Table, Tab
<1> DEFINE h == <<>>
           w == <<>>
           t == 0
<1>2. /\ h \in Seq(Bytes) /\ w \in Seq(Nat) /\ Len(h) = 0 /\ Len(w) = 0
      /\ t \in Nat /\ \A k \in 1..0 : w[k] = W
  OBVIOUS
<1>3. t = 0 * Pitch
  BY WidthIs
<1>4. Table = Tab(<<>>, <<>>, h, w, 0, 0, t)
  BY <1>1, Zenon
<1> HIDE DEF h, w, t
<1> QED
  BY <1>2, <1>3, <1>4, NewTablesAre, Zenon DEF OfColumns

LEMMA OneColumnMore ==
  ASSUME NEW n \in Nat, NEW tp, OfColumns(tp, n), NEW header \in Bytes
  PROVE  OfColumns(AddColumn(tp, header, COLUMN_WIDTH), n + 1)
<1>1. PICK h \in Seq(Bytes), w \in Seq(Nat), t \in Nat :
        /\ tp = Tab(<<>>, <<>>, h, w, 0, 0, t)
        /\ Len(h) = n /\ Len(w) = n /\ t = n * Pitch
        /\ \A k \in 1..n : w[k] = W
  BY Zenon DEF OfColumns
<1> DEFINE h2 == Append(h, header)
           w2 == Append(w, W)
           t2 == t + W + 1
<1>2. AddColumn(tp, header, COLUMN_WIDTH) = Tab(<<>>, <<>>, h2, w2, 0, 0, t2)
  BY <1>1, ColumnIs
<1>3. W \in Nat /\ Pitch = W + 1 /\ Pitch \in Nat
  BY WidthIs
<1>4. h2 \in Seq(Bytes) /\ Len(h2) = n + 1
  BY <1>1
<1>5. w2 \in Seq(Nat) /\ Len(w2) = n + 1 /\ \A k \in 1..(n + 1) : w2[k] = W
  BY <1>1, <1>3
<1>6. t2 \in Nat /\ t2 = t + Pitch
  BY <1>3
<1>7. t2 = (n + 1) * Pitch
  BY <1>1, <1>6, ProductsAre, Zenon
<1> HIDE DEF h2, w2, t2
<1> QED
  BY <1>2, <1>4, <1>5, <1>6, <1>7, Zenon DEF OfColumns

LEMMA ColumnsAreAdded ==
  ASSUME NEW cmd \in ValidCommands
  PROVE  OfColumns(AddColumns(cmd), Len(Columns(cmd)))
<1> DEFINE n == Len(Columns(cmd))
           S == NewTables
           header == [k \in 1..n |-> Heading[Columns(cmd)[k][1]]]
           step == [k \in 1..n |-> [x \in S |-> AddColumn(x, header[k], COLUMN_WIDTH)]]
           Def(f) == f = [k \in 0..n |->
                            IF k = 0 THEN Table
                            ELSE AddColumn(f[k - 1], Heading[Columns(cmd)[k][1]], COLUMN_WIDTH)]
           columns == CHOOSE f : Def(f)
<1>1. n \in Nat /\ \A k \in 1..n : Heading[Columns(cmd)[k][1]] \in Bytes
  <2>1. CASE IsTable(cmd)
    <3>1. n \in 1..3 /\ \A k \in 1..n : Heading[Columns(cmd)[k][1]] \in Bytes
      BY <2>1, ColumnsAre, Zenon
    <3> QED
      BY <3>1
  <2>2. CASE ~IsTable(cmd)
    <3>1. n = 0
      BY <2>2, NoColumns
    <3> QED
      BY <3>1
  <2> QED
    BY <2>1, <2>2
<1>2. AddColumns(cmd) = columns[n]
  BY Zenon DEF AddColumns
<1> HIDE DEF n
<1>3. \A k \in 1..n : header[k] = Heading[Columns(cmd)[k][1]] /\ header[k] \in Bytes
  BY <1>1
<1> HIDE DEF header
<1>4. \A k \in 1..n : \A x \in S : AddColumn(x, header[k], COLUMN_WIDTH) \in S
  BY <1>3, ColumnStays, Zenon
<1>5. Table \in S
  BY NoColumnsYet
<1> HIDE DEF S
<1>6. PICK f : DefinedBySteps(f, n, S, Table, step)
  <2>1. step \in [1..n -> [S -> S]]
    BY <1>4
  <2> HIDE DEF step
  <2> QED
    BY <1>1, <1>5, <2>1, StepsDefine
<1>7. Def(f)
  <2>1. f \in [0..n -> S] /\ f = [k \in 0..n |-> IF k = 0 THEN Table ELSE step[k][f[k - 1]]]
    BY <1>6, Zenon DEF DefinedBySteps
  <2>2. ASSUME NEW k \in 0..n, k # 0
        PROVE  step[k][f[k - 1]] = AddColumn(f[k - 1], Heading[Columns(cmd)[k][1]], COLUMN_WIDTH)
    <3>1. k \in 1..n /\ k - 1 \in 0..n
      BY <1>1, <2>2
    <3>2. f[k - 1] \in S
      BY <2>1, <3>1
    <3> QED
      BY <1>3, <3>1, <3>2
  <2> HIDE DEF step
  <2>3. \A k \in 0..n : (IF k = 0 THEN Table ELSE step[k][f[k - 1]])
          = IF k = 0 THEN Table
            ELSE AddColumn(f[k - 1], Heading[Columns(cmd)[k][1]], COLUMN_WIDTH)
    BY <2>2, Zenon
  <2> QED
    BY <2>1, <2>3
<1>8. Def(columns)
  <2> HIDE DEF Def
  <2> QED
    BY <1>7, Zenon
<1> HIDE DEF columns, step
<1>9. \A k \in 0..n : columns[k] = IF k = 0 THEN Table
                                   ELSE AddColumn(columns[k - 1], header[k], COLUMN_WIDTH)
  <2>1. \A k \in 0..n : columns[k] = IF k = 0 THEN Table
          ELSE AddColumn(columns[k - 1], Heading[Columns(cmd)[k][1]], COLUMN_WIDTH)
    BY <1>8
  <2>2. \A k \in 0..n : k # 0 => k \in 1..n
    BY <1>1
  <2> HIDE DEF Def
  <2> QED
    BY <1>3, <2>1, <2>2, Zenon
<1> HIDE DEF Def
<1> DEFINE T == {k \in 0..n : OfColumns(columns[k], k)}
<1>10. 0 \in T
  <2>1. 0 \in 0..n
    BY <1>1
  <2>2. columns[0] = Table
    BY <1>9, <2>1
  <2> QED
    BY <2>1, <2>2, NoColumnsYet
<1>11. ASSUME NEW k \in 0..(n - 1), k \in T
       PROVE  k + 1 \in T
  <2> DEFINE m == k + 1
  <2>1. m \in 0..n /\ m \in 1..n /\ m # 0 /\ m - 1 = k /\ k \in Nat
    BY <1>1
  <2> HIDE DEF m
  <2>2. columns[m] = AddColumn(columns[k], header[m], COLUMN_WIDTH)
    <3>1. columns[m] = AddColumn(columns[m - 1], header[m], COLUMN_WIDTH)
      BY <1>9, <2>1, Zenon
    <3> QED
      BY <2>1, <3>1, Zenon
  <2>3. OfColumns(columns[k], k) /\ header[m] \in Bytes
    BY <1>3, <1>11, <2>1
  <2>4. OfColumns(columns[m], k + 1)
    BY <2>1, <2>2, <2>3, OneColumnMore, Zenon
  <2> QED
    BY <2>1, <2>4, Zenon DEF m
<1>12. \A k \in 0..n : k \in T
  <2> HIDE DEF T
  <2> QED
    BY <1>1, <1>10, <1>11, Induction
<1>13. n \in 0..n
  BY <1>1
<1> QED
  BY <1>2, <1>12, <1>13, Zenon DEF n

(* A header is cut or filled up to its column.                             *)
LEMMA HeaderCell ==
  ASSUME NEW text \in Bytes
  PROVE  setw(W, substr(text, W)) \in Bytes /\ Len(setw(W, substr(text, W))) = W
<1> DEFINE cut == substr(text, W)
<1>1. W \in Nat /\ Len(text) \in Nat
  BY WidthIs DEF Bytes
<1>2. cut \in Bytes /\ Len(cut) = IF Len(text) < W THEN Len(text) ELSE W
  BY <1>1, substrIs DEF Bytes
<1>3. Len(cut) <= W
  BY <1>1, <1>2
<1> HIDE DEF cut
<1>4. setw(W, cut) \in Bytes /\ Len(setw(W, cut)) = W
  BY <1>2, <1>3, setwIs
<1> QED
  BY <1>4, Zenon DEF cut

(* One more header behind the others.                                      *)
LEMMA OneHeaderMore ==
  ASSUME NEW text \in Bytes, NEW cell \in Bytes, Len(cell) = W, NEW x, Len(text) + 1 = x
  PROVE  text \o <<Bar>> \o cell \in Bytes /\ Len(text \o <<Bar>> \o cell) + 1 = x + Pitch
<1> DEFINE bar == <<Bar>>
           both == text \o bar
<1>1. bar \in Bytes /\ Len(bar) = 1
  BY DEF Bytes, Bar
<1> HIDE DEF bar
<1>2. both \in Bytes /\ Len(both) = Len(text) + 1
  <2>1. both \in Bytes /\ Len(both) = Len(text) + Len(bar)
    BY <1>1, JoinedBytes
  <2> QED
    BY <1>1, <2>1, Zenon
<1> HIDE DEF both
<1>3. both \o cell \in Bytes /\ Len(both \o cell) = Len(both) + Len(cell)
  BY <1>2, JoinedBytes
<1>4. Len(text) \in Nat /\ W \in Nat /\ Pitch = W + 1
  BY WidthIs DEF Bytes
<1> DEFINE y == Len(text)
           z == Len(both \o cell)
<1>5. z = (y + 1) + W
  BY <1>2, <1>3, Zenon
<1>6. y \in Nat /\ y + 1 = x
  BY <1>4, Zenon
<1> HIDE DEF y, z
<1>7. z + 1 = x + Pitch
  BY <1>4, <1>5, <1>6
<1> QED
  BY <1>3, <1>7, Zenon DEF both, bar, z

HeaderRun(f, n, cell) ==
  \A k \in 0..n : f[k] = IF k = 0 THEN <<>> ELSE IF k = 1 THEN cell[1]
                         ELSE f[k - 1] \o <<Bar>> \o cell[k]

LEMMA HeaderRunIs ==
  ASSUME NEW n \in Nat \ {0}, NEW cell, NEW f, HeaderRun(f, n, cell),
         \A k \in 1..n : cell[k] \in Bytes /\ Len(cell[k]) = W
  PROVE  f[n] \in Bytes /\ Len(f[n]) + 1 = n * Pitch
<1> DEFINE T == {k \in 0..n : k # 0 => f[k] \in Bytes /\ Len(f[k]) + 1 = k * Pitch}
<1>1. 0 \in T
  OBVIOUS
<1>2. ASSUME NEW k \in 0..(n - 1), k \in T
      PROVE  k + 1 \in T
  <2> DEFINE m == k + 1
             x == k * Pitch
             y == m * Pitch
  <2>1. m \in 0..n /\ m \in 1..n /\ m # 0 /\ m - 1 = k /\ k \in Nat /\ (m = 1 <=> k = 0)
    OBVIOUS
  <2>2. y = x + Pitch /\ x \in Nat
    BY <2>1, ProductsAre, Zenon
  <2>3. k = 0 => x = 0
    BY WidthIs
  <2>4. Pitch = W + 1 /\ W \in Nat
    BY WidthIs
  <2>5. k # 0 => f[k] \in Bytes /\ Len(f[k]) + 1 = x
    BY <1>2
  <2> HIDE DEF m, x, y
  <2>6. f[m] = IF m = 1 THEN cell[1] ELSE f[k] \o <<Bar>> \o cell[m]
    BY <2>1 DEF HeaderRun
  <2>7. cell[m] \in Bytes /\ Len(cell[m]) = W
    BY <2>1
  <2>8. CASE k = 0
    <3>1. f[m] = cell[m]
      BY <2>1, <2>6, <2>8, Zenon
    <3>2. f[m] \in Bytes /\ Len(f[m]) = W
      BY <2>7, <3>1, Zenon
    <3>3. W + 1 = y
      BY <2>2, <2>3, <2>4, <2>8
    <3>4. Len(f[m]) + 1 = y
      BY <3>2, <3>3, Zenon
    <3> QED
      BY <2>1, <3>2, <3>4, Zenon DEF m, y
  <2>9. CASE k # 0
    <3>1. f[m] = f[k] \o <<Bar>> \o cell[m]
      BY <2>1, <2>6, <2>9, Zenon
    <3> DEFINE text == f[k]
               next == cell[m]
    <3>2. text \in Bytes /\ Len(text) + 1 = x /\ next \in Bytes /\ Len(next) = W
      BY <2>5, <2>7, <2>9, Zenon
    <3> HIDE DEF text, next
    <3>3. text \o <<Bar>> \o next \in Bytes /\ Len(text \o <<Bar>> \o next) + 1 = x + Pitch
      BY <3>2, OneHeaderMore
    <3> QED
      BY <2>1, <2>2, <3>1, <3>3, Zenon DEF m, x, y, text, next
  <2> QED
    BY <2>8, <2>9
<1>3. n \in T
  <2>1. \A k \in 0..n : k \in T
    <3> HIDE DEF T
    <3> QED
      BY <1>1, <1>2, Induction
  <2>2. n \in 0..n
    OBVIOUS
  <2> QED
    BY <2>1, <2>2, Zenon
<1>4. n # 0
  OBVIOUS
<1> QED
  BY <1>3, <1>4, Zenon

(* A header has three lines, all as wide as the rules.                     *)
IsHeader(l, t) == Len(l) = 3 /\ \A k \in 1..3 : Len(l[k]) = t + 1

LEMMA HeaderIs ==
  ASSUME NEW n \in Nat \ {0}, NEW h \in Seq(Bytes), NEW w \in Seq(Nat), NEW t \in Nat,
         Len(h) = n, Len(w) = n, t = n * Pitch, \A k \in 1..n : w[k] = W
  PROVE  \E l \in Seq(Bytes) :
           IsHeader(l, t) /\ PrintHeader(Tab(<<>>, <<>>, h, w, 0, 0, t)) = Tab(l, <<>>, h, w, 0, 0, t)
<1> DEFINE tp == Tab(<<>>, <<>>, h, w, 0, 0, t)
           Cell(k) == setw(tp.widths[k], substr(tp.headers[k], tp.widths[k]))
           Def(f) == f = [k \in 0..get_num_columns(tp) |->
                            IF k = 0 THEN <<>>
                            ELSE IF k = 1 THEN Cell(1)
                            ELSE f[k - 1] \o <<Bar>> \o Cell(k)]
           cells == CHOOSE f : Def(f)
           cell == [k \in 1..n |-> setw(W, substr(h[k], W))]
           step == [k \in 1..n |-> [x \in Bytes |->
                      IF k = 1 THEN cell[1] ELSE x \o <<Bar>> \o cell[k]]]
           text == cells[get_num_columns(tp)]
           line == <<Bar>> \o text \o <<Bar>>
           ruled == PrintHorizontalLine(tp)
<1>1. PrintHeader(tp) = PrintHorizontalLine(EndLine(Put(ruled, line)))
  BY Zenon DEF PrintHeader
<1>2. tp.headers = h /\ tp.widths = w
  BY TabFields
<1>3. get_num_columns(tp) = n
  BY <1>2, Zenon DEF get_num_columns
<1>4. \A k \in 1..n : cell[k] = Cell(k)
  <2> TAKE k \in 1..n
  <2>1. cell[k] = setw(W, substr(h[k], W))
    OBVIOUS
  <2>2. w[k] = W
    OBVIOUS
  <2> QED
    BY <1>2, <2>1, <2>2, Zenon
<1>5. \A k \in 1..n : cell[k] \in Bytes /\ Len(cell[k]) = W
  <2> TAKE k \in 1..n
  <2>1. cell[k] = setw(W, substr(h[k], W)) /\ h[k] \in Bytes
    OBVIOUS
  <2> HIDE DEF cell
  <2> QED
    BY <2>1, HeaderCell, Zenon
<1> HIDE DEF tp, cell, Cell
<1>6. PICK f : DefinedBySteps(f, n, Bytes, <<>>, step)
  <2>1. \A k \in 1..n : \A x \in Bytes : (IF k = 1 THEN cell[1] ELSE x \o <<Bar>> \o cell[k]) \in Bytes
    <3> TAKE k \in 1..n
    <3> TAKE x \in Bytes
    <3>1. cell[1] \in Bytes /\ cell[k] \in Bytes
      BY <1>5
    <3> DEFINE both == x \o <<Bar>>
    <3>2. <<Bar>> \in Bytes
      BY DEF Bytes, Bar
    <3>3. both \in Bytes
      BY <3>2, JoinedBytes
    <3> HIDE DEF both
    <3>4. both \o cell[k] \in Bytes
      BY <3>1, <3>3, JoinedBytes
    <3> QED
      BY <3>1, <3>4, Zenon DEF both
  <2>2. step \in [1..n -> [Bytes -> Bytes]]
    BY <2>1
  <2> HIDE DEF step
  <2> QED
    BY <2>2, NoBytes, StepsDefine
<1>7. Def(f)
  <2>1. /\ f \in [0..n -> Bytes]
        /\ f = [k \in 0..n |-> IF k = 0 THEN <<>> ELSE step[k][f[k - 1]]]
    BY <1>6, Zenon DEF DefinedBySteps
  <2>2. ASSUME NEW k \in 0..n, k # 0
        PROVE  step[k][f[k - 1]] = IF k = 1 THEN Cell(1) ELSE f[k - 1] \o <<Bar>> \o Cell(k)
    <3>1. k \in 1..n /\ k - 1 \in 0..n /\ 1 \in 1..n
      BY <2>2
    <3>2. f[k - 1] \in Bytes
      BY <2>1, <3>1
    <3>3. step[k][f[k - 1]] = IF k = 1 THEN cell[1] ELSE f[k - 1] \o <<Bar>> \o cell[k]
      BY <3>1, <3>2
    <3> HIDE DEF step
    <3> QED
      BY <1>4, <3>1, <3>3, Zenon
  <2> HIDE DEF step
  <2>3. \A k \in 0..n : (IF k = 0 THEN <<>> ELSE step[k][f[k - 1]])
          = IF k = 0 THEN <<>>
            ELSE IF k = 1 THEN Cell(1) ELSE f[k - 1] \o <<Bar>> \o Cell(k)
    BY <2>2, Zenon
  <2> QED
    BY <1>3, <2>1, <2>3
<1>8. Def(cells)
  <2> HIDE DEF Def
  <2> QED
    BY <1>7, Zenon
<1> HIDE DEF cells, step
<1>9. HeaderRun(cells, n, cell)
  <2>1. \A k \in 0..n : cells[k] = IF k = 0 THEN <<>>
          ELSE IF k = 1 THEN Cell(1) ELSE cells[k - 1] \o <<Bar>> \o Cell(k)
    BY <1>3, <1>8
  <2>2. \A k \in 0..n : k # 0 => k \in 1..n /\ 1 \in 1..n
    OBVIOUS
  <2> HIDE DEF Def
  <2> QED
    BY <1>4, <2>1, <2>2, Zenon DEF HeaderRun
<1> HIDE DEF Def
<1>10. text \in Bytes /\ Len(text) + 1 = t
  <2>1. text = cells[n]
    BY <1>3, Zenon
  <2> HIDE DEF text
  <2>2. cells[n] \in Bytes /\ Len(cells[n]) + 1 = n * Pitch
    BY <1>5, <1>9, HeaderRunIs
  <2> QED
    BY <2>1, <2>2, Zenon
<1> HIDE DEF text
<1>11. line \in Bytes /\ Len(line) = t + 1
  <2> DEFINE bar == <<Bar>>
             left == bar \o text
             x == Len(text)
             y == Len(left)
             z == Len(left \o bar)
  <2>1. bar \in Bytes /\ Len(bar) = 1
    BY DEF Bytes, Bar
  <2> HIDE DEF bar
  <2>2. left \in Bytes /\ y = Len(bar) + x /\ x \in Nat
    BY <1>10, <2>1, JoinedBytes
  <2> HIDE DEF left
  <2>3. left \o bar \in Bytes /\ z = y + Len(bar)
    BY <2>1, <2>2, JoinedBytes
  <2>4. x + 1 = t /\ y = 1 + x /\ z = y + 1 /\ x \in Nat
    BY <1>10, <2>1, <2>2, <2>3, Zenon
  <2> HIDE DEF x, y, z
  <2>5. z = t + 1
    BY <2>4
  <2> QED
    BY <2>3, <2>5, Zenon DEF z, left, bar
<1> HIDE DEF line, ruled
<1>12. t \in Nat \ {0}
  <2>1. Len(text) \in Nat
    BY <1>10 DEF Bytes
  <2> QED
    BY <1>10, <2>1
<1> DEFINE none == <<>>
<1>13. PICK first \in Bytes : Len(first) = t + 1 /\ ruled = Tab(Append(none, first), none, h, w, 0, 0, t)
  <2>1. none \in Seq(Bytes)
    OBVIOUS
  <2>2. tp = Tab(none, <<>>, h, w, 0, 0, t)
    BY Zenon DEF tp
  <2> HIDE DEF none
  <2>3. PICK rule \in Bytes : IsRuled(rule, none, h, w, 0, 0, t)
    BY <1>12, <2>1, RuleIs
  <2> QED
    BY <2>2, <2>3, Zenon DEF ruled, none, IsRuled
<1> DEFINE l1 == Append(none, first)
           l2 == Append(l1, line)
<1>14. l1 \in Seq(Bytes) /\ Len(l1) = 1 /\ l1[1] = first
  OBVIOUS
<1> HIDE DEF l1
<1>15. l2 \in Seq(Bytes) /\ Len(l2) = 2 /\ l2[1] = first /\ l2[2] = line
  <2>1. IsLonger(l2, l1, line)
    BY <1>11, <1>14, OneLineMore
  <2> HIDE DEF l2
  <2> QED
    BY <1>14, <2>1 DEF IsLonger
<1> HIDE DEF l2
<1>16. EndLine(Put(ruled, line)) = Tab(l2, <<>>, h, w, 0, 0, t)
  <2>1. ruled = Tab(l1, none, h, w, 0, 0, t)
    BY <1>13, Zenon DEF l1
  <2>2. none \o line = line
    BY <1>11 DEF Bytes
  <2> HIDE DEF none
  <2>3. Put(Tab(l1, none, h, w, 0, 0, t), line) = Tab(l1, none \o line, h, w, 0, 0, t)
    BY PutIs
  <2>4. EndLine(Tab(l1, line, h, w, 0, 0, t)) = Tab(Append(l1, line), <<>>, h, w, 0, 0, t)
    BY EndLineIs
  <2> QED
    BY <2>1, <2>2, <2>3, <2>4, Zenon DEF l2
<1>17. PICK last \in Bytes : IsRuled(last, l2, h, w, 0, 0, t)
  BY <1>12, <1>15, RuleIs
<1> DEFINE l == Append(l2, last)
<1>18. /\ l \in Seq(Bytes) /\ Len(l) = 3
       /\ l[1] = first /\ l[2] = line /\ l[3] = last
  <2>1. IsLonger(l, l2, last)
    BY <1>15, OneLineMore
  <2> HIDE DEF l
  <2> QED
    BY <1>15, <2>1 DEF IsLonger
<1> HIDE DEF l
<1>19. IsHeader(l, t)
  <2>1. \A k \in 1..3 : k = 1 \/ k = 2 \/ k = 3
    OBVIOUS
  <2> QED
    BY <1>11, <1>13, <1>17, <1>18, <2>1, Zenon DEF IsHeader, IsRuled
<1>20. PrintHeader(tp) = Tab(l, <<>>, h, w, 0, 0, t)
  BY <1>1, <1>16, <1>17, Zenon DEF l, IsRuled
<1> QED
  BY <1>18, <1>19, <1>20, Zenon DEF tp

(* The lines of the header and of k rows.                                  *)
IsBody(l, k, t, cmd, data) ==
  /\ Len(l) = k + 3
  /\ \A m \in 1..(k + 3) : \/ Len(l[m]) = t + 1
                           \/ m \in 4..(k + 3) /\ TooWide(cmd, data[m - 3])

LEMMA HeaderIsBody ==
  ASSUME NEW l \in Seq(Bytes), NEW t \in Nat, IsHeader(l, t), NEW cmd, NEW data
  PROVE  IsBody(l, 0, t, cmd, data)
BY DEF IsHeader, IsBody

LEMMA BodyGrows ==
  ASSUME NEW k \in Nat, NEW t \in Nat, NEW l \in Seq(Bytes), NEW line \in Bytes, NEW longer,
         NEW cmd, NEW data, IsBody(l, k, t, cmd, data), IsLonger(longer, l, line),
         TooWide(cmd, data[k + 1]) \/ Len(line) = t + 1
  PROVE  IsBody(longer, k + 1, t, cmd, data)
<1>1. /\ Len(l) = k + 3
      /\ \A m \in 1..(k + 3) : \/ Len(l[m]) = t + 1
                               \/ m \in 4..(k + 3) /\ TooWide(cmd, data[m - 3])
  BY DEF IsBody
<1>2. /\ longer \in Seq(Bytes) /\ Len(longer) = Len(l) + 1
      /\ \A m \in 1..Len(l) : longer[m] = l[m]
      /\ longer[Len(l) + 1] = line
  BY DEF IsLonger
<1>3. Len(longer) = k + 1 + 3
  BY <1>1, <1>2
<1>4. ASSUME NEW m \in 1..(k + 1 + 3)
      PROVE  \/ Len(longer[m]) = t + 1
             \/ m \in 4..(k + 1 + 3) /\ TooWide(cmd, data[m - 3])
  <2>1. CASE m \in 1..(k + 3)
    <3>1. longer[m] = l[m]
      BY <1>1, <1>2, <2>1, Zenon
    <3>2. m \in 4..(k + 3) => m \in 4..(k + 1 + 3)
      OBVIOUS
    <3> QED
      BY <1>1, <2>1, <3>1, <3>2, Zenon
  <2>2. CASE m = k + 1 + 3
    <3>1. m = Len(l) + 1 /\ m - 3 = k + 1 /\ m \in 4..(k + 1 + 3)
      BY <1>1, <2>2
    <3>2. longer[m] = line
      BY <1>2, <3>1, Zenon
    <3> QED
      BY <3>1, <3>2, Zenon
  <2>3. m \in 1..(k + 3) \/ m = k + 1 + 3
    OBVIOUS
  <2> QED
    BY <2>1, <2>2, <2>3, Zenon
<1> QED
  BY <1>3, <1>4, Zenon DEF IsBody

(* The tables between two rows.                                            *)
BetweenRows(h, w, t) == {Tab(l, <<>>, h, w, i, 0, t) : l \in Seq(Bytes), i \in Nat}

LEMMA BetweenRowsIs ==
  ASSUME NEW h, NEW w, NEW t, NEW l \in Seq(Bytes), NEW i \in Nat
  PROVE  Tab(l, <<>>, h, w, i, 0, t) \in BetweenRows(h, w, t)
BY DEF BetweenRows

LEMMA RowStays ==
  ASSUME NEW cmd \in ValidCommands, IsTable(cmd), NEW row \in Records,
         NEW n, n = Len(Columns(cmd)),
         NEW h \in Seq(Bytes), NEW w \in Seq(Nat), NEW t \in Nat,
         Len(h) = n, Len(w) = n, \A k \in 1..n : w[k] = W,
         NEW tp \in BetweenRows(h, w, t)
  PROVE  PrintRow(tp, cmd, row) \in BetweenRows(h, w, t)
<1>1. PICK l \in Seq(Bytes), i \in Nat : tp = Tab(l, <<>>, h, w, i, 0, t)
  BY DEF BetweenRows
<1>2. PICK line \in Bytes : IsRow(line, n, l, h, w, i, t, cmd, row)
  BY RowIs
<1>3. PrintRow(tp, cmd, row) = Tab(Append(l, line), <<>>, h, w, i + 1, 0, t)
  BY <1>1, <1>2, Zenon DEF IsRow
<1>4. Append(l, line) \in Seq(Bytes) /\ i + 1 \in Nat
  OBVIOUS
<1>5. Tab(Append(l, line), <<>>, h, w, i + 1, 0, t) \in BetweenRows(h, w, t)
  BY <1>4, BetweenRowsIs
<1> QED
  BY <1>3, <1>5, Zenon

(* The rows of a table, below its header.                                  *)
IsPrinted(l, h, w, t, tp, k, cmd, data) ==
  /\ IsBody(l, k, t, cmd, data)
  /\ tp = Tab(l, <<>>, h, w, k, 0, t)

LEMMA RowsArePrinted ==
  ASSUME NEW cmd \in ValidCommands, IsTable(cmd), NEW data \in Seq(Records),
         NEW n, n = Len(Columns(cmd)),
         NEW h \in Seq(Bytes), NEW w \in Seq(Nat), NEW t \in Nat,
         Len(h) = n, Len(w) = n, \A k \in 1..n : w[k] = W, t = n * Pitch,
         NEW l \in Seq(Bytes), IsHeader(l, t)
  PROVE  \E lines \in Seq(Bytes) :
           IsPrinted(lines, h, w, t, PrintRows(Tab(l, <<>>, h, w, 0, 0, t), cmd, data), Len(data),
                     cmd, data)
<1> DEFINE N == Len(data)
           tp == Tab(l, <<>>, h, w, 0, 0, t)
           S == BetweenRows(h, w, t)
           step == [k \in 1..N |-> [x \in S |-> PrintRow(x, cmd, data[k])]]
           Def(f) == f = [k \in 0..N |-> IF k = 0 THEN tp ELSE PrintRow(f[k - 1], cmd, data[k])]
           body == CHOOSE f : Def(f)
<1>1. PrintRows(tp, cmd, data) = body[N]
  BY Zenon DEF PrintRows
<1>2. N \in Nat /\ \A k \in 1..N : data[k] \in Records
  OBVIOUS
<1> HIDE DEF N
<1>3. tp \in S
  BY BetweenRowsIs
<1>4. \A k \in 1..N : \A x \in S : PrintRow(x, cmd, data[k]) \in S
  <2> TAKE k \in 1..N
  <2> TAKE x \in S
  <2> DEFINE row == data[k]
  <2>1. row \in Records
    BY <1>2
  <2> HIDE DEF row
  <2>2. PrintRow(x, cmd, row) \in S
    BY <2>1, RowStays
  <2> QED
    BY <2>2, Zenon DEF row
<1> HIDE DEF S, tp
<1>5. PICK f : DefinedBySteps(f, N, S, tp, step)
  <2>1. step \in [1..N -> [S -> S]]
    BY <1>4
  <2> HIDE DEF step
  <2> QED
    BY <1>2, <1>3, <2>1, StepsDefine
<1>6. Def(f)
  <2>1. f \in [0..N -> S] /\ f = [k \in 0..N |-> IF k = 0 THEN tp ELSE step[k][f[k - 1]]]
    BY <1>5, Zenon DEF DefinedBySteps
  <2>2. ASSUME NEW k \in 0..N, k # 0
        PROVE  step[k][f[k - 1]] = PrintRow(f[k - 1], cmd, data[k])
    <3>1. k \in 1..N /\ k - 1 \in 0..N
      BY <1>2, <2>2
    <3>2. f[k - 1] \in S
      BY <2>1, <3>1
    <3> QED
      BY <3>1, <3>2
  <2> HIDE DEF step
  <2>3. \A k \in 0..N : (IF k = 0 THEN tp ELSE step[k][f[k - 1]])
          = IF k = 0 THEN tp ELSE PrintRow(f[k - 1], cmd, data[k])
    BY <2>2, Zenon
  <2> QED
    BY <2>1, <2>3
<1>7. Def(body)
  <2> HIDE DEF Def
  <2> QED
    BY <1>6, Zenon
<1> HIDE DEF body, step
<1>8. \A k \in 0..N : body[k] = IF k = 0 THEN tp ELSE PrintRow(body[k - 1], cmd, data[k])
  BY <1>7
<1> HIDE DEF Def
<1> DEFINE T == {k \in 0..N : \E lines \in Seq(Bytes) :
                                IsPrinted(lines, h, w, t, body[k], k, cmd, data)}
<1>9. 0 \in T
  <2>1. 0 \in 0..N
    BY <1>2
  <2>2. body[0] = tp
    BY <1>8, <2>1
  <2>3. IsBody(l, 0, t, cmd, data)
    BY HeaderIsBody
  <2> QED
    BY <2>1, <2>2, <2>3, Zenon DEF IsPrinted, tp
<1>10. ASSUME NEW k \in 0..(N - 1), k \in T
       PROVE  k + 1 \in T
  <2> DEFINE m == k + 1
             row == data[m]
  <2>1. m \in 0..N /\ m \in 1..N /\ m # 0 /\ m - 1 = k /\ k \in Nat
    BY <1>2
  <2>2. row \in Records
    BY <1>2, <2>1
  <2>3. PICK lines \in Seq(Bytes) : IsPrinted(lines, h, w, t, body[k], k, cmd, data)
    BY <1>10, Zenon
  <2>4. body[k] = Tab(lines, <<>>, h, w, k, 0, t) /\ IsBody(lines, k, t, cmd, data)
    BY <2>3, Zenon DEF IsPrinted
  <2> HIDE DEF m, row, T
  <2>5. PICK line \in Bytes : IsRow(line, n, lines, h, w, k, t, cmd, row)
    BY <2>1, <2>2, RowIs
  <2> DEFINE longer == Append(lines, line)
  <2>6. body[m] = Tab(longer, <<>>, h, w, k + 1, 0, t)
    <3>1. body[m] = PrintRow(body[m - 1], cmd, data[m])
      BY <1>8, <2>1, Zenon
    <3>2. body[m] = PrintRow(body[k], cmd, row)
      BY <2>1, <3>1, Zenon DEF row
    <3> QED
      BY <2>4, <2>5, <3>2, Zenon DEF IsRow
  <2>7. IsLonger(longer, lines, line)
    BY OneLineMore
  <2> HIDE DEF longer
  <2>8. TooWide(cmd, data[k + 1]) \/ Len(line) = t + 1
    BY <2>5, Zenon DEF IsRow, row, m
  <2>9. IsBody(longer, k + 1, t, cmd, data)
    BY <2>1, <2>4, <2>7, <2>8, BodyGrows
  <2>10. longer \in Seq(Bytes)
    BY <2>7 DEF IsLonger
  <2> QED
    BY <2>1, <2>6, <2>9, <2>10, Zenon DEF m, T, IsPrinted
<1>11. \A k \in 0..N : k \in T
  <2> HIDE DEF T
  <2> QED
    BY <1>2, <1>9, <1>10, Induction
<1>12. N \in 0..N
  BY <1>2
<1> QED
  BY <1>1, <1>11, <1>12, Zenon DEF N, tp

(* A command without a table prints none.                                  *)
LEMMA NothingInARow ==
  ASSUME NEW cmd \in ValidCommands, ~IsTable(cmd), NEW tp, NEW row
  PROVE  PrintRow(tp, cmd, row) = tp
<1> DEFINE n == Len(Columns(cmd))
           Def(f) == f = [k \in 0..n |->
                            IF k = 0 THEN tp
                            ELSE PrintCell(f[k - 1], Field(row, Columns(cmd)[k][2]))]
           cells == CHOOSE f : Def(f)
           g == [k \in 0..n |-> tp]
<1>1. PrintRow(tp, cmd, row) = cells[n]
  BY Zenon DEF PrintRow
<1>2. n = 0
  BY NoColumns
<1> HIDE DEF n
<1>3. Def(g)
  <2>1. \A k \in 0..n : k = 0
    BY <1>2
  <2>2. \A k \in 0..n : tp = IF k = 0 THEN tp
                             ELSE PrintCell(g[k - 1], Field(row, Columns(cmd)[k][2]))
    BY <2>1, Zenon
  <2> QED
    BY <2>2
<1>4. Def(cells)
  <2> HIDE DEF Def
  <2> QED
    BY <1>3, Zenon
<1> HIDE DEF cells
<1>5. cells[0] = tp
  <2>1. 0 \in 0..n
    BY <1>2
  <2> QED
    BY <1>4, <2>1
<1> QED
  BY <1>1, <1>2, <1>5, Zenon

LEMMA NothingIsPrinted ==
  ASSUME NEW cmd \in ValidCommands, ~IsTable(cmd), NEW tp, NEW data \in Seq(Records)
  PROVE  PrintRows(tp, cmd, data) = tp
<1> DEFINE N == Len(data)
           Def(f) == f = [k \in 0..N |-> IF k = 0 THEN tp ELSE PrintRow(f[k - 1], cmd, data[k])]
           body == CHOOSE f : Def(f)
           g == [k \in 0..N |-> tp]
<1>1. PrintRows(tp, cmd, data) = body[N]
  BY Zenon DEF PrintRows
<1>2. N \in Nat
  OBVIOUS
<1> HIDE DEF N
<1>3. Def(g)
  <2>1. \A k \in 0..N : k # 0 => k - 1 \in 0..N
    BY <1>2
  <2>2. \A k \in 0..N : k # 0 => g[k - 1] = tp
    BY <2>1
  <2> HIDE DEF g
  <2>3. \A k \in 0..N : tp = IF k = 0 THEN tp ELSE PrintRow(g[k - 1], cmd, data[k])
    BY <2>2, NothingInARow, Zenon
  <2>4. g = [k \in 0..N |-> tp]
    BY DEF g
  <2> QED
    BY <2>3, <2>4
<1>4. Def(body)
  <2> HIDE DEF Def
  <2> QED
    BY <1>3, Zenon
<1> HIDE DEF body
<1>5. \A k \in 0..N : body[k] = IF k = 0 THEN tp ELSE PrintRow(body[k - 1], cmd, data[k])
  BY <1>4
<1> DEFINE T == {k \in 0..N : body[k] = tp}
<1>6. 0 \in T
  <2>1. 0 \in 0..N
    BY <1>2
  <2> QED
    BY <1>5, <2>1
<1> HIDE DEF Def
<1>7. ASSUME NEW k \in 0..(N - 1), k \in T
      PROVE  k + 1 \in T
  <2> DEFINE m == k + 1
  <2>1. m \in 0..N /\ m # 0 /\ m - 1 = k
    BY <1>2
  <2>2. body[k] = tp
    BY <1>7
  <2> HIDE DEF m
  <2>3. body[m] = PrintRow(body[m - 1], cmd, data[m])
    BY <1>5, <2>1, Zenon
  <2>4. body[m] = tp
    BY <2>1, <2>2, <2>3, NothingInARow, Zenon
  <2> QED
    BY <2>1, <2>4, Zenon DEF m
<1>8. \A k \in 0..N : k \in T
  <2> HIDE DEF T
  <2> QED
    BY <1>2, <1>6, <1>7, Induction
<1>9. N \in 0..N
  BY <1>2
<1> QED
  BY <1>1, <1>8, <1>9, Zenon

(* A whole table: its header, a row for each one that is printed, and the  *)
(* rule below them.                                                        *)
IsTableOf(tp, k, t, cmd, data) ==
  /\ tp.line = <<>> /\ tp.j = 0 /\ tp.i = k /\ tp.table_width = t
  /\ Len(tp.lines) = k + 4
  /\ \A m \in 1..(k + 4) : \/ Len(tp.lines[m]) = t + 1
                           \/ m \in 4..(k + 3) /\ TooWide(cmd, data[m - 3])

LEMMA FooterIs ==
  ASSUME NEW k \in Nat, NEW t \in Nat \ {0}, NEW h \in Seq(Bytes), NEW w \in Seq(Nat),
         NEW l \in Seq(Bytes), NEW tp, NEW cmd, NEW data,
         IsPrinted(l, h, w, t, tp, k, cmd, data)
  PROVE  IsTableOf(PrintFooter(tp), k, t, cmd, data)
<1>1. tp = Tab(l, <<>>, h, w, k, 0, t) /\ IsBody(l, k, t, cmd, data)
  BY Zenon DEF IsPrinted
<1>2. PICK rule \in Bytes : IsRuled(rule, l, h, w, k, 0, t)
  BY RuleIs
<1> DEFINE m == Append(l, rule)
           footed == Tab(m, <<>>, h, w, k, 0, t)
<1>3. PrintFooter(tp) = footed /\ Len(rule) = t + 1
  BY <1>1, <1>2, Zenon DEF PrintFooter, IsRuled
<1>4. IsLonger(m, l, rule)
  BY OneLineMore
<1> HIDE DEF m
<1>5. /\ footed.line = <<>> /\ footed.j = 0 /\ footed.i = k /\ footed.table_width = t
      /\ footed.lines = m
  BY TabFields
<1> HIDE DEF footed
<1>6. /\ Len(l) = k + 3
      /\ \A n \in 1..(k + 3) : \/ Len(l[n]) = t + 1
                               \/ n \in 4..(k + 3) /\ TooWide(cmd, data[n - 3])
  BY <1>1 DEF IsBody
<1>7. /\ Len(m) = Len(l) + 1 /\ \A n \in 1..Len(l) : m[n] = l[n]
      /\ m[Len(l) + 1] = rule
  BY <1>4 DEF IsLonger
<1>8. Len(m) = k + 4
  BY <1>6, <1>7
<1>9. ASSUME NEW n \in 1..(k + 4)
      PROVE  \/ Len(m[n]) = t + 1
             \/ n \in 4..(k + 3) /\ TooWide(cmd, data[n - 3])
  <2>1. CASE n \in 1..(k + 3)
    BY <1>6, <1>7, <2>1, Zenon
  <2>2. CASE n = k + 4
    <3>1. n = Len(l) + 1
      BY <1>6, <2>2
    <3> QED
      BY <1>3, <1>7, <3>1, Zenon
  <2>3. n \in 1..(k + 3) \/ n = k + 4
    OBVIOUS
  <2> QED
    BY <2>1, <2>2, <2>3
<1>10. IsTableOf(footed, k, t, cmd, data)
  BY <1>5, <1>8, <1>9, Zenon DEF IsTableOf
<1> QED
  BY <1>3, <1>10, Zenon

LEMMA PrintedIs ==
  ASSUME NEW cmd \in ValidCommands, IsTable(cmd), NEW data \in Seq(Records)
  PROVE  \E t \in Nat :
           IsTableOf(PrintFooter(PrintRows(PrintHeader(AddColumns(cmd)), cmd, data)),
                     Len(data), t, cmd, data)
<1> DEFINE n == Len(Columns(cmd))
<1>1. n \in Nat \ {0}
  <2>1. n \in 1..3
    BY ColumnsAre, Zenon
  <2> HIDE DEF n
  <2> QED
    BY <2>1
<1>2. OfColumns(AddColumns(cmd), n)
  BY ColumnsAreAdded
<1>3. n = Len(Columns(cmd))
  OBVIOUS
<1> HIDE DEF n
<1>4. PICK h \in Seq(Bytes), w \in Seq(Nat), t \in Nat :
        /\ AddColumns(cmd) = Tab(<<>>, <<>>, h, w, 0, 0, t)
        /\ Len(h) = n /\ Len(w) = n /\ t = n * Pitch
        /\ \A k \in 1..n : w[k] = W
  BY <1>2, Zenon DEF OfColumns
<1>5. PICK l \in Seq(Bytes) :
        /\ IsHeader(l, t)
        /\ PrintHeader(Tab(<<>>, <<>>, h, w, 0, 0, t)) = Tab(l, <<>>, h, w, 0, 0, t)
  BY <1>1, <1>4, HeaderIs
<1>6. t # 0
  <2>1. Pitch \in Nat /\ Pitch # 0
    BY WidthIs
  <2>2. n * Pitch # 0
    BY <1>1, <2>1
  <2> QED
    BY <1>4, <2>2, Zenon
<1> DEFINE header == Tab(l, <<>>, h, w, 0, 0, t)
           body == PrintRows(header, cmd, data)
<1>7. PICK lines \in Seq(Bytes) : IsPrinted(lines, h, w, t, body, Len(data), cmd, data)
  BY <1>3, <1>4, <1>5, RowsArePrinted
<1>8. PrintRows(PrintHeader(AddColumns(cmd)), cmd, data) = body
  BY <1>4, <1>5, Zenon
<1> HIDE DEF body
<1>9. IsTableOf(PrintFooter(body), Len(data), t, cmd, data)
  <2>1. Len(data) \in Nat /\ t \in Nat \ {0}
    BY <1>6
  <2> QED
    BY <1>7, <2>1, FooterIs
<1> QED
  BY <1>8, <1>9, Zenon

(* The table of a response.                                                *)
LEMMA TableIsWhole ==
  ASSUME NEW res, res.data \in Seq(Records), NEW cmd \in ValidCommands
  PROVE  IsWhole(printQueryResult(res, cmd, 0), cmd, res.data)
<1> DEFINE all == res.data
           data == substr(all, printRowLimit)
           header == IF IsTable(cmd) THEN PrintHeader(AddColumns(cmd)) ELSE AddColumns(cmd)
           body == PrintRows(header, cmd, data)
           table == IF IsTable(cmd) THEN PrintFooter(body) ELSE body
           out == printQueryResult(res, cmd, 0)
           more == Len(all) > printRowLimit
           Good(tp) == tp = Table
<1>1. /\ printRowLimit \in Nat /\ Len(all) \in Nat
      /\ data \in Seq(Records)
      /\ Len(data) = IF Len(all) < printRowLimit THEN Len(all) ELSE printRowLimit
      /\ \A k \in 1..Len(data) : data[k] = all[k]
  BY printRowLimitAssumption, substrIs
<1>2. out.table = table /\ out.read = Len(all) /\ out.more = more
  <2> DEFINE time == IF 0 = 0 THEN 1 ELSE 0
             read == Len(all)
  <2>1. out = [table |-> table, read |-> read, time |-> time, more |-> more]
    BY Zenon DEF printQueryResult
  <2> HIDE DEF table, read, time, more, out
  <2>2. out.table = table /\ out.read = read /\ out.more = more
    BY <2>1
  <2> QED
    BY <2>2, Zenon DEF read
<1>3. CASE ~IsTable(cmd)
  <2>1. Columns(cmd) = <<>> /\ Len(Columns(cmd)) = 0
    BY <1>3, NoColumns
  <2>2. table = PrintRows(AddColumns(cmd), cmd, data)
    BY <1>3, Zenon
  <2>3. table = AddColumns(cmd)
    BY <1>1, <1>3, <2>2, NothingIsPrinted, Zenon
  <2>4. AddColumns(cmd) = Table
    <3>1. PICK h \in Seq(Bytes), w \in Seq(Nat), t \in Nat :
            /\ AddColumns(cmd) = Tab(<<>>, <<>>, h, w, 0, 0, t)
            /\ Len(h) = 0 /\ Len(w) = 0 /\ t = 0 * Pitch
      <4>1. OfColumns(AddColumns(cmd), 0)
        BY <2>1, ColumnsAreAdded
      <4> QED
        BY <4>1, Zenon DEF OfColumns
    <3>2. h = <<>> /\ w = <<>> /\ t = 0
      <4>1. h = <<>>
        BY <3>1
      <4>2. w = <<>>
        BY <3>1
      <4>3. t = 0
        BY <3>1, WidthIs
      <4> QED
        BY <4>1, <4>2, <4>3
    <3> QED
      BY <3>1, <3>2, Zenon DEF Table, Tab
  <2> HIDE DEF table, out
  <2> QED
    BY <1>2, <1>3, <2>3, <2>4, Zenon DEF IsWhole, out
<1>4. CASE IsTable(cmd)
  <2>1. table = PrintFooter(PrintRows(PrintHeader(AddColumns(cmd)), cmd, data))
    BY <1>4, Zenon
  <2>2. PICK t \in Nat : IsTableOf(table, Len(data), t, cmd, data)
    BY <1>1, <1>4, <2>1, PrintedIs, Zenon
  <2> HIDE DEF table, out
  <2>3. /\ table.line = <<>> /\ table.j = 0 /\ table.i = Len(data) /\ table.table_width = t
        /\ Len(table.lines) = Len(data) + 4
        /\ \A m \in 1..(Len(data) + 4) :
             \/ Len(table.lines[m]) = t + 1
             \/ m \in 4..(Len(data) + 3) /\ TooWide(cmd, data[m - 3])
    BY <2>2, Zenon DEF IsTableOf
  <2>4. Len(table.lines) = table.i + 4
    BY <2>3, Zenon
  <2>5. Len(data) \in Nat /\ Len(data) <= Len(all) /\ more = (Len(data) < Len(all))
    <3> DEFINE x == Len(data)
               y == Len(all)
    <3>1. x = (IF y < printRowLimit THEN y ELSE printRowLimit) /\ y \in Nat /\ printRowLimit \in Nat
      BY <1>1, Zenon
    <3>2. more = (y > printRowLimit)
      OBVIOUS
    <3> HIDE DEF x, y, more
    <3>3. x \in Nat /\ x <= y /\ (y > printRowLimit <=> x < y)
      BY <3>1
    <3>4. more = (x < y)
      BY <3>2, <3>3
    <3> QED
      BY <3>3, <3>4, Zenon DEF x, y
  <2> HIDE DEF more, data
  <2>6. table.i <= out.read /\ out.more = (table.i < out.read)
    BY <1>2, <2>3, <2>5, Zenon
  <2>7. ASSUME NEW m \in 1..Len(table.lines)
        PROVE  \/ Len(table.lines[m]) = table.table_width + 1
               \/ m \in 4..(table.i + 3) /\ TooWide(cmd, all[m - 3])
    <3>1. m \in 1..(Len(data) + 4)
      BY <2>3, Zenon
    <3>2. \/ Len(table.lines[m]) = t + 1
          \/ m \in 4..(Len(data) + 3) /\ TooWide(cmd, data[m - 3])
      BY <2>3, <3>1, Zenon
    <3>3. m \in 4..(Len(data) + 3) => data[m - 3] = all[m - 3]
      <4> SUFFICES ASSUME m \in 4..(Len(data) + 3)
                   PROVE  data[m - 3] = all[m - 3]
        OBVIOUS
      <4>1. m - 3 \in 1..Len(data)
        BY <2>5
      <4> QED
        BY <1>1, <4>1
    <3> QED
      BY <2>3, <3>2, <3>3, Zenon
  <2> QED
    BY <1>2, <1>4, <2>3, <2>4, <2>6, <2>7, Zenon DEF IsWhole, out, all
<1> QED
  BY <1>3, <1>4

(* Whatever rows the client shows, and whichever command they are taken to *)
(* answer, no row of the table is left unfinished, every one that is       *)
(* missing is announced, and the lines are as wide as the rules unless a   *)
(* text is wider than its column, for any headings and any such width.     *)
THEOREM TablesStayWhole == Spec => []TablesAreWhole
<1>1. IInv => TablesAreWhole
  <2> SUFFICES ASSUME IInv, NEW cmd \in ValidCommands
               PROVE  IsWhole(printQueryResult(shown, cmd, 0), cmd, shown.data)
    BY Zenon DEF TablesAreWhole
  <2>1. shown.data \in Seq(Records)
    BY ResponsesAre DEF IInv, ReplyInv
  <2> QED
    BY <2>1, TableIsWhole
<1> QED
  BY <1>1, Invariant, PTL
=============================================================================
