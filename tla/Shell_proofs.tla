---------------------------- MODULE Shell_proofs ----------------------------
(***************************************************************************)
(* What one connection keeps, for every size of a byte, all messages and   *)
(* any number of requests.  The first part is about bytes on a stream, the *)
(* second about the two ends of the connection.                            *)
(***************************************************************************)
EXTENDS Shell, PackedMessage, SequenceTheorems, TLAPS

(* The header of a message names its size, for every number of values that *)
(* a byte may have and every size that four of them can express.           *)

(* Division by the base leaves a quotient and a byte.                      *)
LEMMA Split ==
  ASSUME NEW n \in Nat
  PROVE  /\ n \div Base \in Nat
         /\ n % Base \in Byte
         /\ n = (n \div Base) * Base + (n % Base)
BY BaseAssumption DEF Byte

(* What is below a multiple of the base has a quotient below the factor.   *)
LEMMA QuotientBound ==
  ASSUME NEW n \in Nat, NEW k \in Nat, n < k * Base
  PROVE  n \div Base < k
<1> DEFINE q == n \div Base
           r == n % Base
<1>1. q \in Nat /\ r \in Nat /\ n = q * Base + r
  BY Split DEF Byte
<1> HIDE DEF q, r
<1>2. SUFFICES ASSUME k <= q
               PROVE  FALSE
  BY <1>1 DEF q
<1>3. k * Base <= q * Base
  BY <1>1, <1>2, BaseAssumption
<1> QED
  BY <1>1, <1>3, BaseAssumption

(* A header consists of bytes.                                             *)
LEMMA HeaderIsBytes ==
  ASSUME NEW size \in Nat
  PROVE  encode_header(size) \in [1..HEADER_SIZE -> Byte]
<1> DEFINE u3 == size \div Base
           u2 == u3 \div Base
           u1 == u2 \div Base
<1>1. u3 \in Nat /\ size % Base \in Byte
  BY Split
<1> HIDE DEF u3
<1>2. u2 \in Nat /\ u3 % Base \in Byte
  BY <1>1, Split
<1> HIDE DEF u2
<1>3. u1 \in Nat /\ u2 % Base \in Byte
  BY <1>2, Split
<1> HIDE DEF u1
<1>4. u1 % Base \in Byte
  BY <1>3, Split
<1>5. encode_header(size) = <<u1 % Base, u2 % Base, u3 % Base, size % Base>>
  BY DEF encode_header, u1, u2, u3
<1> QED
  BY <1>1, <1>2, <1>3, <1>4, <1>5 DEF HEADER_SIZE

(* decode_header reads back what encode_header wrote, without loss for any *)
(* size of up to four bytes: the boundaries between the bytes included.    *)
THEOREM HeaderNamesSize ==
  ASSUME NEW size \in Sizes
  PROVE  decode_header(encode_header(size)) = size
<1> DEFINE u3 == size \div Base
           u2 == u3 \div Base
           u1 == u2 \div Base
<1>0. size \in Nat /\ size < (Base * Base * Base) * Base
  BY BaseAssumption DEF Sizes
<1>b. Base * Base \in Nat /\ Base * Base * Base \in Nat /\ Base \in Nat
  BY BaseAssumption
<1>1. u3 \in Nat /\ size = u3 * Base + (size % Base) /\ size % Base \in Nat
  BY <1>0, Split DEF Byte
<1>2. u3 < (Base * Base) * Base
  BY <1>0, <1>b, QuotientBound
<1> HIDE DEF u3
<1>3. u2 \in Nat /\ u3 = u2 * Base + (u3 % Base) /\ u3 % Base \in Nat
  BY <1>1, Split DEF Byte
<1>4. u2 < Base * Base
  BY <1>1, <1>2, <1>b, QuotientBound DEF u2
<1> HIDE DEF u2
<1>5. u1 \in Nat /\ u2 = u1 * Base + (u2 % Base) /\ u2 % Base \in Nat
  BY <1>3, Split DEF Byte
<1>6. u1 < Base
  BY <1>3, <1>4, <1>b, QuotientBound DEF u1
<1> HIDE DEF u1
<1>7. u1 % Base = u1
  BY <1>5, <1>6, BaseAssumption
<1>8. encode_header(size) = <<u1, u2 % Base, u3 % Base, size % Base>>
  BY <1>7 DEF encode_header, u1, u2, u3
<1>9. decode_header(encode_header(size))
        = ((u1 * Base + (u2 % Base)) * Base + (u3 % Base)) * Base + (size % Base)
  BY <1>8 DEF decode_header
<1> QED
  BY <1>1, <1>3, <1>5, <1>9

-----------------------------------------------------------------------------

(* at[i] is where message i ends on the stream of all the bodies.          *)
Ends(at, bodies) ==
  /\ at \in [0..Len(bodies) -> Nat]
  /\ \A i \in 1..Len(bodies) : at[i] = at[i - 1] + HEADER_SIZE + Len(bodies[i])
  /\ \A i, j \in 0..Len(bodies) : i <= j => at[i] <= at[j]

(* bytes are on that stream, from the end of message n on.                 *)
Follow(bytes, bodies, n, at) ==
  \A i \in (n + 1)..Len(bodies) : \A k \in 1..(HEADER_SIZE + Len(bodies[i])) :
    LET p == at[i - 1] - at[n] + k IN
    p <= Len(bytes) => bytes[p] = pack(bodies[i])[k]

OnStream(bytes, bodies, n, at) ==
  /\ Ends(at, bodies)
  /\ Follow(bytes, bodies, n, at)
  /\ Len(bytes) <= at[Len(bodies)] - at[n]

-----------------------------------------------------------------------------
LEMMA EmptyBytes == <<>> \in Seq(Byte) /\ Len(<<>>) = 0
OBVIOUS

LEMMA FourIsASeq ==
  ASSUME NEW S, NEW f \in [1..4 -> S]
  PROVE  f \in Seq(S) /\ Len(f) = 4
<1>1. f \in Seq(S)
  BY SeqDef
<1>2. DOMAIN f = 1..Len(f) /\ Len(f) \in Nat /\ DOMAIN f = 1..4
  BY <1>1, LenProperties
<1>3. 4 \in 1..Len(f) /\ ~(5 \in 1..Len(f))
  BY <1>2
<1> QED
  BY <1>1, <1>2, <1>3

(* A message is its header, which names the size of its body, and its body. *)
LEMMA Packed ==
  ASSUME NEW body \in Messages
  PROVE  /\ body \in Seq(Byte) /\ Len(body) \in Nat
         /\ pack(body) \in Seq(Byte)
         /\ Len(pack(body)) = HEADER_SIZE + Len(body)
         /\ decode_header(pack(body)) = Len(body)
         /\ unpack(pack(body)) = body
         /\ \A k \in 1..Len(body) : pack(body)[HEADER_SIZE + k] = body[k]
<1>0. body \in Seq(Byte) /\ Len(body) \in Nat /\ Len(body) \in Sizes
  BY MessagesAssumption
<1> DEFINE header == encode_header(Len(body))
<1>1. header \in [1..HEADER_SIZE -> Byte]
  BY <1>0, HeaderIsBytes
<1>2. header \in Seq(Byte) /\ Len(header) = 4
  BY <1>1, FourIsASeq DEF HEADER_SIZE
<1>3. decode_header(header) = Len(body)
  BY <1>0, HeaderNamesSize
<1>4. pack(body) = header \o body
  BY DEF pack
<1> HIDE DEF header
<1>c. /\ header \o body \in Seq(Byte) /\ Len(header \o body) = Len(header) + Len(body)
      /\ \A i \in 1..(Len(header) + Len(body)) :
           (header \o body)[i] = IF i <= Len(header) THEN header[i] ELSE body[i - Len(header)]
  BY <1>0, <1>2, ConcatProperties
<1>5. /\ pack(body) \in Seq(Byte) /\ Len(pack(body)) = 4 + Len(body)
      /\ \A i \in 1..(4 + Len(body)) :
           pack(body)[i] = IF i <= 4 THEN header[i] ELSE body[i - 4]
  BY <1>0, <1>2, <1>4, <1>c
<1>6. \A k \in 1..4 : pack(body)[k] = header[k]
  BY <1>0, <1>5
<1>7. decode_header(pack(body)) = decode_header(header)
  BY <1>6 DEF decode_header
<1>8. \A k \in 1..Len(body) : pack(body)[4 + k] = body[k]
  BY <1>0, <1>5
<1>9. SubSeq(pack(body), 5, 4 + Len(body)) = body
  <2> DEFINE part == SubSeq(pack(body), 5, 4 + Len(body))
  <2>1. \A i \in 5..(4 + Len(body)) : pack(body)[i] \in Byte
    BY <1>0, <1>5
  <2>2. /\ part \in Seq(Byte)
        /\ Len(part) = IF 5 <= 4 + Len(body) THEN 4 + Len(body) - 5 + 1 ELSE 0
        /\ \A i \in 1..(4 + Len(body) - 5 + 1) : part[i] = pack(body)[5 + i - 1]
    BY <1>0, <2>1, SubSeqProperties
  <2> HIDE DEF part
  <2>3. Len(part) = Len(body)
    BY <1>0, <2>2
  <2>4. \A i \in 1..Len(body) : part[i] = body[i]
    BY <1>0, <1>8, <2>2
  <2> QED
    BY <1>0, <2>2, <2>3, <2>4, SeqEqual DEF part
<1> QED
  BY <1>0, <1>3, <1>5, <1>7, <1>8, <1>9 DEF HEADER_SIZE, unpack

LEMMA Regrouped ==
  ASSUME NEW r \in Seq(Byte), NEW s \in Seq(Byte), NEW t \in Seq(Byte)
  PROVE  r \o (s \o t) = (r \o s) \o t
BY ConcatAssociative

(* What is read of a message once the header is there.                     *)
LEMMA HeaderDecides ==
  ASSUME NEW body \in Messages, NEW buf \in Seq(Byte), Len(buf) >= HEADER_SIZE,
         \A k \in 1..HEADER_SIZE : buf[k] = pack(body)[k]
  PROVE  decode_header(buf) = Len(body)
<1>1. \A k \in 1..4 : buf[k] = pack(body)[k]
  BY DEF HEADER_SIZE
<1>2. decode_header(buf) = decode_header(pack(body))
  BY <1>1 DEF decode_header
<1> QED
  BY <1>2, Packed

LEMMA Joined ==
  ASSUME NEW S, NEW s \in Seq(S), NEW t \in Seq(S), NEW st, st = s \o t
  PROVE  /\ st \in Seq(S) /\ Len(st) = Len(s) + Len(t)
         /\ \A i \in 1..Len(s) : st[i] = s[i]
         /\ \A i \in 1..Len(t) : st[Len(s) + i] = t[i]
<1>1. /\ st \in Seq(S) /\ Len(st) = Len(s) + Len(t)
      /\ \A i \in 1..(Len(s) + Len(t)) : st[i] = IF i <= Len(s) THEN s[i] ELSE t[i - Len(s)]
  BY ConcatProperties
<1>2. Len(s) \in Nat /\ Len(t) \in Nat
  OBVIOUS
<1>3. \A i \in 1..Len(s) : st[i] = s[i]
  BY <1>1, <1>2
<1>4. ASSUME NEW i \in 1..Len(t) PROVE st[Len(s) + i] = t[i]
  <2>1. Len(s) + i \in 1..(Len(s) + Len(t)) /\ ~(Len(s) + i <= Len(s)) /\ (Len(s) + i) - Len(s) = i
    BY <1>2
  <2> QED
    BY <1>1, <2>1
<1> QED
  BY <1>1, <1>3, <1>4

LEMMA PackedBehind ==
  ASSUME NEW bytes \in Seq(Byte), NEW body \in Messages
  PROVE  LET all == bytes \o pack(body) IN
         /\ all \in Seq(Byte) /\ Len(all) = Len(bytes) + 4 + Len(body)
         /\ \A i \in 1..Len(bytes) : all[i] = bytes[i]
         /\ \A k \in 1..(4 + Len(body)) : all[Len(bytes) + k] = pack(body)[k]
<1>1. PICK p : p = pack(body)
  OBVIOUS
<1>2. p \in Seq(Byte) /\ Len(p) = 4 + Len(body) /\ Len(body) \in Nat
  BY <1>1, Packed DEF HEADER_SIZE
<1>3. PICK all : all = bytes \o p
  OBVIOUS
<1>4. all \in Seq(Byte) /\ Len(all) = Len(bytes) + Len(p)
  <2>1. all \in Seq(Byte)
    BY <1>2, <1>3, ConcatProperties
  <2>2. Len(all) = Len(bytes) + Len(p)
    BY <1>2, <1>3, ConcatProperties
  <2> QED
    BY <2>1, <2>2
<1>5. \A i \in 1..Len(bytes) : all[i] = bytes[i]
  BY <1>2, <1>3, Joined
<1>6. \A k \in 1..Len(p) : all[Len(bytes) + k] = p[k]
  BY <1>2, <1>3, Joined
<1> QED
  BY <1>1, <1>2, <1>3, <1>4, <1>5, <1>6

LEMMA Cut ==
  ASSUME NEW S, NEW s \in Seq(S), NEW n \in 0..Len(s)
  PROVE  /\ SubSeq(s, 1, n) \in Seq(S) /\ SubSeq(s, n + 1, Len(s)) \in Seq(S)
         /\ Len(SubSeq(s, 1, n)) = n /\ Len(SubSeq(s, n + 1, Len(s))) = Len(s) - n
         /\ \A i \in 1..n : SubSeq(s, 1, n)[i] = s[i]
         /\ \A i \in 1..(Len(s) - n) : SubSeq(s, n + 1, Len(s))[i] = s[n + i]
<1>0. Len(s) \in Nat /\ \A i \in 1..Len(s) : s[i] \in S
  OBVIOUS
<1>1. /\ SubSeq(s, 1, n) \in Seq(S)
      /\ Len(SubSeq(s, 1, n)) = IF 1 <= n THEN n - 1 + 1 ELSE 0
      /\ \A i \in 1..(n - 1 + 1) : SubSeq(s, 1, n)[i] = s[1 + i - 1]
  <2>1. \A i \in 1..n : s[i] \in S
    BY <1>0
  <2> QED
    BY <1>0, <2>1, SubSeqProperties
<1>2. /\ SubSeq(s, n + 1, Len(s)) \in Seq(S)
      /\ Len(SubSeq(s, n + 1, Len(s))) =
           IF n + 1 <= Len(s) THEN Len(s) - (n + 1) + 1 ELSE 0
      /\ \A i \in 1..(Len(s) - (n + 1) + 1) :
           SubSeq(s, n + 1, Len(s))[i] = s[(n + 1) + i - 1]
  <2>1. \A i \in (n + 1)..Len(s) : s[i] \in S
    BY <1>0
  <2> QED
    BY <1>0, <2>1, SubSeqProperties
<1> QED
  BY <1>0, <1>1, <1>2

(* A stream that ends earlier, behind what is in a buffer already.         *)
LEMMA CutStream ==
  ASSUME NEW S, NEW buf \in Seq(S), NEW s \in Seq(S), NEW n \in 0..Len(s),
         NEW part, part = SubSeq(s, 1, n)
  PROVE  /\ part \in Seq(S) /\ Len(part) = n
         /\ buf \o part \in Seq(S) /\ Len(buf \o part) = Len(buf) + n
         /\ Len(buf \o part) <= Len(buf \o s)
         /\ \A i \in 1..Len(buf \o part) : (buf \o part)[i] = (buf \o s)[i]
<1>0. Len(s) \in Nat /\ Len(buf) \in Nat /\ n \in Nat /\ n <= Len(s)
  OBVIOUS
<1>1. part \in Seq(S) /\ Len(part) = n /\ \A i \in 1..n : part[i] = s[i]
  BY Cut
<1> DEFINE short == buf \o part
           long == buf \o s
<1>2. short \in Seq(S) /\ Len(short) = Len(buf) + n /\ Len(long) = Len(buf) + Len(s)
  BY <1>1, ConcatProperties
<1>3. /\ \A i \in 1..Len(buf) : short[i] = buf[i]
      /\ \A i \in 1..n : short[Len(buf) + i] = part[i]
  BY <1>1, Joined
<1>4. /\ \A i \in 1..Len(buf) : long[i] = buf[i]
      /\ \A i \in 1..Len(s) : long[Len(buf) + i] = s[i]
  BY Joined
<1> HIDE DEF short, long
<1>5. ASSUME NEW i \in 1..Len(short)
      PROVE  short[i] = long[i]
  <2>1. CASE i <= Len(buf)
    BY <1>0, <1>2, <1>3, <1>4, <2>1
  <2>2. CASE ~(i <= Len(buf))
    <3>1. PICK j \in 1..n : i = Len(buf) + j
      <4>1. i - Len(buf) \in 1..n /\ i = Len(buf) + (i - Len(buf))
        BY <1>0, <1>2, <2>2
      <4> QED
        BY <4>1
    <3>2. j \in 1..Len(s)
      BY <1>0
    <3> QED
      BY <1>1, <1>3, <1>4, <3>1, <3>2
  <2> QED
    BY <2>1, <2>2
<1>6. Len(short) <= Len(long)
  BY <1>0, <1>2
<1> QED
  BY <1>1, <1>2, <1>5, <1>6 DEF short, long

(* A read moves a piece from the stream to the end of a buffer.            *)
LEMMA PieceMoves ==
  ASSUME NEW S, NEW s \in Seq(S), NEW t \in Seq(S), NEW n \in 0..Len(t)
  PROVE  /\ s \o SubSeq(t, 1, n) \in Seq(S)
         /\ SubSeq(t, n + 1, Len(t)) \in Seq(S)
         /\ Len(s \o SubSeq(t, 1, n)) = Len(s) + n
         /\ (s \o SubSeq(t, 1, n)) \o SubSeq(t, n + 1, Len(t)) = s \o t
<1> DEFINE a == SubSeq(t, 1, n)
           b == SubSeq(t, n + 1, Len(t))
<1>0. Len(s) \in Nat /\ Len(t) \in Nat /\ n \in Nat
  OBVIOUS
<1>1. /\ a \in Seq(S) /\ b \in Seq(S) /\ Len(a) = n /\ Len(b) = Len(t) - n
      /\ \A i \in 1..n : a[i] = t[i]
      /\ \A i \in 1..(Len(t) - n) : b[i] = t[n + i]
  BY Cut
<1> HIDE DEF a, b
<1>2. /\ a \o b \in Seq(S) /\ Len(a \o b) = Len(t)
      /\ \A i \in 1..Len(t) : (a \o b)[i] = IF i <= n THEN a[i] ELSE b[i - n]
  BY <1>0, <1>1, ConcatProperties
<1>3. \A i \in 1..Len(t) : (a \o b)[i] = t[i]
  BY <1>0, <1>1, <1>2
<1>4. a \o b = t
  BY <1>0, <1>2, <1>3, SeqEqual
<1>5. (s \o a) \o b = s \o (a \o b)
  BY <1>1, ConcatAssociative
<1>6. s \o a \in Seq(S) /\ Len(s \o a) = Len(s) + n
  BY <1>1, ConcatProperties
<1> QED
  BY <1>1, <1>4, <1>5, <1>6 DEF a, b

-----------------------------------------------------------------------------
LEMMA EndsGrow ==
  ASSUME NEW bodies \in Seq(Messages), NEW body \in Messages, NEW at, Ends(at, bodies)
  PROVE  LET new == [i \in 0..(Len(bodies) + 1) |->
                       IF i <= Len(bodies) THEN at[i]
                       ELSE at[Len(bodies)] + HEADER_SIZE + Len(body)]
         IN /\ Ends(new, Append(bodies, body))
            /\ \A i \in 0..Len(bodies) : new[i] = at[i]
            /\ new[Len(bodies) + 1] = at[Len(bodies)] + HEADER_SIZE + Len(body)
<1> DEFINE L == Len(bodies)
           more == Append(bodies, body)
           new == [i \in 0..(L + 1) |->
                     IF i <= L THEN at[i] ELSE at[L] + HEADER_SIZE + Len(body)]
<1>0. L \in Nat /\ Len(body) \in Nat /\ HEADER_SIZE \in Nat
  BY Packed DEF HEADER_SIZE
<1>1. /\ Len(more) = L + 1 /\ more[L + 1] = body
      /\ \A i \in 1..L : more[i] = bodies[i]
  BY AppendProperties
<1>2. /\ \A i \in 0..L : at[i] \in Nat
      /\ \A i \in 1..L : at[i] = at[i - 1] + HEADER_SIZE + Len(bodies[i])
      /\ \A i, j \in 0..L : i <= j => at[i] <= at[j]
  BY DEF Ends
<1>3. /\ \A i \in 0..L : new[i] = at[i] /\ i \in 0..(L + 1)
      /\ new[L + 1] = at[L] + HEADER_SIZE + Len(body)
  BY <1>0
<1>4. new \in [0..(L + 1) -> Nat]
  BY <1>0, <1>2
<1> HIDE DEF L, more, new
<1>5. \A i \in 1..(L + 1) : new[i] = new[i - 1] + HEADER_SIZE + Len(more[i])
  <2> TAKE i \in 1..(L + 1)
  <2>1. CASE i = L + 1
    BY <1>0, <1>1, <1>3, <2>1
  <2>2. CASE i # L + 1
    <3>1. i \in 1..L /\ i \in 0..L /\ i - 1 \in 0..L
      BY <1>0, <2>2
    <3> QED
      BY <1>1, <1>2, <1>3, <3>1
  <2> QED
    BY <2>1, <2>2
<1>6. \A i, j \in 0..(L + 1) : i <= j => new[i] <= new[j]
  <2> SUFFICES ASSUME NEW i \in 0..(L + 1), NEW j \in 0..(L + 1), i <= j
               PROVE  new[i] <= new[j]
    OBVIOUS
  <2>1. CASE j # L + 1
    <3>1. i \in 0..L /\ j \in 0..L
      BY <1>0, <2>1
    <3> QED
      BY <1>2, <1>3, <3>1
  <2>2. CASE j = L + 1 /\ i # L + 1
    <3>1. i \in 0..L /\ L \in 0..L
      BY <1>0, <2>2
    <3>2. at[i] <= at[L] /\ at[i] \in Nat /\ at[L] \in Nat
      BY <1>0, <1>2, <3>1
    <3> QED
      BY <1>0, <1>3, <2>2, <3>1, <3>2
  <2>3. CASE i = L + 1 /\ j = L + 1
    BY <1>0, <1>4, <2>3
  <2> QED
    BY <2>1, <2>2, <2>3
<1>7. Ends(new, more)
  BY <1>1, <1>4, <1>5, <1>6 DEF Ends
<1> QED
  BY <1>3, <1>7 DEF L, more, new

(* A message is written to a stream that was written to its end.           *)
LEMMA StreamGrows ==
  ASSUME NEW bytes \in Seq(Byte), NEW bodies \in Seq(Messages), NEW n \in 0..Len(bodies),
         NEW at, OnStream(bytes, bodies, n, at), NEW body \in Messages,
         Len(bytes) = at[Len(bodies)] - at[n]
  PROVE  LET all == bytes \o pack(body)
             more == Append(bodies, body)
         IN \E new \in [0..Len(more) -> Nat] :
              OnStream(all, more, n, new) /\ Len(all) = new[Len(more)] - new[n]
<1> DEFINE L == Len(bodies)
           all == bytes \o pack(body)
           more == Append(bodies, body)
           new == [i \in 0..(L + 1) |->
                     IF i <= L THEN at[i] ELSE at[L] + HEADER_SIZE + Len(body)]
<1>0. L \in Nat /\ Len(bytes) \in Nat /\ Len(body) \in Nat /\ n \in 0..L
      /\ pack(body) \in Seq(Byte) /\ Len(pack(body)) = 4 + Len(body)
  BY Packed DEF HEADER_SIZE
<1>1. /\ Ends(new, more) /\ \A i \in 0..L : new[i] = at[i]
      /\ new[L + 1] = at[L] + HEADER_SIZE + Len(body)
  BY EndsGrow DEF OnStream
<1> HIDE DEF new
<1>2. /\ Len(more) = L + 1 /\ more[L + 1] = body
      /\ \A i \in 1..L : more[i] = bodies[i]
  BY AppendProperties
<1> HIDE DEF more
<1>3. /\ Len(all) = Len(bytes) + 4 + Len(body)
      /\ \A i \in 1..Len(bytes) : all[i] = bytes[i]
      /\ \A k \in 1..(4 + Len(body)) : all[Len(bytes) + k] = pack(body)[k]
  BY <1>0, PackedBehind
<1> HIDE DEF all
<1>4. /\ \A i \in 0..L : at[i] \in Nat
      /\ \A i \in 1..L : at[i] = at[i - 1] + HEADER_SIZE + Len(bodies[i])
      /\ \A i, j \in 0..L : i <= j => at[i] <= at[j]
  BY DEF OnStream, Ends
<1>5. ASSUME NEW i \in (n + 1)..(L + 1), NEW k \in 1..(HEADER_SIZE + Len(more[i]))
      PROVE  all[new[i - 1] - new[n] + k] = pack(more[i])[k]
  <2>1. CASE i = L + 1
    <3>1. i - 1 = L /\ L \in 0..L /\ n \in 0..L
      BY <1>0, <2>1
    <3>2. new[i - 1] - new[n] = Len(bytes)
      BY <1>1, <3>1
    <3>3. more[i] = body /\ k \in 1..(4 + Len(body))
      BY <1>2, <2>1 DEF HEADER_SIZE
    <3> QED
      BY <1>3, <3>2, <3>3
  <2>2. CASE i # L + 1
    <3>1. i \in 1..L /\ i \in (n + 1)..L /\ i - 1 \in 0..L /\ i \in 0..L /\ n <= i - 1
          /\ L \in 0..L /\ n \in 0..L /\ i <= L
      BY <1>0, <2>2
    <3>2. more[i] = bodies[i] /\ new[i - 1] = at[i - 1] /\ new[n] = at[n]
      BY <1>1, <1>2, <3>1
    <3>3. at[n] <= at[i - 1] /\ at[i] <= at[L] /\ at[i] = at[i - 1] + HEADER_SIZE + Len(bodies[i])
      BY <1>4, <3>1
    <3>4. at[n] \in Nat /\ at[i - 1] \in Nat /\ at[i] \in Nat /\ at[L] \in Nat
      BY <1>4, <3>1
    <3>5. bodies[i] \in Messages
      BY <3>1
    <3>6. Len(bodies[i]) \in Nat /\ k \in 1..(HEADER_SIZE + Len(bodies[i])) /\ k \in Nat \ {0}
      BY <3>2, <3>5, Packed DEF HEADER_SIZE
    <3>7. at[i - 1] - at[n] + k \in 1..Len(bytes)
      <4> DEFINE x == at[i - 1]
                 y == at[n]
                 z == at[L]
                 w == Len(bodies[i])
      <4>1. x \in Nat /\ y \in Nat /\ z \in Nat /\ w \in Nat /\ k \in Nat \ {0}
            /\ y <= x /\ x + 4 + w <= z /\ k <= 4 + w
        BY <3>3, <3>4, <3>6 DEF HEADER_SIZE
      <4>2. Len(bytes) = z - y
        OBVIOUS
      <4> HIDE DEF x, y, z, w
      <4>3. x - y + k \in 1..(z - y)
        BY <4>1
      <4> QED
        BY <4>2, <4>3 DEF x, y
    <3>8. bytes[at[i - 1] - at[n] + k] = pack(bodies[i])[k]
      BY <3>1, <3>6, <3>7 DEF OnStream, Follow
    <3> QED
      BY <1>3, <3>2, <3>7, <3>8
  <2> QED
    BY <2>1, <2>2
<1>6. Follow(all, more, n, new)
  BY <1>2, <1>5 DEF Follow
<1>7. Len(all) = new[Len(more)] - new[n]
  <2>1. new[n] = at[n] /\ at[n] \in Nat /\ at[L] \in Nat /\ Len(bytes) = at[L] - at[n]
    BY <1>0, <1>1, <1>4
  <2> QED
    BY <1>0, <1>1, <1>2, <1>3, <2>1 DEF HEADER_SIZE
<1>8. new \in [0..Len(more) -> Nat] /\ Len(all) <= new[Len(more)] - new[n]
  <2>1. new \in [0..Len(more) -> Nat]
    BY <1>1 DEF Ends
  <2>2. n \in 0..Len(more) /\ Len(more) \in 0..Len(more)
    BY <1>0, <1>2
  <2>3. new[n] \in Nat /\ new[Len(more)] \in Nat
    BY <2>1, <2>2
  <2> QED
    BY <1>7, <2>1, <2>3
<1>9. OnStream(all, more, n, new)
  BY <1>1, <1>6, <1>8 DEF OnStream
<1> QED
  BY <1>7, <1>8, <1>9 DEF all, more

(* A message that nobody writes changes nothing on the stream.             *)
LEMMA StreamStays ==
  ASSUME NEW bytes \in Seq(Byte), NEW bodies \in Seq(Messages), NEW n \in 0..Len(bodies),
         NEW at, OnStream(bytes, bodies, n, at), NEW body \in Messages
  PROVE  LET more == Append(bodies, body)
         IN \E new \in [0..Len(more) -> Nat] : OnStream(bytes, more, n, new)
<1> DEFINE L == Len(bodies)
           more == Append(bodies, body)
           new == [i \in 0..(L + 1) |->
                     IF i <= L THEN at[i] ELSE at[L] + HEADER_SIZE + Len(body)]
<1>0. L \in Nat /\ Len(bytes) \in Nat /\ Len(body) \in Nat /\ n \in 0..L
  BY Packed DEF HEADER_SIZE
<1>1. /\ Ends(new, more) /\ \A i \in 0..L : new[i] = at[i]
      /\ new[L + 1] = at[L] + HEADER_SIZE + Len(body)
  BY EndsGrow DEF OnStream
<1> HIDE DEF new
<1>2. /\ Len(more) = L + 1 /\ more[L + 1] = body
      /\ \A i \in 1..L : more[i] = bodies[i]
  BY AppendProperties
<1> HIDE DEF more
<1>3. /\ \A i \in 0..L : at[i] \in Nat
      /\ Len(bytes) <= at[L] - at[n]
      /\ L \in 0..L /\ new[n] = at[n] /\ new[L] = at[L]
  <2>1. \A i \in 0..L : at[i] \in Nat
    BY DEF OnStream, Ends
  <2>2. Len(bytes) <= at[L] - at[n]
    BY DEF OnStream
  <2>3. L \in 0..L
    BY <1>0
  <2> QED
    BY <1>0, <1>1, <2>1, <2>2, <2>3
<1>4. ASSUME NEW i \in (n + 1)..(L + 1), NEW k \in 1..(HEADER_SIZE + Len(more[i])),
             new[i - 1] - new[n] + k <= Len(bytes)
      PROVE  bytes[new[i - 1] - new[n] + k] = pack(more[i])[k]
  <2>1. i # L + 1
    <3>1. SUFFICES ASSUME i = L + 1
                   PROVE  FALSE
      OBVIOUS
    <3>2. k \in Nat \ {0} /\ new[i - 1] = at[L] /\ at[L] \in Nat /\ at[n] \in Nat
      BY <1>0, <1>2, <1>3, <3>1 DEF HEADER_SIZE
    <3> QED
      BY <1>0, <1>3, <1>4, <3>2
  <2>2. i \in 1..L /\ i \in (n + 1)..L /\ i - 1 \in 0..L
    BY <1>0, <2>1
  <2>3. more[i] = bodies[i] /\ new[i - 1] = at[i - 1] /\ new[n] = at[n]
    BY <1>1, <1>2, <1>3, <2>2
  <2> QED
    BY <1>4, <2>2, <2>3 DEF OnStream, Follow
<1>5. Follow(bytes, more, n, new)
  BY <1>2, <1>4 DEF Follow
<1>6. new \in [0..Len(more) -> Nat]
  BY <1>1 DEF Ends
<1>7. Len(bytes) <= new[Len(more)] - new[n]
  BY <1>0, <1>1, <1>2, <1>3 DEF HEADER_SIZE
<1>8. OnStream(bytes, more, n, new)
  BY <1>1, <1>5, <1>7 DEF OnStream
<1> QED
  BY <1>6, <1>8 DEF more

(* A stream may end anywhere.                                              *)
LEMMA StreamEnds ==
  ASSUME NEW bytes \in Seq(Byte), NEW bodies \in Seq(Messages), NEW n \in 0..Len(bodies),
         NEW at, OnStream(bytes, bodies, n, at),
         NEW part \in Seq(Byte), Len(part) <= Len(bytes),
         \A i \in 1..Len(part) : part[i] = bytes[i]
  PROVE  OnStream(part, bodies, n, at)
<1>0. Len(part) \in Nat /\ Len(bytes) \in Nat /\ Len(bodies) \in Nat
  OBVIOUS
<1>1. at[n] \in Nat /\ at[Len(bodies)] \in Nat
  BY <1>0 DEF OnStream, Ends
<1>2. ASSUME NEW i \in (n + 1)..Len(bodies), NEW k \in 1..(HEADER_SIZE + Len(bodies[i])),
             at[i - 1] - at[n] + k <= Len(part)
      PROVE  part[at[i - 1] - at[n] + k] = pack(bodies[i])[k]
  <2>1. n \in 0..Len(bodies) /\ i - 1 \in 0..Len(bodies) /\ n <= i - 1 /\ bodies[i] \in Messages
    BY <1>0
  <2>2. at[n] <= at[i - 1] /\ at[i - 1] \in Nat
    BY <2>1 DEF OnStream, Ends
  <2>3. k \in Nat \ {0}
    BY <2>1, Packed DEF HEADER_SIZE
  <2>4. at[i - 1] - at[n] + k \in 1..Len(part) /\ at[i - 1] - at[n] + k <= Len(bytes)
    BY <1>0, <1>1, <1>2, <2>2, <2>3
  <2> QED
    BY <2>4 DEF OnStream, Follow
<1>3. Len(part) <= at[Len(bodies)] - at[n]
  BY <1>0, <1>1 DEF OnStream
<1> QED
  BY <1>2, <1>3 DEF OnStream, Follow

(* A buffer that has the size that its header names has the next message,  *)
(* and what follows is on the stream behind it.                            *)
LEMMA NextMessage ==
  ASSUME NEW buf \in Seq(Byte), NEW bytes \in Seq(Byte), NEW bodies \in Seq(Messages),
         NEW n \in 0..Len(bodies), NEW at, OnStream(buf \o bytes, bodies, n, at),
         Len(buf) >= HEADER_SIZE, Len(buf) = HEADER_SIZE + decode_header(buf)
  PROVE  /\ n + 1 \in 1..Len(bodies)
         /\ buf = pack(bodies[n + 1])
         /\ OnStream(bytes, bodies, n + 1, at)
         /\ Len(buf \o bytes) = at[Len(bodies)] - at[n] =>
              Len(bytes) = at[Len(bodies)] - at[n + 1]
<1> DEFINE L == Len(bodies)
           all == buf \o bytes
<1>0. L \in Nat /\ Len(buf) \in Nat /\ Len(bytes) \in Nat /\ n \in Nat /\ n <= L
      /\ Len(buf) >= 4
  BY DEF HEADER_SIZE
<1>2. OnStream(all, bodies, n, at) /\ all = buf \o bytes
  OBVIOUS
<1> HIDE DEF all
<1>1. Len(all) = Len(buf) + Len(bytes)
  BY <1>2, Joined
<1>3. /\ \A i \in 1..Len(buf) : all[i] = buf[i]
      /\ \A i \in 1..Len(bytes) : all[Len(buf) + i] = bytes[i]
  BY <1>2, Joined
<1>4. /\ \A i \in 0..L : at[i] \in Nat
      /\ \A i \in 1..L : at[i] = at[i - 1] + HEADER_SIZE + Len(bodies[i])
      /\ \A i, j \in 0..L : i <= j => at[i] <= at[j]
      /\ Len(all) <= at[L] - at[n]
  BY <1>2 DEF OnStream, Ends
<1>5. n + 1 \in 1..L
  <2>1. n # L
    <3>1. n \in 0..L /\ at[n] \in Nat
      BY <1>0, <1>4
    <3> QED
      BY <1>0, <1>1, <1>4, <3>1
  <2> QED
    BY <1>0, <2>1
<1> DEFINE body == bodies[n + 1]
<1>6. body \in Messages
  BY <1>5
<1>7. at[n + 1] = at[n] + HEADER_SIZE + Len(body) /\ at[n] \in Nat /\ at[n + 1] \in Nat
      /\ at[L] \in Nat
  <2>1. n \in 0..L /\ n + 1 \in 0..L /\ L \in 0..L /\ (n + 1) - 1 = n
    BY <1>0, <1>5
  <2> QED
    BY <1>4, <1>5, <2>1
<1>8. \A k \in 1..(HEADER_SIZE + Len(body)) : k <= Len(all) => all[k] = pack(body)[k]
  <2> TAKE k \in 1..(HEADER_SIZE + Len(body))
  <2>1. n + 1 \in (n + 1)..L /\ (n + 1) - 1 = n
    BY <1>0, <1>5
  <2>2. k \in Nat
    BY <1>6, Packed DEF HEADER_SIZE
  <2>3. at[(n + 1) - 1] - at[n] + k = k
    BY <1>7, <2>1, <2>2
  <2> QED
    BY <1>2, <2>1, <2>3 DEF OnStream, Follow
<1> HIDE DEF body
<1>9. Len(body) \in Nat /\ pack(body) \in Seq(Byte) /\ Len(pack(body)) = 4 + Len(body)
  BY <1>6, Packed DEF HEADER_SIZE
<1>10. \A k \in 1..HEADER_SIZE : buf[k] = pack(body)[k]
  <2> SUFFICES ASSUME NEW k \in 1..4
               PROVE  buf[k] = pack(body)[k]
    BY DEF HEADER_SIZE
  <2>1. k \in 1..Len(buf) /\ k <= Len(all) /\ k \in 1..(HEADER_SIZE + Len(body))
    BY <1>0, <1>1, <1>9 DEF HEADER_SIZE
  <2> QED
    BY <1>3, <1>8, <2>1
<1>11. Len(buf) = 4 + Len(body)
  BY <1>6, <1>10, HeaderDecides DEF HEADER_SIZE
<1>12. \A k \in 1..Len(buf) : buf[k] = pack(body)[k]
  BY <1>0, <1>1, <1>3, <1>8, <1>9, <1>11 DEF HEADER_SIZE
<1>13. buf = pack(body)
  BY <1>9, <1>11, <1>12, SeqEqual
<1>14. ASSUME NEW i \in ((n + 1) + 1)..L, NEW k \in 1..(HEADER_SIZE + Len(bodies[i])),
              at[i - 1] - at[n + 1] + k <= Len(bytes)
       PROVE  bytes[at[i - 1] - at[n + 1] + k] = pack(bodies[i])[k]
  <2>1. i \in (n + 1)..L /\ i - 1 \in 0..L /\ n + 1 \in 0..L /\ n + 1 <= i - 1 /\ i \in 1..L
    BY <1>0, <1>5
  <2>2. at[n + 1] <= at[i - 1] /\ at[i - 1] \in Nat
    BY <1>4, <2>1
  <2>3. bodies[i] \in Messages
    BY <2>1
  <2>4. k \in Nat \ {0}
    <3>1. Len(bodies[i]) \in Nat /\ k \in 1..(4 + Len(bodies[i]))
      BY <2>3, Packed DEF HEADER_SIZE
    <3> QED
      BY <3>1
  <2> DEFINE x == at[i - 1]
             y == at[n + 1]
             p == x - y + k
  <2>y. x \in Nat /\ y \in Nat /\ y <= x /\ y = at[n] + HEADER_SIZE + Len(body) /\ at[n] \in Nat
        /\ x - y + k <= Len(bytes)
    BY <1>7, <1>14, <2>2
  <2> HIDE DEF x, y
  <2>5. p \in 1..Len(bytes)
    BY <1>0, <2>4, <2>y
  <2>z. x - at[n] + k = Len(buf) + p
    <3> DEFINE z == at[n]
               w == Len(body)
    <3>1. y = z + 4 + w /\ z \in Nat /\ w \in Nat
      BY <1>9, <2>y DEF HEADER_SIZE
    <3> HIDE DEF z, w
    <3>2. x \in Nat /\ y \in Nat
      BY <2>y
    <3>3. x - z + k = (4 + w) + (x - y + k)
      BY <2>4, <3>1, <3>2
    <3> QED
      BY <1>11, <3>3 DEF z, w
  <2>6. at[i - 1] - at[n] + k = Len(buf) + p
    BY <2>z DEF x
  <2> HIDE DEF p
  <2>7. Len(buf) + p <= Len(all)
    BY <1>0, <1>1, <2>5
  <2>8. all[at[i - 1] - at[n] + k] = pack(bodies[i])[k]
    BY <1>2, <2>1, <2>6, <2>7 DEF OnStream, Follow
  <2> QED
    BY <1>3, <2>5, <2>6, <2>8 DEF p, x, y
<1>15. Follow(bytes, bodies, n + 1, at)
  BY <1>14 DEF Follow
<1>16. /\ Len(bytes) <= at[L] - at[n + 1]
       /\ Len(all) = at[L] - at[n] => Len(bytes) = at[L] - at[n + 1]
  BY <1>0, <1>1, <1>4, <1>7, <1>9, <1>11 DEF HEADER_SIZE
<1>17. OnStream(bytes, bodies, n + 1, at)
  BY <1>2, <1>15, <1>16 DEF OnStream
<1> QED
  BY <1>5, <1>13, <1>16, <1>17 DEF body, all

-----------------------------------------------------------------------------
(* Buffers that were filled in part.                                       *)
LEMMA Zeros ==
  ASSUME NEW n \in Nat, NEW z, z = [i \in 1..n |-> 0]
  PROVE  z \in Seq(Byte) /\ Len(z) = n /\ \A i \in 1..n : z[i] = 0
<1>1. 0 \in Byte
  BY BaseAssumption DEF Byte
<1>2. z \in [1..n -> Byte]
  BY <1>1
<1>3. z \in Seq(Byte)
  BY <1>2, SeqDef
<1>4. DOMAIN z = 1..Len(z) /\ Len(z) \in Nat /\ DOMAIN z = 1..n
  BY <1>3, LenProperties
<1>5. Len(z) = n
  <2>1. n + 1 \notin 1..Len(z) /\ (n # 0 => n \in 1..Len(z))
    BY <1>4
  <2> QED
    BY <1>4, <2>1
<1> QED
  BY <1>3, <1>5

LEMMA PaddedBuffer ==
  ASSUME NEW buf \in Seq(Byte), NEW size \in Nat, Len(buf) <= size
  PROVE  LET full == Padded(buf, size) IN
         /\ full \in Seq(Byte) /\ Len(full) = size
         /\ \A i \in 1..Len(buf) : full[i] = buf[i]
         /\ \A i \in (Len(buf) + 1)..size : full[i] = 0
         /\ Len(buf) = size => full = buf
<1>0. Len(buf) \in Nat /\ size - Len(buf) \in Nat
  OBVIOUS
<1> DEFINE rest == size - Len(buf)
<1>1. PICK z : z = [i \in 1..rest |-> 0]
  OBVIOUS
<1>2. z \in Seq(Byte) /\ Len(z) = rest /\ \A i \in 1..rest : z[i] = 0
  BY <1>0, <1>1, Zeros
<1>3. PICK full : full = buf \o z
  OBVIOUS
<1>4. Padded(buf, size) = full
  BY <1>1, <1>3 DEF Padded
<1>5. full \in Seq(Byte)
  BY <1>2, <1>3, ConcatProperties
<1>6. Len(full) = Len(buf) + Len(z)
  BY <1>2, <1>3, ConcatProperties
<1>7. Len(full) = size
  BY <1>0, <1>2, <1>6
<1>8. \A i \in 1..Len(buf) : full[i] = buf[i]
  BY <1>2, <1>3, Joined
<1>9. \A i \in 1..Len(z) : full[Len(buf) + i] = z[i]
  BY <1>2, <1>3, Joined
<1>10. ASSUME NEW i \in (Len(buf) + 1)..size
       PROVE  full[i] = 0
  <2>1. i - Len(buf) \in 1..rest /\ i = Len(buf) + (i - Len(buf))
    BY <1>0
  <2> QED
    BY <1>2, <1>9, <2>1
<1>11. Len(buf) = size => full = buf
  BY <1>5, <1>7, <1>8, SeqEqual
<1> QED
  BY <1>4, <1>5, <1>7, <1>8, <1>10, <1>11

LEMMA Unpacked ==
  ASSUME NEW full \in Seq(Byte), NEW size \in Nat, Len(full) = HEADER_SIZE + size
  PROVE  /\ unpack(full) \in Seq(Byte) /\ Len(unpack(full)) = size
         /\ \A i \in 1..size : unpack(full)[i] = full[HEADER_SIZE + i]
<1>1. 4 \in 0..Len(full) /\ Len(full) - 4 = size
  BY DEF HEADER_SIZE
<1>2. unpack(full) = SubSeq(full, 4 + 1, Len(full))
  BY DEF unpack, HEADER_SIZE
<1>3. /\ SubSeq(full, 4 + 1, Len(full)) \in Seq(Byte)
      /\ Len(SubSeq(full, 4 + 1, Len(full))) = Len(full) - 4
      /\ \A i \in 1..(Len(full) - 4) : SubSeq(full, 4 + 1, Len(full))[i] = full[4 + i]
  BY <1>1, Cut
<1> QED
  BY <1>1, <1>2, <1>3 DEF HEADER_SIZE

(* A body of which only the beginning arrived is that and zeros.           *)
LEMMA BodyOfPart ==
  ASSUME NEW reply \in Messages, NEW buf \in Seq(Byte),
         NEW n \in 0..Len(reply), Len(buf) = HEADER_SIZE + n,
         \A i \in 1..Len(buf) : buf[i] = pack(reply)[i]
  PROVE  LET body == unpack(Padded(buf, HEADER_SIZE + Len(reply))) IN
         /\ Len(body) = Len(reply) /\ body = Padded(SubSeq(reply, 1, n), Len(reply))
         /\ n = Len(reply) => body = reply
<1>0. Len(reply) \in Nat /\ n \in Nat /\ n <= Len(reply) /\ HEADER_SIZE = 4
      /\ reply \in Seq(Byte)
  BY Packed DEF HEADER_SIZE
<1> DEFINE full == Padded(buf, HEADER_SIZE + Len(reply))
           body == unpack(full)
           part == SubSeq(reply, 1, n)
           other == Padded(part, Len(reply))
<1>1. /\ full \in Seq(Byte) /\ Len(full) = HEADER_SIZE + Len(reply)
      /\ \A i \in 1..Len(buf) : full[i] = buf[i]
      /\ \A i \in (Len(buf) + 1)..(HEADER_SIZE + Len(reply)) : full[i] = 0
  <2>1. HEADER_SIZE + Len(reply) \in Nat /\ Len(buf) <= HEADER_SIZE + Len(reply)
    BY <1>0
  <2> QED
    BY <2>1, PaddedBuffer
<1> HIDE DEF full
<1>2. /\ body \in Seq(Byte) /\ Len(body) = Len(reply)
      /\ \A i \in 1..Len(reply) : body[i] = full[HEADER_SIZE + i]
  BY <1>0, <1>1, Unpacked
<1>3. part \in Seq(Byte) /\ Len(part) = n /\ \A i \in 1..n : part[i] = reply[i]
  BY <1>0, Cut
<1> HIDE DEF part, body
<1>4. /\ other \in Seq(Byte) /\ Len(other) = Len(reply)
      /\ \A i \in 1..Len(part) : other[i] = part[i]
      /\ \A i \in (Len(part) + 1)..Len(reply) : other[i] = 0
      /\ Len(part) = Len(reply) => other = part
  BY <1>0, <1>3, PaddedBuffer
<1> HIDE DEF other
<1>5. ASSUME NEW i \in 1..Len(reply)
      PROVE  body[i] = other[i]
  <2>1. CASE i <= n
    <3>1. 4 + i \in 1..Len(buf) /\ i \in 1..n /\ i \in 1..Len(part)
      BY <1>0, <1>3, <2>1
    <3>2. pack(reply)[4 + i] = reply[i]
      BY <1>0, Packed
    <3>3. full[4 + i] = buf[4 + i] /\ buf[4 + i] = pack(reply)[4 + i]
      BY <1>1, <3>1
    <3> QED
      BY <1>0, <1>2, <1>3, <1>4, <3>1, <3>2, <3>3
  <2>2. CASE ~(i <= n)
    <3>1. 4 + i \in (Len(buf) + 1)..(4 + Len(reply)) /\ i \in (Len(part) + 1)..Len(reply)
      BY <1>0, <1>3, <2>2
    <3> QED
      BY <1>0, <1>1, <1>2, <1>4, <3>1
  <2> QED
    BY <2>1, <2>2
<1>6. body = other
  BY <1>2, <1>4, <1>5, SeqEqual
<1>7. n = Len(reply) => other = reply
  BY <1>0, <1>3, <1>4, SeqEqual
<1> QED
  BY <1>2, <1>6, <1>7 DEF body, full, other, part

(* A header alone is a body of zeros, whatever it says.                    *)
LEMMA BodyOfHeader ==
  ASSUME NEW buf \in Seq(Byte), Len(buf) = HEADER_SIZE, NEW size \in Nat
  PROVE  LET body == unpack(Padded(buf, HEADER_SIZE + size)) IN
         Len(body) = size /\ body = Padded(<<>>, size)
<1>0. HEADER_SIZE = 4 /\ HEADER_SIZE + size \in Nat /\ Len(buf) <= HEADER_SIZE + size
  BY DEF HEADER_SIZE
<1> DEFINE full == Padded(buf, HEADER_SIZE + size)
           body == unpack(full)
           other == Padded(<<>>, size)
<1>1. /\ full \in Seq(Byte) /\ Len(full) = HEADER_SIZE + size
      /\ \A i \in (Len(buf) + 1)..(HEADER_SIZE + size) : full[i] = 0
  BY <1>0, PaddedBuffer
<1> HIDE DEF full
<1>2. /\ body \in Seq(Byte) /\ Len(body) = size
      /\ \A i \in 1..size : body[i] = full[HEADER_SIZE + i]
  BY <1>1, Unpacked
<1> HIDE DEF body
<1>3. <<>> \in Seq(Byte) /\ Len(<<>>) = 0 /\ 0 <= size
  BY EmptyBytes
<1>4. /\ other \in Seq(Byte) /\ Len(other) = size
      /\ \A i \in (0 + 1)..size : other[i] = 0
  BY <1>3, PaddedBuffer
<1> HIDE DEF other
<1>5. \A i \in 1..size : body[i] = other[i]
  <2> TAKE i \in 1..size
  <2>1. 4 + i \in (Len(buf) + 1)..(4 + size) /\ i \in (0 + 1)..size
    BY <1>0
  <2> QED
    BY <1>0, <1>1, <1>2, <1>4, <2>1
<1>6. body = other
  BY <1>2, <1>4, <1>5, SeqEqual
<1> QED
  BY <1>2, <1>6 DEF body, full, other

LEMMA HeaderIsSize ==
  ASSUME NEW buf \in Seq(Byte), Len(buf) >= HEADER_SIZE
  PROVE  decode_header(buf) \in Nat
<1>1. \A k \in 1..4 : buf[k] \in Nat
  <2>1. \A k \in 1..4 : buf[k] \in Byte
    BY DEF HEADER_SIZE
  <2> QED
    BY <2>1 DEF Byte
<1>2. buf[1] * Base \in Nat
  BY <1>1, BaseAssumption
<1>3. (buf[1] * Base + buf[2]) * Base \in Nat
  BY <1>1, <1>2, BaseAssumption
<1>4. ((buf[1] * Base + buf[2]) * Base + buf[3]) * Base \in Nat
  BY <1>1, <1>3, BaseAssumption
<1> QED
  BY <1>1, <1>4 DEF decode_header

-----------------------------------------------------------------------------
Types ==
  /\ kind \in ClientKinds \cup {"other"}
  /\ stage \in {"start", "prompt", "header", "body", "exited", "crashed"}
  /\ toServer \in Seq(Byte) /\ toClient \in Seq(Byte)
  /\ readbuf \in Seq(Byte) /\ sessionbuf \in Seq(Byte) /\ writebuf \in Seq(Byte)
  /\ sent \in Seq(Messages) /\ unpacked \in Seq(Messages)
  /\ replies \in Seq(Messages)
  /\ shown \in Seq([from : {"buffer"}, body : Messages] \cup {Garbage})
  /\ link \in {"up", "down"} /\ open \in BOOLEAN
  /\ reading \in {"header", "body", "write", "none"}
  /\ writebuf # <<>> => link = "up" /\ reading = "write"

(* The shell may write again.                                              *)
Writing == stage \in {"start", "prompt", "header", "body"}

(* What the buffer of the session has of a request still to be unpacked.   *)
Held == IF reading \in {"header", "body"} THEN sessionbuf ELSE <<>>

Incoming == Held \o toServer

(* The session unpacked the first requests and answered them; the others   *)
(* are in its buffer and on the stream, the last ones perhaps cut.         *)
Requests ==
  /\ Len(replies) = Len(unpacked) /\ Len(unpacked) <= Len(sent)
  /\ \A i \in 1..Len(unpacked) : unpacked[i] = sent[i]
  /\ reading = "body" => Len(sessionbuf) >= HEADER_SIZE
  /\ \E at \in [0..Len(sent) -> Nat] :
       /\ OnStream(Incoming, sent, Len(unpacked), at)
       /\ link = "up" /\ Writing =>
            Len(Incoming) = at[Len(sent)] - at[Len(unpacked)]

-----------------------------------------------------------------------------
(* What the client has not read yet of what the session packed.            *)
Outbound == toClient \o writebuf

(* The three states of a shell that waits for its next result: nothing of  *)
(* the reply was written, it is arriving, or the connection ended within   *)
(* its header.                                                             *)
Silent ==
  /\ stage = "header" /\ readbuf = <<>> /\ Outbound = <<>>
  /\ Len(replies) <= Len(shown)
  /\ link = "up" => Len(replies) = Len(shown)

Outgoing == readbuf \o Outbound

Arriving ==
  /\ Len(replies) = Len(shown) + 1
  /\ stage = "header" => Len(readbuf) <= HEADER_SIZE
  /\ stage = "body" => Len(readbuf) >= HEADER_SIZE
  /\ LET message == pack(replies[Len(replies)]) IN
       /\ Len(Outgoing) <= Len(message)
       /\ \A k \in 1..Len(Outgoing) : Outgoing[k] = message[k]
       /\ link = "up" => Len(Outgoing) = Len(message)

Blind ==
  /\ link = "down" /\ stage = "body" /\ toClient = <<>>
  /\ Len(readbuf) = HEADER_SIZE

(* At most one request of the shell is without a result; at the prompt     *)
(* there is none, and nothing left on the stream.                          *)
Results ==
  /\ kind = "other" => stage \in {"prompt", "exited", "crashed"} /\ shown = <<>>
  /\ kind # "other" =>
       /\ Len(sent) - Len(shown) \in {0, 1}
       /\ stage \in {"start", "prompt"} =>
            /\ Len(sent) = Len(shown) /\ Outbound = <<>>
            /\ link = "up" => Len(replies) = Len(shown)
       /\ stage \in {"header", "body"} =>
            /\ Len(sent) = Len(shown) + 1
            /\ Silent \/ Arriving \/ Blind

IInv == Types /\ Requests /\ Results /\ ResultBelongs

-----------------------------------------------------------------------------
LEMMA TypesAreTypes == Types /\ Results => TypeOK
<1> SUFFICES ASSUME Types, Results
             PROVE  TypeOK
  OBVIOUS
<1>1. {toServer, toClient, readbuf, sessionbuf, writebuf} \subseteq Seq(Byte)
  BY DEF Types
<1>2. {sent, unpacked, replies} \subseteq Seq(Messages)
  BY DEF Types
<1> QED
  BY <1>1, <1>2 DEF Types, Results, TypeOK

LEMMA Lengths ==
  ASSUME Types
  PROVE  /\ Len(toServer) \in Nat /\ Len(toClient) \in Nat
         /\ Len(readbuf) \in Nat /\ Len(sessionbuf) \in Nat /\ Len(writebuf) \in Nat
         /\ Len(sent) \in Nat /\ Len(unpacked) \in Nat
         /\ Len(replies) \in Nat /\ Len(shown) \in Nat
BY DEF Types

LEMMA Streams ==
  ASSUME Types
  PROVE  /\ Held \in Seq(Byte) /\ Incoming \in Seq(Byte)
         /\ Len(Incoming) = Len(Held) + Len(toServer)
         /\ Outbound \in Seq(Byte) /\ Len(Outbound) = Len(toClient) + Len(writebuf)
         /\ Outgoing \in Seq(Byte) /\ Len(Outgoing) = Len(readbuf) + Len(Outbound)
<1>0. Held \in Seq(Byte)
  BY EmptyBytes DEF Types, Held
<1>1. Incoming \in Seq(Byte) /\ Len(Incoming) = Len(Held) + Len(toServer)
  BY <1>0, ConcatProperties DEF Types, Incoming
<1>2. Outbound \in Seq(Byte) /\ Len(Outbound) = Len(toClient) + Len(writebuf)
  BY ConcatProperties DEF Types, Outbound
<1>3. Outgoing \in Seq(Byte) /\ Len(Outgoing) = Len(readbuf) + Len(Outbound)
  BY <1>2, ConcatProperties DEF Types, Outgoing
<1> QED
  BY <1>0, <1>1, <1>2, <1>3

(* Nothing is on its way exactly if neither side of the stream has a byte. *)
LEMMA NothingOutbound ==
  ASSUME Types
  PROVE  Outbound = <<>> <=> toClient = <<>> /\ writebuf = <<>>
<1>1. /\ Outbound \in Seq(Byte) /\ Len(Outbound) = Len(toClient) + Len(writebuf)
      /\ toClient \in Seq(Byte) /\ writebuf \in Seq(Byte)
  BY Streams DEF Types
<1>2. ASSUME NEW s \in Seq(Byte) PROVE Len(s) \in Nat /\ (s = <<>> <=> Len(s) = 0)
  OBVIOUS
<1> QED
  BY <1>1, <1>2

-----------------------------------------------------------------------------
(* The invariant where a step does not touch what it speaks of.            *)
LEMMA RequestsStay ==
  ASSUME Requests, UNCHANGED <<sent, toServer, sessionbuf, unpacked, replies>>,
         reading' \in {"header", "body"} <=> reading \in {"header", "body"},
         reading' = "body" => Len(sessionbuf) >= HEADER_SIZE,
         link' = "up" => link = "up", Writing' => Writing
  PROVE  Requests'
<1>1. PICK at \in [0..Len(sent) -> Nat] :
        /\ OnStream(Incoming, sent, Len(unpacked), at)
        /\ link = "up" /\ Writing => Len(Incoming) = at[Len(sent)] - at[Len(unpacked)]
  BY DEF Requests
<1>2. Incoming' = Incoming
  BY DEF Incoming, Held
<1> QED
  BY <1>1, <1>2 DEF Requests

Belongs(result, n, bodies, state) ==
  \/ n <= Len(bodies) /\ result = Reply(bodies[n])
  \/ state = "down" /\ result = Garbage
  \/ LET reply == IF n <= Len(bodies) THEN bodies[n] ELSE <<>> IN
     /\ state = "down"
     /\ \E k \in 0..Len(reply) :
          result.body = Padded(SubSeq(reply, 1, k), Len(result.body))

LEMMA AllBelong ==
  ResultBelongs <=> \A n \in DOMAIN shown : Belongs(shown[n], n, replies, link)
BY DEF ResultBelongs, Belongs

LEMMA AllBelongNext ==
  ResultBelongs' <=> \A n \in DOMAIN shown' : Belongs(shown'[n], n, replies', link')
BY DEF ResultBelongs, Belongs

(* What was shown stays right: replies are only added, and none once the   *)
(* connection is down.                                                     *)
LEMMA ResultsStay ==
  ASSUME Types, Types', ResultBelongs, UNCHANGED shown,
         link = "down" => link' = "down" /\ replies' = replies,
         Len(replies) <= Len(replies'),
         \A i \in 1..Len(replies) : replies'[i] = replies[i]
  PROVE  ResultBelongs'
<1>1. SUFFICES ASSUME NEW n \in DOMAIN shown
               PROVE  Belongs(shown[n], n, replies', link')
  BY AllBelongNext
<1>2. Belongs(shown[n], n, replies, link)
  BY AllBelong
<1>3. n \in Nat \ {0} /\ Len(replies) \in Nat /\ Len(replies') \in Nat
  BY DEF Types
<1>4. CASE n <= Len(replies) /\ shown[n] = Reply(replies[n])
  <2>1. n <= Len(replies') /\ replies'[n] = replies[n]
    BY <1>3, <1>4
  <2> QED
    BY <1>4, <2>1 DEF Belongs
<1>5. CASE link = "down"
  BY <1>2, <1>5
<1> QED
  BY <1>2, <1>4, <1>5 DEF Belongs

LEMMA ResultsAdded ==
  ASSUME Types, Types', ResultBelongs, UNCHANGED <<replies, link>>,
         NEW result, result \in [from : {"buffer"}, body : Messages] \cup {Garbage},
         shown' = Append(shown, result), Belongs(result, Len(shown) + 1, replies, link)
  PROVE  ResultBelongs'
<1>1. SUFFICES ASSUME NEW n \in DOMAIN shown'
               PROVE  Belongs(shown'[n], n, replies, link)
  BY AllBelongNext
<1>2. /\ Len(shown') = Len(shown) + 1 /\ shown'[Len(shown) + 1] = result
      /\ \A i \in 1..Len(shown) : shown'[i] = shown[i]
  BY AppendProperties DEF Types
<1>3. Len(shown) \in Nat /\ n \in 1..Len(shown') /\ DOMAIN shown = 1..Len(shown)
  BY DEF Types
<1> QED
  <2>1. CASE n = Len(shown) + 1
    BY <1>2, <2>1
  <2>2. CASE n # Len(shown) + 1
    <3>1. n \in 1..Len(shown)
      BY <1>2, <1>3, <2>2
    <3> QED
      BY <1>2, <1>3, <3>1, AllBelong
  <2> QED
    BY <2>1, <2>2

-----------------------------------------------------------------------------
LEMMA Start == ASSUME Init PROVE IInv
<1>1. Types
  BY EmptyBytes DEF Init, Types, ClientKinds
<1>2. Requests
  <2>1. Incoming \in Seq(Byte) /\ Len(Incoming) = 0
    BY <1>1, Streams, EmptyBytes DEF Init, Held
  <2>2. Len(sent) = 0 /\ Len(unpacked) = 0 /\ Len(replies) = 0 /\ reading = "header"
    BY DEF Init
  <2> DEFINE at == [i \in 0..0 |-> 0]
  <2>3. at \in [0..Len(sent) -> Nat] /\ at[Len(sent)] = 0 /\ at[Len(unpacked)] = 0
    BY <2>2
  <2>4. \A i, j \in 0..Len(sent) : i <= j => at[i] <= at[j]
    BY <2>2
  <2> HIDE DEF at
  <2>5. Ends(at, sent)
    BY <2>2, <2>3, <2>4 DEF Ends
  <2>6. Follow(Incoming, sent, Len(unpacked), at)
    BY <2>2 DEF Follow
  <2>7. OnStream(Incoming, sent, Len(unpacked), at)
    BY <2>1, <2>3, <2>5, <2>6 DEF OnStream
  <2>8. Len(Incoming) = at[Len(sent)] - at[Len(unpacked)]
    BY <2>1, <2>3
  <2> QED
    BY <2>2, <2>3, <2>7, <2>8 DEF Requests
<1>3. Results
  <2>1. Outbound = <<>>
    BY <1>1, NothingOutbound DEF Init
  <2> QED
    BY <2>1 DEF Init, Results
<1>4. ResultBelongs
  BY DEF Init, ResultBelongs
<1> QED
  BY <1>1, <1>2, <1>3, <1>4 DEF IInv

LEMMA StepConstruct == ASSUME IInv, Construct PROVE IInv'
<1>1. Types'
  BY DEF IInv, Types, Construct, Connected, sessionVars
<1>2. Requests'
  BY RequestsStay DEF IInv, Requests, Construct, Writing, sessionVars
<1>3. Results'
  BY DEF IInv, Results, Outbound, Construct, Connected, sessionVars
<1>4. ResultBelongs'
  BY <1>1, ResultsStay DEF IInv, Construct, sessionVars, Types
<1> QED
  BY <1>1, <1>2, <1>3, <1>4 DEF IInv

LEMMA StepCompletion == ASSUME IInv, my_completion PROVE IInv'
<1>1. Types'
  BY DEF IInv, Types, my_completion, sessionVars
<1>2. Requests'
  BY RequestsStay DEF IInv, Requests, my_completion, Writing, sessionVars
<1>3. Results'
  BY DEF IInv, Results, Outbound, my_completion, sessionVars
<1>4. ResultBelongs'
  BY <1>1, ResultsStay DEF IInv, my_completion, sessionVars, Types
<1> QED
  BY <1>1, <1>2, <1>3, <1>4 DEF IInv

LEMMA StepLeave == ASSUME IInv, Leave PROVE IInv'
<1>0. PICK n \in 0..Len(toServer) : toServer' = SubSeq(toServer, 1, n)
  BY DEF Leave
<1>a. toServer' \in Seq(Byte)
  BY <1>0, Cut DEF IInv, Types
<1>1. Types'
  BY <1>a DEF IInv, Types, Leave, Destructor, sessionVars
<1>2. Requests'
  <2>1. PICK at \in [0..Len(sent) -> Nat] : OnStream(Incoming, sent, Len(unpacked), at)
    BY DEF IInv, Requests
  <2>2. Incoming \in Seq(Byte) /\ Incoming' = Held \o toServer'
    BY Streams DEF IInv, Incoming, Held, Leave, sessionVars
  <2>3. /\ Incoming' \in Seq(Byte) /\ Len(Incoming') <= Len(Incoming)
        /\ \A i \in 1..Len(Incoming') : Incoming'[i] = Incoming[i]
    <3>1. Held \in Seq(Byte) /\ toServer \in Seq(Byte)
      BY Streams DEF IInv, Types
    <3>2. /\ Held \o toServer' \in Seq(Byte)
          /\ Len(Held \o toServer') <= Len(Held \o toServer)
          /\ \A i \in 1..Len(Held \o toServer') :
               (Held \o toServer')[i] = (Held \o toServer)[i]
      BY <1>0, <3>1, CutStream
    <3> QED
      BY <2>2, <3>2 DEF Incoming
  <2>5. OnStream(Incoming', sent, Len(unpacked), at)
    <3>1. sent \in Seq(Messages) /\ Len(unpacked) \in 0..Len(sent)
      BY Lengths DEF IInv, Types, Requests
    <3> QED
      BY <2>1, <2>2, <2>3, <3>1, StreamEnds
  <2>6. ~Writing' /\ UNCHANGED <<sent, unpacked, replies, reading, sessionbuf>>
    BY DEF Leave, Destructor, Writing, sessionVars
  <2> QED
    BY <2>1, <2>5, <2>6 DEF IInv, Requests
<1>3. Results'
  BY DEF IInv, Results, Leave, Destructor, sessionVars
<1>4. ResultBelongs'
  BY <1>1, ResultsStay DEF IInv, Leave, sessionVars, Types
<1> QED
  BY <1>1, <1>2, <1>3, <1>4 DEF IInv

LEMMA StepWrite == ASSUME IInv, Write PROVE IInv'
<1>0. PICK body \in Messages :
        /\ sent' = Append(sent, body)
        /\ toServer' = IF link = "up" THEN toServer \o pack(body) ELSE toServer
  BY DEF Write, Send
<1>1. /\ stage = "prompt" /\ stage' = (IF kind = "other" THEN "prompt" ELSE "header")
      /\ readbuf' = <<>>
      /\ UNCHANGED <<kind, shown, open, toClient, link, reading, sessionbuf, writebuf, unpacked, replies>>
  BY DEF Write, sessionVars
<1>2. pack(body) \in Seq(Byte)
  BY Packed
<1>3. toServer' \in Seq(Byte)
  BY <1>0, <1>2, ConcatProperties DEF IInv, Types
<1>4. sent' \in Seq(Messages) /\ Len(sent') = Len(sent) + 1
      /\ \A i \in 1..Len(sent) : sent'[i] = sent[i]
  BY <1>0, AppendProperties DEF IInv, Types
<1>5. Types'
  BY <1>1, <1>3, <1>4 DEF IInv, Types
<1>6. Requests'
  <2>1. PICK at \in [0..Len(sent) -> Nat] :
          /\ OnStream(Incoming, sent, Len(unpacked), at)
          /\ link = "up" => Len(Incoming) = at[Len(sent)] - at[Len(unpacked)]
    BY <1>1 DEF IInv, Requests, Writing
  <2>2. Incoming \in Seq(Byte) /\ sent \in Seq(Messages) /\ Len(unpacked) \in 0..Len(sent)
    BY Streams, Lengths DEF IInv, Types, Requests
  <2>3. \E new \in [0..Len(sent') -> Nat] :
          /\ OnStream(Incoming', sent', Len(unpacked), new)
          /\ link = "up" => Len(Incoming') = new[Len(sent')] - new[Len(unpacked)]
    <3>1. CASE link = "up"
      <4>1. Incoming' = Incoming \o pack(body)
        <5>1. Incoming' = Held \o (toServer \o pack(body))
          BY <1>0, <1>1, <3>1 DEF Incoming, Held
        <5>2. toServer \in Seq(Byte) /\ Held \in Seq(Byte)
          BY Streams DEF IInv, Types
        <5>3. (Held \o toServer) \o pack(body) = Held \o (toServer \o pack(body))
          BY <1>2, <5>2, ConcatAssociative
        <5> QED
          BY <5>1, <5>3 DEF Incoming
      <4>2. Len(Incoming) = at[Len(sent)] - at[Len(unpacked)]
        BY <2>1, <3>1
      <4> QED
        BY <1>0, <2>1, <2>2, <4>1, <4>2, StreamGrows
    <3>2. CASE link # "up"
      <4>1. Incoming' = Incoming
        BY <1>0, <1>1, <3>2 DEF Incoming, Held
      <4> QED
        BY <1>0, <2>1, <2>2, <3>2, <4>1, StreamStays
    <3> QED
      BY <3>1, <3>2
  <2>4. \A i \in 1..Len(unpacked) : unpacked[i] = sent'[i]
    BY <1>4, Lengths DEF IInv, Requests
  <2>5. Len(unpacked) <= Len(sent')
    BY <1>4, Lengths DEF IInv, Requests
  <2> QED
    BY <1>1, <2>3, <2>4, <2>5 DEF IInv, Requests
<1>7. Results'
  <2>1. CASE kind = "other"
    BY <1>1, <2>1 DEF IInv, Results
  <2>2. CASE kind # "other"
    <3>1. Len(sent) = Len(shown) /\ Outbound' = <<>> /\ (link = "up" => Len(replies) = Len(shown))
      BY <1>1, <2>2 DEF IInv, Results, Outbound
    <3>2. Len(replies) <= Len(shown) /\ Len(shown) \in Nat /\ Len(sent') - Len(shown) = 1
      BY <1>4, <3>1, Lengths DEF IInv, Requests
    <3>3. Silent'
      BY <1>1, <2>2, <3>1, <3>2 DEF Silent
    <3> QED
      BY <1>1, <1>4, <2>2, <3>1, <3>2, <3>3 DEF Results
  <2> QED
    BY <2>1, <2>2
<1>8. ResultBelongs'
  BY <1>1, <1>5, ResultsStay DEF IInv, Types
<1> QED
  BY <1>5, <1>6, <1>7, <1>8 DEF IInv

LEMMA StepWriteThrows == ASSUME IInv, WriteThrows PROVE IInv'
<1>0. PICK body \in Messages : sent' = Append(sent, body)
  BY DEF WriteThrows
<1>1. /\ stage = "prompt" /\ kind # "other" /\ link = "down"
      /\ UNCHANGED <<kind, readbuf, open, toServer, toClient, link, reading, sessionbuf,
                     writebuf, unpacked, replies>>
  BY DEF WriteThrows, sessionVars
<1>2. \/ stage' = "crashed" /\ shown' = shown
      \/ stage' = "prompt" /\ shown' = Append(shown, Garbage)
  BY DEF WriteThrows, NoReturn, printQueryResult
<1>3. sent' \in Seq(Messages) /\ Len(sent') = Len(sent) + 1
      /\ \A i \in 1..Len(sent) : sent'[i] = sent[i]
  BY <1>0, AppendProperties DEF IInv, Types
<1>4. shown' = Append(shown, Garbage) =>
        /\ shown' \in Seq([from : {"buffer"}, body : Messages] \cup {Garbage})
        /\ Len(shown') = Len(shown) + 1
  BY AppendProperties DEF IInv, Types
<1>5. Types'
  BY <1>1, <1>2, <1>3, <1>4 DEF IInv, Types
<1>6. Requests'
  <2>1. PICK at \in [0..Len(sent) -> Nat] : OnStream(Incoming, sent, Len(unpacked), at)
    BY DEF IInv, Requests
  <2>2. Incoming \in Seq(Byte) /\ sent \in Seq(Messages) /\ Len(unpacked) \in 0..Len(sent)
    BY Streams, Lengths DEF IInv, Types, Requests
  <2>3. \E new \in [0..Len(sent') -> Nat] : OnStream(Incoming, sent', Len(unpacked), new)
    BY <1>0, <2>1, <2>2, StreamStays
  <2>4. \A i \in 1..Len(unpacked) : unpacked[i] = sent'[i]
    BY <1>3, Lengths DEF IInv, Requests
  <2>5. Len(unpacked) <= Len(sent')
    BY <1>3, Lengths DEF IInv, Requests
  <2>6. Incoming' = Incoming
    BY <1>1 DEF Incoming, Held
  <2> QED
    BY <1>1, <2>3, <2>4, <2>5, <2>6 DEF IInv, Requests
<1>7. Results'
  <2>1. Len(sent) = Len(shown) /\ Outbound' = <<>> /\ Len(shown) \in Nat
    BY <1>1, Lengths DEF IInv, Results, Outbound
  <2> QED
    BY <1>1, <1>2, <1>3, <1>4, <2>1 DEF Results
<1>8. ResultBelongs'
  <2>1. CASE shown' = shown
    BY <1>1, <1>5, <2>1, ResultsStay DEF IInv, Types
  <2>2. CASE shown' = Append(shown, Garbage)
    <3>1. Belongs(Garbage, Len(shown) + 1, replies, link)
      BY <1>1 DEF Belongs
    <3> QED
      BY <1>1, <1>5, <2>2, <3>1, ResultsAdded DEF IInv
  <2> QED
    BY <1>2, <2>1, <2>2
<1> QED
  BY <1>5, <1>6, <1>7, <1>8 DEF IInv

-----------------------------------------------------------------------------
(* The reads of the client.                                                *)
LEMMA StepClientReads == ASSUME IInv, ClientReads PROVE IInv'
<1>0. PICK n \in 1..Len(toClient) :
        /\ Len(readbuf) + n <= BufferSize(stage, readbuf)
        /\ readbuf' = readbuf \o SubSeq(toClient, 1, n)
        /\ toClient' = SubSeq(toClient, n + 1, Len(toClient))
  BY DEF ClientReads
<1>1. /\ stage \in {"header", "body"}
      /\ UNCHANGED <<kind, stage, sent, shown, open, toServer, link, reading, sessionbuf,
                     writebuf, unpacked, replies>>
  BY DEF ClientReads, sessionVars
<1>2. /\ readbuf' \in Seq(Byte) /\ toClient' \in Seq(Byte)
      /\ Len(readbuf') = Len(readbuf) + n /\ readbuf' \o toClient' = readbuf \o toClient
  <2>1. readbuf \in Seq(Byte) /\ toClient \in Seq(Byte) /\ n \in 0..Len(toClient)
    BY Lengths DEF IInv, Types
  <2> QED
    BY <1>0, <2>1, PieceMoves
<1>3. Types'
  BY <1>1, <1>2 DEF IInv, Types
<1>4. Requests'
  BY <1>1, RequestsStay DEF IInv, Requests, Writing
<1>5. Results'
  <2>1. kind # "other" /\ Len(sent) = Len(shown) + 1 /\ (Silent \/ Arriving \/ Blind)
        /\ Len(sent) - Len(shown) \in {0, 1}
    BY <1>1 DEF IInv, Results
  <2>2. toClient # <<>> /\ Outbound # <<>>
    BY <1>0, EmptyBytes, NothingOutbound DEF IInv
  <2>3. Arriving
    BY <2>1, <2>2 DEF Silent, Blind
  <2>4. Outgoing' = Outgoing
    <3>1. /\ readbuf \in Seq(Byte) /\ toClient \in Seq(Byte) /\ writebuf \in Seq(Byte)
      BY DEF IInv, Types
    <3>2. readbuf' \o (toClient' \o writebuf) = (readbuf' \o toClient') \o writebuf
      BY <1>2, <3>1, Regrouped
    <3>3. readbuf \o (toClient \o writebuf) = (readbuf \o toClient) \o writebuf
      BY <3>1, ConcatAssociative
    <3> QED
      BY <1>1, <1>2, <3>2, <3>3 DEF Outgoing, Outbound
  <2>5. stage = "header" => Len(readbuf') <= HEADER_SIZE
    BY <1>0, <1>2 DEF BufferSize
  <2>6. stage = "body" => Len(readbuf') >= HEADER_SIZE
    BY <1>2, <2>3, Lengths DEF IInv, Arriving, HEADER_SIZE
  <2>7. Arriving'
    BY <1>1, <2>3, <2>4, <2>5, <2>6 DEF Arriving
  <2> QED
    BY <1>1, <2>1, <2>7 DEF Results
<1>6. ResultBelongs'
  BY <1>1, <1>3, ResultsStay DEF IInv, Types
<1> QED
  BY <1>3, <1>4, <1>5, <1>6 DEF IInv

LEMMA StepHeaderRead == ASSUME IInv, HeaderRead PROVE IInv'
<1>1. /\ stage = "header" /\ stage' = "body" /\ readbuf' = Padded(readbuf, HEADER_SIZE)
      /\ UNCHANGED <<kind, sent, shown, open, toServer, toClient, link, reading, sessionbuf,
                     writebuf, unpacked, replies>>
  BY DEF HeaderRead, sessionVars
<1>2. Len(readbuf) = HEADER_SIZE \/ (link = "down" /\ toClient = <<>>)
  BY <1>1 DEF HeaderRead, ReadEnds, Full, BufferSize
<1>3. /\ kind # "other" /\ Len(sent) = Len(shown) + 1 /\ (Silent \/ Arriving)
      /\ Len(sent) - Len(shown) \in {0, 1}
  BY <1>1 DEF IInv, Results, Blind
<1>4. readbuf \in Seq(Byte) /\ Len(readbuf) <= HEADER_SIZE /\ HEADER_SIZE \in Nat
  BY <1>1, <1>3, EmptyBytes DEF IInv, Types, Silent, Arriving, HEADER_SIZE
<1>5. /\ readbuf' \in Seq(Byte) /\ Len(readbuf') = HEADER_SIZE
      /\ Len(readbuf) = HEADER_SIZE => readbuf' = readbuf
  BY <1>1, <1>4, PaddedBuffer
<1>6. Types'
  BY <1>1, <1>5 DEF IInv, Types
<1>7. Requests'
  BY <1>1, RequestsStay DEF IInv, Requests, Writing
<1>8. Results'
  <2>1. CASE link = "down" /\ toClient = <<>>
    <3>1. Blind'
      BY <1>1, <1>5, <2>1 DEF Blind
    <3> QED
      BY <1>1, <1>3, <3>1 DEF Results
  <2>2. CASE Len(readbuf) = HEADER_SIZE
    <3>0. readbuf # <<>>
      BY <2>2, EmptyBytes DEF HEADER_SIZE
    <3>1. Arriving
      BY <1>3, <3>0 DEF Silent
    <3>2. readbuf' = readbuf /\ Outgoing' = Outgoing
      BY <1>1, <1>5, <2>2 DEF Outgoing, Outbound
    <3>3. Len(readbuf') >= HEADER_SIZE
      BY <1>4, <1>5
    <3>4. Arriving'
      BY <1>1, <3>1, <3>2, <3>3 DEF Arriving
    <3> QED
      BY <1>1, <1>3, <3>4 DEF Results
  <2> QED
    BY <1>2, <2>1, <2>2
<1>9. ResultBelongs'
  BY <1>1, <1>6, ResultsStay DEF IInv, Types
<1> QED
  BY <1>6, <1>7, <1>8, <1>9 DEF IInv

(* The body that is unpacked when the client has its reply, or the end of  *)
(* the stream, can be shown.                                               *)
LEMMA BodyBelongs ==
  ASSUME IInv, BodyRead
  PROVE  LET body == unpack(Padded(readbuf, BufferSize(stage, readbuf))) IN
         /\ Belongs(Reply(body), Len(shown) + 1, replies, link)
         /\ link = "down" \/ body \in Messages
         /\ Outbound = <<>>
         /\ link = "up" => Len(replies) = Len(shown) + 1
<1> DEFINE body == unpack(Padded(readbuf, BufferSize(stage, readbuf)))
<1>0. /\ stage = "body" /\ BufferSize(stage, readbuf) = HEADER_SIZE + decode_header(readbuf)
      /\ \/ Len(readbuf) = HEADER_SIZE + decode_header(readbuf)
         \/ link = "down" /\ toClient = <<>>
  BY DEF BodyRead, ReadEnds, Full, BufferSize
<1>1. Arriving \/ Blind
  BY <1>0 DEF IInv, Results, Silent
<1>2. readbuf \in Seq(Byte) /\ Outbound \in Seq(Byte) /\ Len(readbuf) \in Nat
      /\ Len(Outbound) \in Nat /\ Len(shown) \in Nat
  BY Lengths, Streams DEF IInv, Types
<1>a. link = "down" /\ toClient = <<>> => Outbound = <<>>
  BY NothingOutbound DEF IInv, Types
<1>3. CASE Blind
  <2>1. link = "down" /\ toClient = <<>> /\ Len(readbuf) = HEADER_SIZE
    BY <1>3 DEF Blind
  <2>2. decode_header(readbuf) \in Nat
    <3>1. readbuf \in Seq(Byte) /\ Len(readbuf) >= HEADER_SIZE
      BY <1>2, <2>1
    <3> QED
      BY <3>1, HeaderIsSize
  <2>3. body = Padded(<<>>, Len(body))
    BY <1>0, <1>2, <2>1, <2>2, BodyOfHeader
  <2> DEFINE reply == IF Len(shown) + 1 <= Len(replies) THEN replies[Len(shown) + 1] ELSE <<>>
  <2>4. Len(reply) \in Nat /\ SubSeq(reply, 1, 0) = <<>>
    <3>1. reply \in Seq(Byte)
      <4>1. CASE Len(shown) + 1 <= Len(replies)
        <5>1. replies[Len(shown) + 1] \in Messages
          BY <1>2, <4>1 DEF IInv, Types
        <5> QED
          BY <4>1, <5>1, Packed
      <4>2. CASE ~(Len(shown) + 1 <= Len(replies))
        BY <4>2
      <4> QED
        BY <4>1, <4>2
    <3> HIDE DEF reply
    <3> QED
      BY <3>1, SubSeqEmpty
  <2>5. 0 \in 0..Len(reply)
    BY <2>4
  <2> HIDE DEF body, reply
  <2>6. Reply(body).body = Padded(SubSeq(reply, 1, 0), Len(Reply(body).body))
    BY <2>3, <2>4 DEF Reply
  <2>7. Belongs(Reply(body), Len(shown) + 1, replies, link)
    BY <2>1, <2>5, <2>6 DEF Belongs, reply
  <2> QED
    BY <1>a, <2>1, <2>7 DEF body
<1>4. CASE Arriving
  <2> DEFINE reply == replies[Len(shown) + 1]
  <2>1. /\ Len(replies) = Len(shown) + 1 /\ Len(readbuf) >= HEADER_SIZE
        /\ Len(Outgoing) <= Len(pack(reply))
        /\ \A k \in 1..Len(Outgoing) : Outgoing[k] = pack(reply)[k]
    BY <1>0, <1>4 DEF Arriving
  <2>2. reply \in Messages
    BY <1>2, <2>1 DEF IInv, Types
  <2> HIDE DEF reply
  <2>3. /\ Len(reply) \in Nat /\ Len(pack(reply)) = HEADER_SIZE + Len(reply)
        /\ HEADER_SIZE = 4 /\ Len(Outgoing) = Len(readbuf) + Len(Outbound)
    BY <2>2, Packed, Streams DEF IInv, HEADER_SIZE
  <2>4. \A i \in 1..Len(readbuf) : readbuf[i] = pack(reply)[i]
    <3>1. \A i \in 1..Len(readbuf) : Outgoing[i] = readbuf[i]
      BY <1>2, Joined DEF Outgoing
    <3>2. \A i \in 1..Len(readbuf) : i \in 1..Len(Outgoing)
      BY <1>2, <2>3
    <3> QED
      BY <2>1, <3>1, <3>2
  <2>5. decode_header(readbuf) = Len(reply)
    <3>1. \A k \in 1..HEADER_SIZE : readbuf[k] = pack(reply)[k]
      <4>1. \A k \in 1..HEADER_SIZE : k \in 1..Len(readbuf)
        BY <1>2, <2>1, <2>3
      <4> QED
        BY <2>4, <4>1
    <3> QED
      BY <1>2, <2>1, <2>2, <3>1, HeaderDecides
  <2> DEFINE n == Len(readbuf) - HEADER_SIZE
  <2>6. n \in 0..Len(reply) /\ Len(readbuf) = HEADER_SIZE + n
    BY <1>2, <2>1, <2>3
  <2>7. body = unpack(Padded(readbuf, HEADER_SIZE + Len(reply)))
    BY <1>0, <2>5
  <2> HIDE DEF n, body
  <2>8. /\ Len(body) = Len(reply) /\ body = Padded(SubSeq(reply, 1, n), Len(reply))
        /\ n = Len(reply) => body = reply
    BY <1>2, <2>2, <2>4, <2>6, <2>7, BodyOfPart
  <2>9. CASE Len(readbuf) = HEADER_SIZE + decode_header(readbuf)
    <3>1. n = Len(reply) /\ Len(Outbound) = 0
      BY <1>2, <2>1, <2>3, <2>5, <2>6, <2>9
    <3>2. body = reply /\ Outbound = <<>>
      BY <1>2, <2>8, <3>1
    <3>3. Belongs(Reply(body), Len(shown) + 1, replies, link)
      BY <1>2, <2>1, <3>2 DEF Belongs, reply
    <3> QED
      BY <2>1, <2>2, <3>2, <3>3 DEF body
  <2>10. CASE link = "down" /\ toClient = <<>>
    <3>1. Reply(body).body = Padded(SubSeq(reply, 1, n), Len(Reply(body).body))
      BY <2>8 DEF Reply
    <3>2. Belongs(Reply(body), Len(shown) + 1, replies, link)
      BY <1>2, <2>1, <2>6, <2>10, <3>1 DEF Belongs, reply
    <3> QED
      BY <1>a, <2>10, <3>2 DEF body
  <2> QED
    BY <1>0, <2>9, <2>10
<1> QED
  BY <1>1, <1>3, <1>4

LEMMA StepBodyRead == ASSUME IInv, BodyRead PROVE IInv'
<1> DEFINE body == unpack(Padded(readbuf, BufferSize(stage, readbuf)))
<1>1. /\ stage = "body" /\ readbuf' = <<>>
      /\ UNCHANGED <<kind, sent, open, toServer, toClient, link, reading, sessionbuf,
                     writebuf, unpacked, replies>>
  BY DEF BodyRead, sessionVars
<1>2. /\ Belongs(Reply(body), Len(shown) + 1, replies, link)
      /\ link = "down" \/ body \in Messages
      /\ Outbound' = <<>>
      /\ link = "up" => Len(replies) = Len(shown) + 1
  BY <1>1, BodyBelongs DEF Outbound
<1>3. \/ /\ body \in Messages
         /\ shown' = Append(shown, Reply(body)) /\ stage' = "prompt"
      \/ /\ link = "down"
         /\ \/ shown' = shown /\ stage' \in {"exited", "crashed"}
            \/ shown' = Append(shown, Garbage) /\ stage' = "prompt"
  BY <1>2 DEF BodyRead, printQueryResult, unpack_fails, NoReturn
<1> HIDE DEF body
<1>4. PICK result : \/ shown' = shown /\ stage' \in {"exited", "crashed"}
                   \/ /\ result \in [from : {"buffer"}, body : Messages] \cup {Garbage}
                      /\ Belongs(result, Len(shown) + 1, replies, link)
                      /\ shown' = Append(shown, result) /\ stage' = "prompt"
  <2>1. body \in Messages => Reply(body) \in [from : {"buffer"}, body : Messages]
    BY DEF Reply
  <2>2. link = "down" => Belongs(Garbage, Len(shown) + 1, replies, link)
    BY DEF Belongs
  <2> QED
    BY <1>2, <1>3, <2>1, <2>2
<1>5. stage' = "prompt" =>
        /\ shown' \in Seq([from : {"buffer"}, body : Messages] \cup {Garbage})
        /\ Len(shown') = Len(shown) + 1
  <2> DEFINE Shown == [from : {"buffer"}, body : Messages] \cup {Garbage}
  <2>1. shown \in Seq(Shown)
    BY DEF IInv, Types
  <2>2. stage' = "prompt" => result \in Shown /\ shown' = Append(shown, result)
    BY <1>4
  <2> HIDE DEF Shown
  <2>3. stage' = "prompt" => shown' \in Seq(Shown) /\ Len(shown') = Len(shown) + 1
    BY <2>1, <2>2, AppendProperties
  <2> QED
    BY <2>3 DEF Shown
<1>6. stage' \in {"exited", "crashed"} => shown' = shown
  BY <1>4
<1>7. Types'
  BY <1>1, <1>4, <1>5, <1>6, EmptyBytes DEF IInv, Types
<1>8. Requests'
  BY <1>1, RequestsStay DEF IInv, Requests, Writing
<1>9. Results'
  <2>1. kind # "other" /\ Len(sent) = Len(shown) + 1 /\ Len(sent) - Len(shown) \in {0, 1}
        /\ Len(shown) \in Nat
    BY <1>1, Lengths DEF IInv, Results
  <2>2. CASE stage' = "prompt"
    BY <1>1, <1>2, <1>5, <2>1, <2>2 DEF Results
  <2>3. CASE stage' \in {"exited", "crashed"}
    BY <1>1, <1>6, <2>1, <2>3 DEF Results
  <2> QED
    BY <1>4, <2>2, <2>3
<1>10. ResultBelongs'
  <2>1. CASE shown' = shown
    BY <1>1, <1>7, <2>1, ResultsStay DEF IInv, Types
  <2>2. CASE shown' # shown
    BY <1>1, <1>4, <1>7, <2>2, ResultsAdded DEF IInv
  <2> QED
    BY <2>1, <2>2
<1> QED
  BY <1>7, <1>8, <1>9, <1>10 DEF IInv

-----------------------------------------------------------------------------
(* The session.                                                            *)
LEMMA ResultsUntouched ==
  ASSUME Types, Results, UNCHANGED <<kind, stage, sent, shown, readbuf, replies, link>>,
         Outbound' = Outbound, link = "down" => toClient' = toClient
  PROVE  Results'
<1>1. Outgoing' = Outgoing
  BY DEF Outgoing
<1>2. Silent => Silent'
  BY DEF Silent
<1>3. Arriving => Arriving'
  BY <1>1 DEF Arriving
<1>4. Blind => Blind'
  BY DEF Blind
<1> QED
  BY <1>2, <1>3, <1>4 DEF Results

LEMMA StepSessionReads == ASSUME IInv, SessionReads PROVE IInv'
<1>0. PICK n \in 1..Len(toServer) :
        /\ sessionbuf' = sessionbuf \o SubSeq(toServer, 1, n)
        /\ toServer' = SubSeq(toServer, n + 1, Len(toServer))
  BY DEF SessionReads
<1>1. UNCHANGED <<kind, stage, sent, shown, readbuf, open, toClient, link, reading,
                  writebuf, unpacked, replies>>
  BY DEF SessionReads, Receives, clientVars
<1>2. /\ sessionbuf' \in Seq(Byte) /\ toServer' \in Seq(Byte)
      /\ Len(sessionbuf') = Len(sessionbuf) + n
      /\ sessionbuf' \o toServer' = sessionbuf \o toServer
  <2>1. sessionbuf \in Seq(Byte) /\ toServer \in Seq(Byte) /\ n \in 0..Len(toServer)
    BY Lengths DEF IInv, Types
  <2> QED
    BY <1>0, <2>1, PieceMoves
<1>3. Types'
  BY <1>1, <1>2 DEF IInv, Types
<1>4. Requests'
  <2>1. Incoming' = Incoming
    BY <1>1, <1>2 DEF Incoming, Held, SessionReads, Receives
  <2>2. reading = "body" => Len(sessionbuf') >= HEADER_SIZE
    BY <1>2, Lengths DEF IInv, Requests, HEADER_SIZE
  <2> QED
    BY <1>1, <2>1, <2>2 DEF IInv, Requests, Writing
<1>5. Results'
  BY <1>1, ResultsUntouched DEF IInv, Outbound
<1>6. ResultBelongs'
  BY <1>1, <1>3, ResultsStay DEF IInv, Types
<1> QED
  BY <1>3, <1>4, <1>5, <1>6 DEF IInv

LEMMA StepParseMessage == ASSUME IInv, parseMessage PROVE IInv'
<1>1. /\ reading = "header" /\ reading' = "body" /\ Len(sessionbuf) = HEADER_SIZE
      /\ UNCHANGED <<kind, stage, sent, shown, readbuf, open, toServer, toClient, link,
                     sessionbuf, writebuf, unpacked, replies>>
  BY DEF parseMessage, clientVars, Full, BufferSize
<1>2. Types'
  BY <1>1 DEF IInv, Types
<1>3. Requests'
  BY <1>1, RequestsStay DEF IInv, Writing, HEADER_SIZE
<1>4. Results'
  BY <1>1, ResultsUntouched DEF IInv, Outbound
<1>5. ResultBelongs'
  BY <1>1, <1>2, ResultsStay DEF IInv, Types
<1> QED
  BY <1>2, <1>3, <1>4, <1>5 DEF IInv

(* The request that the session unpacks is the next one that was sent, and *)
(* the shell whose request it is has no other reply on its way.            *)
LEMMA StepBody == ASSUME IInv, handle_read_body PROVE IInv'
<1>0. PICK body \in Messages :
        replies' = Append(replies, body) /\ writebuf' = pack(body)
  BY DEF handle_read_body
<1>1. /\ link = "up" /\ reading = "body" /\ reading' = "write"
      /\ Len(sessionbuf) = HEADER_SIZE + decode_header(sessionbuf)
      /\ unpacked' = Append(unpacked, unpack(sessionbuf))
      /\ UNCHANGED <<kind, stage, sent, shown, readbuf, open, toServer, toClient, link,
                     sessionbuf>>
  BY DEF handle_read_body, clientVars, Full, BufferSize
<1> DEFINE n == Len(unpacked)
<1>2. PICK at \in [0..Len(sent) -> Nat] :
        /\ OnStream(Incoming, sent, n, at)
        /\ link = "up" /\ Writing => Len(Incoming) = at[Len(sent)] - at[n]
  BY DEF IInv, Requests
<1>3. /\ sessionbuf \in Seq(Byte) /\ toServer \in Seq(Byte) /\ sent \in Seq(Messages)
      /\ n \in 0..Len(sent) /\ n \in Nat /\ Len(sent) \in Nat
      /\ Len(sessionbuf) >= HEADER_SIZE
  BY <1>1, Lengths DEF IInv, Types, Requests
<1> HIDE DEF n
<1>4. /\ n + 1 \in 1..Len(sent) /\ sessionbuf = pack(sent[n + 1])
      /\ OnStream(toServer, sent, n + 1, at)
      /\ Len(Incoming) = at[Len(sent)] - at[n] =>
           Len(toServer) = at[Len(sent)] - at[n + 1]
  <2>1. Incoming = sessionbuf \o toServer
    BY <1>1 DEF Incoming, Held
  <2> QED
    BY <1>1, <1>2, <1>3, <2>1, NextMessage
<1>5. sent[n + 1] \in Messages
  BY <1>3, <1>4
<1>6. unpack(sessionbuf) = sent[n + 1]
  BY <1>4, <1>5, Packed
<1>7. /\ unpacked' \in Seq(Messages) /\ Len(unpacked') = n + 1
      /\ unpacked'[n + 1] = sent[n + 1]
      /\ \A i \in 1..n : unpacked'[i] = unpacked[i]
  BY <1>1, <1>5, <1>6, AppendProperties DEF IInv, Types, n
<1>8. /\ replies' \in Seq(Messages) /\ Len(replies') = Len(replies) + 1
      /\ replies'[Len(replies) + 1] = body
      /\ \A i \in 1..Len(replies) : replies'[i] = replies[i]
  BY <1>0, AppendProperties DEF IInv, Types
<1>9. pack(body) \in Seq(Byte)
  BY Packed
<1>11. Types'
  BY <1>0, <1>1, <1>7, <1>8, <1>9 DEF IInv, Types
<1>12. Requests'
  <2>1. Incoming' = toServer
    <3>1. Incoming' = <<>> \o toServer
      BY <1>1 DEF Incoming, Held
    <3> QED
      BY <1>3, <3>1, ConcatEmptySeq
  <2>2. Len(replies') = Len(unpacked') /\ Len(unpacked') <= Len(sent')
    BY <1>1, <1>3, <1>4, <1>7, <1>8 DEF IInv, Requests, n
  <2>3. \A i \in 1..Len(unpacked') : unpacked'[i] = sent'[i]
    <3> TAKE i \in 1..Len(unpacked')
    <3>1. CASE i = n + 1
      BY <1>1, <1>7, <3>1
    <3>2. CASE i # n + 1
      <4>1. i \in 1..n
        BY <1>3, <1>7, <3>2
      <4> QED
        BY <1>1, <1>7, <4>1 DEF IInv, Requests, n
    <3> QED
      BY <3>1, <3>2
  <2>4. /\ OnStream(Incoming', sent', Len(unpacked'), at)
        /\ link' = "up" /\ Writing' =>
             Len(Incoming') = at[Len(sent')] - at[Len(unpacked')]
    BY <1>1, <1>2, <1>4, <1>7, <2>1 DEF Writing
  <2>5. at \in [0..Len(sent') -> Nat]
    BY <1>1
  <2> QED
    BY <1>1, <2>2, <2>3, <2>4, <2>5 DEF Requests
<1>13. Results'
  <2>1. CASE kind = "other"
    BY <1>1, <2>1 DEF IInv, Results
  <2>2. CASE kind # "other" /\ stage \in {"exited", "crashed"}
    BY <1>1, <2>2 DEF IInv, Results
  <2>3. CASE kind # "other" /\ stage \notin {"exited", "crashed"}
    <3>1. Len(replies) = n /\ Len(replies) < Len(sent)
      BY <1>3, <1>4 DEF IInv, Requests, n
    <3>2. stage \in {"header", "body"} /\ Len(sent) = Len(shown) + 1
          /\ (Silent \/ Arriving \/ Blind) /\ Len(sent) - Len(shown) \in {0, 1}
      BY <1>1, <1>3, <2>3, <3>1 DEF IInv, Types, Results
    <3>3. Silent
      BY <1>1, <1>3, <3>1, <3>2, Lengths DEF IInv, Arriving, Blind
    <3>4. stage = "header" /\ readbuf = <<>> /\ toClient = <<>> /\ Len(replies) = Len(shown)
      BY <1>1, <3>3, NothingOutbound DEF IInv, Silent
    <3>5. Outgoing' = pack(body)
      <4>1. Outgoing' = <<>> \o (<<>> \o pack(body))
        BY <1>0, <1>1, <3>4 DEF Outgoing, Outbound
      <4> QED
        BY <1>9, <4>1, ConcatEmptySeq
    <3>6. Len(replies') = Len(shown) + 1 /\ replies'[Len(replies')] = body
      BY <1>8, <3>4
    <3>7. Len(readbuf') <= HEADER_SIZE
      BY <1>1, <3>4, EmptyBytes DEF HEADER_SIZE
    <3>8. Arriving'
      <4>1. Len(pack(body)) \in Nat
        BY <1>9
      <4> QED
        BY <1>1, <3>4, <3>5, <3>6, <3>7, <4>1 DEF Arriving
    <3> QED
      BY <1>1, <2>3, <3>2, <3>8 DEF Results
  <2> QED
    BY <2>1, <2>2, <2>3
<1>14. ResultBelongs'
  <2>1. link # "down" /\ UNCHANGED shown /\ Len(replies) <= Len(replies')
    BY <1>1, <1>8, Lengths DEF IInv
  <2> QED
    BY <1>8, <1>11, <2>1, ResultsStay DEF IInv
<1> QED
  BY <1>11, <1>12, <1>13, <1>14 DEF IInv

LEMMA Least ==
  ASSUME NEW a \in Nat, NEW b \in Nat
  PROVE  Min({a, b}) \in 0..a
<1>1. \E x \in {a, b} : \A y \in {a, b} : x <= y
  <2>1. CASE a <= b
    BY <2>1
  <2>2. CASE b <= a
    BY <2>2
  <2> QED
    BY <2>1, <2>2
<1>2. Min({a, b}) \in {a, b} /\ \A y \in {a, b} : Min({a, b}) <= y
  BY <1>1 DEF Min
<1> QED
  BY <1>2

LEMMA StepSessionWrites == ASSUME IInv, SessionWrites PROVE IInv'
<1>0. PICK n \in 0..Len(writebuf) :
        /\ toClient' = toClient \o SubSeq(writebuf, 1, n)
        /\ writebuf' = SubSeq(writebuf, n + 1, Len(writebuf))
  <2>1. Len(writebuf) \in Nat /\ Window - Len(toClient) \in Nat
    BY Lengths, WindowAssumption DEF IInv, SessionWrites
  <2> QED
    BY <2>1, Least DEF SessionWrites
<1>1. /\ link = "up" /\ reading = "write"
      /\ UNCHANGED <<kind, stage, sent, shown, readbuf, open, toServer, link, reading,
                     sessionbuf, unpacked, replies>>
  BY DEF SessionWrites, clientVars
<1>2. toClient' \in Seq(Byte) /\ writebuf' \in Seq(Byte) /\ Outbound' = Outbound
  <2>1. toClient \in Seq(Byte) /\ writebuf \in Seq(Byte)
    BY DEF IInv, Types
  <2> QED
    BY <1>0, <2>1, PieceMoves DEF Outbound
<1>3. Types'
  BY <1>1, <1>2 DEF IInv, Types
<1>4. Requests'
  BY <1>1, RequestsStay DEF IInv, Writing
<1>5. Results'
  BY <1>1, <1>2, ResultsUntouched DEF IInv
<1>6. ResultBelongs'
  BY <1>1, <1>3, ResultsStay DEF IInv, Types
<1> QED
  BY <1>3, <1>4, <1>5, <1>6 DEF IInv

LEMMA StepWritten == ASSUME IInv, handle_write PROVE IInv'
<1>1. /\ reading = "write" /\ reading' = "header" /\ sessionbuf' = <<>> /\ writebuf = <<>>
      /\ UNCHANGED <<kind, stage, sent, shown, readbuf, open, toServer, toClient, link,
                     writebuf, unpacked, replies>>
  BY DEF handle_write, Written, clientVars
<1>2. Types'
  BY <1>1, EmptyBytes DEF IInv, Types
<1>3. Requests'
  <2>1. Incoming' = Incoming
    BY <1>1 DEF Incoming, Held
  <2> QED
    BY <1>1, <2>1 DEF IInv, Requests, Writing
<1>4. Results'
  BY <1>1, ResultsUntouched DEF IInv, Outbound
<1>5. ResultBelongs'
  BY <1>1, <1>2, ResultsStay DEF IInv, Types
<1> QED
  BY <1>2, <1>3, <1>4, <1>5 DEF IInv

(* Replies that nobody looks at do not matter.                             *)
LEMMA StepDiscards == ASSUME IInv, Discards PROVE IInv'
<1>0. PICK n \in 1..Len(toClient) : toClient' = SubSeq(toClient, n + 1, Len(toClient))
  BY DEF Discards
<1>1. /\ kind = "other"
      /\ UNCHANGED <<kind, stage, sent, shown, readbuf, open, toServer, link, reading,
                     sessionbuf, writebuf, unpacked, replies>>
  BY DEF Discards, clientVars, sessionVars
<1>2. toClient' \in Seq(Byte)
  <2>1. toClient \in Seq(Byte) /\ n \in 0..Len(toClient)
    BY Lengths DEF IInv, Types
  <2> QED
    BY <1>0, <2>1, Cut
<1>3. Types'
  BY <1>1, <1>2 DEF IInv, Types
<1>4. Requests'
  BY <1>1, RequestsStay DEF IInv, Requests, Writing
<1>5. Results'
  BY <1>1 DEF IInv, Results
<1>6. ResultBelongs'
  BY <1>1, <1>3, ResultsStay DEF IInv, Types
<1> QED
  BY <1>3, <1>4, <1>5, <1>6 DEF IInv

(* The end of the session cuts both streams, perhaps within a message.     *)
LEMMA EndKeeps ==
  ASSUME IInv, SessionEnds, NEW n \in 0..Len(toClient), toClient' = SubSeq(toClient, 1, n)
  PROVE  IInv'
<1>1. /\ link = "up" /\ link' = "down" /\ reading' = "none" /\ toServer' = <<>>
      /\ writebuf' = <<>>
      /\ UNCHANGED <<kind, stage, sent, shown, readbuf, open, sessionbuf, unpacked, replies>>
  BY DEF SessionEnds, clientVars
<1>2. toClient' \in Seq(Byte) /\ Len(toClient') = n
  BY Cut DEF IInv, Types
<1>3. Types'
  BY <1>1, <1>2, EmptyBytes DEF IInv, Types
<1>4. Requests'
  <2>1. PICK at \in [0..Len(sent) -> Nat] : OnStream(Incoming, sent, Len(unpacked), at)
    BY DEF IInv, Requests
  <2>2. Incoming' = <<>>
    <3>1. Incoming' = <<>> \o <<>>
      BY <1>1 DEF Incoming, Held
    <3> QED
      BY <3>1, EmptyBytes, ConcatEmptySeq
  <2>3. /\ Incoming \in Seq(Byte) /\ Incoming' \in Seq(Byte)
        /\ Len(Incoming') <= Len(Incoming)
        /\ \A i \in 1..Len(Incoming') : Incoming'[i] = Incoming[i]
    BY <2>2, EmptyBytes, Streams DEF IInv
  <2>6. sent \in Seq(Messages) /\ Len(unpacked) \in 0..Len(sent)
    BY Lengths DEF IInv, Types, Requests
  <2>7. OnStream(Incoming', sent, Len(unpacked), at)
    BY <2>1, <2>3, <2>6, StreamEnds
  <2> QED
    BY <1>1, <2>1, <2>7 DEF IInv, Requests
<1>a. Outbound' = toClient'
  <2>1. Outbound' = toClient' \o <<>>
    BY <1>1 DEF Outbound
  <2> QED
    BY <1>2, <2>1, ConcatEmptySeq
<1>b. toClient = <<>> => toClient' = <<>>
  BY SubSeqEmpty, EmptyBytes
<1>5. Results'
  <2>1. Outbound = <<>> => Outbound' = <<>>
    BY <1>a, <1>b, NothingOutbound DEF IInv
  <2>2. Silent => Silent'
    BY <1>1, <2>1 DEF Silent
  <2>3. Arriving => Arriving'
    <3> SUFFICES ASSUME Arriving PROVE Arriving'
      OBVIOUS
    <3>1. /\ readbuf \in Seq(Byte) /\ toClient \in Seq(Byte) /\ writebuf \in Seq(Byte)
          /\ toClient' \in Seq(Byte)
      BY <1>2 DEF IInv, Types
    <3>2. /\ Len(readbuf \o toClient') <= Len(readbuf \o toClient)
          /\ \A i \in 1..Len(readbuf \o toClient') :
               (readbuf \o toClient')[i] = (readbuf \o toClient)[i]
      BY <3>1, CutStream
    <3> DEFINE near == readbuf \o toClient
               cut == readbuf \o toClient'
    <3>a. near \in Seq(Byte) /\ cut \in Seq(Byte)
      BY <3>1, ConcatProperties
    <3>b. Outgoing = near \o writebuf
      BY <3>1, ConcatAssociative DEF Outgoing, Outbound
    <3>c. Outgoing' = cut
      BY <1>1, <1>a DEF Outgoing
    <3> HIDE DEF near, cut
    <3>d. /\ Len(Outgoing) = Len(near) + Len(writebuf)
          /\ \A i \in 1..Len(near) : Outgoing[i] = near[i]
      BY <3>1, <3>a, <3>b, Joined
    <3>4. /\ Len(Outgoing) \in Nat /\ Len(Outgoing') \in Nat
          /\ Len(near) \in Nat /\ Len(writebuf) \in Nat
      BY <3>1, <3>a, <3>c, <3>d
    <3>3. /\ Len(Outgoing') <= Len(Outgoing)
          /\ \A i \in 1..Len(Outgoing') : Outgoing'[i] = Outgoing[i]
      <4>1. Len(cut) <= Len(near) /\ \A i \in 1..Len(cut) : cut[i] = near[i]
        BY <3>2 DEF near, cut
      <4>2. \A i \in 1..Len(Outgoing') : i \in 1..Len(near) /\ i \in 1..Len(cut)
        BY <3>c, <3>4, <4>1
      <4> QED
        BY <3>c, <3>d, <3>4, <4>1, <4>2
    <3> DEFINE message == pack(replies[Len(replies)])
    <3>5. Len(Outgoing) <= Len(message) /\ \A k \in 1..Len(Outgoing) : Outgoing[k] = message[k]
      BY DEF Arriving
    <3>6. Len(message) \in Nat
      <4>1. replies[Len(replies)] \in Messages
        BY Lengths DEF IInv, Types, Arriving
      <4> QED
        BY <4>1, Packed
    <3> HIDE DEF message
    <3>7. /\ Len(Outgoing') <= Len(message)
          /\ \A k \in 1..Len(Outgoing') : Outgoing'[k] = message[k]
      BY <3>3, <3>4, <3>5, <3>6
    <3> QED
      BY <1>1, <3>7 DEF Arriving, message
  <2> QED
    BY <1>1, <1>b, <2>1, <2>2, <2>3 DEF IInv, Results, Blind
<1>6. ResultBelongs'
  BY <1>1, <1>3, ResultsStay DEF IInv, Types
<1> QED
  BY <1>3, <1>4, <1>5, <1>6 DEF IInv

LEMMA StepEnds == ASSUME IInv, ReadFails \/ WriteFails \/ Break PROVE IInv'
<1>1. CASE Break
  BY <1>1, EndKeeps DEF Break
<1>2. CASE ReadFails \/ WriteFails
  <2>1. SessionEnds /\ toClient' = toClient
    BY <1>2 DEF ReadFails, WriteFails
  <2>2. toClient = SubSeq(toClient, 1, Len(toClient)) /\ Len(toClient) \in 0..Len(toClient)
    BY DEF IInv, Types
  <2> QED
    BY <2>1, <2>2, EndKeeps
<1> QED
  BY <1>1, <1>2

LEMMA StepStutter == ASSUME IInv, UNCHANGED vars PROVE IInv'
<1>1. UNCHANGED <<kind, stage, sent, shown, readbuf, open, toServer, toClient, link, reading,
                  sessionbuf, writebuf, unpacked, replies>>
  BY DEF vars, clientVars, sessionVars
<1>2. Types'
  BY <1>1 DEF IInv, Types
<1>3. Requests'
  BY <1>1, RequestsStay DEF IInv, Requests, Writing
<1>4. Results'
  BY <1>1, ResultsUntouched DEF IInv, Outbound
<1>5. ResultBelongs'
  BY <1>1, <1>2, ResultsStay DEF IInv, Types
<1> QED
  BY <1>2, <1>3, <1>4, <1>5 DEF IInv

-----------------------------------------------------------------------------
(* The invariant: the types, the requests on their way to the session, and  *)
(* what the shell waits for and has shown.                                  *)
THEOREM Invariance == Spec => []IInv
<1>1. Init => IInv
  BY Start
<1>2. IInv /\ [Next]_vars => IInv'
  <2> SUFFICES ASSUME IInv, [Next]_vars
               PROVE  IInv'
    OBVIOUS
  <2>1. CASE Client
    BY <2>1, StepConstruct, StepCompletion, StepLeave, StepWrite, StepWriteThrows,
       StepDiscards DEF Client
  <2>2. CASE Reads
    BY <2>2, StepClientReads, StepHeaderRead, StepBodyRead DEF Reads
  <2>3. CASE Session
    BY <2>3, StepSessionReads, StepParseMessage, StepBody, StepSessionWrites, StepWritten,
       StepEnds DEF Session
  <2>4. CASE Break
    BY <2>4, StepEnds
  <2>5. CASE UNCHANGED vars
    BY <2>5, StepStutter
  <2> QED
    BY <2>1, <2>2, <2>3, <2>4, <2>5 DEF Next
<1> QED
  BY <1>1, <1>2, PTL DEF Spec

(* The type invariant of the connection: the streams and buffers of both   *)
(* ends hold bytes, and the shell misses at most one result.               *)
THEOREM TypeCorrect == Spec => []TypeOK
<1>1. IInv => TypeOK
  BY TypesAreTypes DEF IInv
<1> QED
  BY <1>1, Invariance, PTL

(* The session unpacks what was packed, whole and in order, however the    *)
(* stream is cut: TcpSession::parseMessage and handle_read_body.           *)
THEOREM SessionUnpacksWhatWasSent == Spec => []MessagesKept
<1>1. IInv => MessagesKept
  <2> SUFFICES ASSUME IInv
               PROVE  MessagesKept
    OBVIOUS
  <2> DEFINE n == Len(unpacked)
             head == SubSeq(sent, 1, n)
             copy == SubSeq(unpacked, 1, n)
  <2>1. /\ sent \in Seq(Messages) /\ unpacked \in Seq(Messages)
        /\ n \in 0..Len(sent) /\ n \in 0..Len(unpacked) /\ n <= Len(sent)
        /\ \A i \in 1..n : unpacked[i] = sent[i]
    BY Lengths DEF IInv, Types, Requests
  <2> HIDE DEF n
  <2>2. head \in Seq(Messages) /\ Len(head) = n /\ \A i \in 1..n : head[i] = sent[i]
    BY <2>1, Cut
  <2>3. copy \in Seq(Messages) /\ Len(copy) = n /\ \A i \in 1..n : copy[i] = unpacked[i]
    BY <2>1, Cut
  <2> HIDE DEF head, copy
  <2>4. copy = head
    BY <2>1, <2>2, <2>3, SeqEqual
  <2> QED
    BY <2>1, <2>4 DEF MessagesKept, IsPrefix, n, head, copy
<1> QED
  BY <1>1, Invariance, PTL

(* The shell prints for a statement the reply to it, or nothing but what a *)
(* dead connection leaves of that: TcpClient::connect and its twin.        *)
THEOREM ResultsBelong == Spec => []ResultBelongs
<1>1. IInv => ResultBelongs
  BY DEF IInv
<1> QED
  BY <1>1, Invariance, PTL
=============================================================================
