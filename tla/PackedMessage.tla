---------------------------- MODULE PackedMessage ----------------------------
(***************************************************************************)
(* The framing of messages on a stream socket: a header of four bytes that *)
(* names the size of the body, most significant byte first.                *)
(***************************************************************************)
EXTENDS Integers, SequencesExt

CONSTANTS
  Base,     \* the values of a byte: 256 in the code
  Messages  \* what serialises and parses, as sequences of bytes

Byte == 0..(Base - 1)

HEADER_SIZE == 4

Sizes == 0..(Base * Base * Base * Base - 1)

ASSUME BaseAssumption == Base \in Nat /\ Base > 1
ASSUME MessagesAssumption ==
  \A body \in Messages : body \in Seq(Byte) /\ Len(body) \in Sizes

(* Mutant of encode_header: the bytes are not masked.                      *)
encode_header_unmasked(size) ==
  LET upper3 == size \div Base
      upper2 == upper3 \div Base
      upper1 == upper2 \div Base
  IN <<upper1, upper2, upper3, size>>

(* The shifts by 8 and the masks of the code are \div and %.               *)
encode_header(size) ==
  LET upper3 == size \div Base
      upper2 == upper3 \div Base
      upper1 == upper2 \div Base
  IN <<upper1 % Base, upper2 % Base, upper3 % Base, size % Base>>

(* Mutant of decode_header: the bytes in the order of the machine.         *)
decode_header_little(buf) ==
  ((buf[4] * Base + buf[3]) * Base + buf[2]) * Base + buf[1]

decode_header(buf) ==
  ((buf[1] * Base + buf[2]) * Base + buf[3]) * Base + buf[4]

pack(body) == encode_header(Len(body)) \o body

unpack(buf) == SubSeq(buf, HEADER_SIZE + 1, Len(buf))

(* What is in m_readbuf once it was resized and filled in part: vector's   *)
(* resize appends zeros.                                                   *)
Padded(buf, size) == buf \o [i \in 1..(size - Len(buf)) |-> 0]
=============================================================================
