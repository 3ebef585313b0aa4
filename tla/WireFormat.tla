------------------------------ MODULE WireFormat ------------------------------
(***************************************************************************)
(* What the generated messages use of protobuf's wire format: a message is *)
(* a sequence of fields, and a field a tag, which has its number and its   *)
(* wire type, and a body.  Every tag and every length is one element of    *)
(* the sequence, as it is one byte for a number below 16 and a body below  *)
(* 128 bytes, and there are no groups.                                     *)
(***************************************************************************)
EXTENDS Integers, SequencesExt

VARINT == 0
FIXED64 == 1
LENGTH_DELIMITED == 2
END_GROUP == 4
FIXED32 == 5

Tag(number, wire) == 8 * number + wire

WriteString(number, text) == <<Tag(number, LENGTH_DELIMITED), Len(text)>> \o text

StringSize(text) == 1 + Len(text)

(* The fields that the generated code has no case for, as they came.       *)
SerializeUnknownFields(fields) == FlattenSeq([i \in DOMAIN fields |-> fields[i].bytes])

(* The position behind the field at i, which may lie behind the end.       *)
Behind(bytes, i) ==
  CASE bytes[i] % 8 = VARINT -> i + 2
    [] bytes[i] % 8 = FIXED32 -> i + 5
    [] bytes[i] % 8 = FIXED64 -> i + 9
    [] bytes[i] % 8 = LENGTH_DELIMITED ->
         IF i = Len(bytes) THEN i + 2 ELSE i + 2 + bytes[i + 1]
    [] OTHER -> Len(bytes) + 2

FieldAt(bytes, i) ==
  [number |-> bytes[i] \div 8,
   wire   |-> bytes[i] % 8,
   body   |-> SubSeq(bytes, i + 2, Behind(bytes, i) - 1),
   bytes  |-> SubSeq(bytes, i, Behind(bytes, i) - 1)]

(* One turn of the loop of a message: the next field, unless there is an   *)
(* end before the end (then entire is FALSE), or the field fails.          *)
ReadField(bytes, read) ==
  IF ~read.entire \/ read.at > Len(bytes) THEN read
  ELSE IF bytes[read.at] = 0 \/ bytes[read.at] % 8 = END_GROUP
    THEN [read EXCEPT !.entire = FALSE]
  ELSE IF Behind(bytes, read.at) > Len(bytes) + 1
    THEN [read EXCEPT !.entire = FALSE, !.ok = FALSE]
  ELSE [read EXCEPT !.fields = Append(@, FieldAt(bytes, read.at)),
                    !.at = Behind(bytes, @)]

(* Every field takes a byte at least, so that these turns are enough.      *)
ReadFields(bytes) ==
  LET after[n \in 0..Len(bytes)] ==
        IF n = 0 THEN [fields |-> <<>>, at |-> 1, ok |-> TRUE, entire |-> TRUE]
        ELSE ReadField(bytes, after[n - 1])
  IN after[Len(bytes)]

(* The sum of the sizes of the parts of a message.                         *)
Total(sizes) ==
  LET upTo[n \in 0..Len(sizes)] == IF n = 0 THEN 0 ELSE upTo[n - 1] + sizes[n]
  IN upTo[Len(sizes)]
=============================================================================
