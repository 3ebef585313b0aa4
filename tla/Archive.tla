------------------------------- MODULE Archive -------------------------------
(***************************************************************************)
(* cereal's binary archives, as far as the storage engine uses them: an    *)
(* unordered_multimap from a string to a tuple of strings is written to a  *)
(* stream of bytes and read from one.  Nothing in the stream says what it  *)
(* is made of; the reader asks for the sizes that it finds.                *)
(***************************************************************************)
EXTENDS Integers, FiniteSets, Sequences

CONSTANT SizeBytes  \* sizeof(size_type); the program has 8

ASSUME SizeBytesAssumption == SizeBytes \in Nat \ {0}

Bytes == 0..255

(* The numbers that a size_type can hold are those below SizeLimit.        *)
SizeLimit ==
  LET power[i \in 0..SizeBytes] == IF i = 0 THEN 1 ELSE 256 * power[i - 1]
  IN power[SizeBytes]

-----------------------------------------------------------------------------
(* Saving: the bytes that each function adds to the stream.                *)

(* An archive processes its arguments in turn, each by the function that   *)
(* the overloads of processImpl have for its type: here the callers name   *)
(* it.  Prologue and epilogue are empty.                                   *)
Output(parts) ==
  LET upTo[i \in 0..Len(parts)] == IF i = 0 THEN <<>> ELSE upTo[i - 1] \o parts[i]
  IN upTo[Len(parts)]

saveBinary(data) == data

(* A number in the memory of a little-endian machine: each byte has what   *)
(* the bytes before it left.                                               *)
Shifts(n) ==
  LET rest[i \in 0..SizeBytes] == IF i = 0 THEN n ELSE rest[i - 1] \div 256
  IN rest

SaveNumber(n) == saveBinary([i \in 1..SizeBytes |-> Shifts(n)[i - 1] % 256])

SaveSizeTag(size) == Output(<<SaveNumber(size)>>)

SaveString(str) == Output(<<SaveSizeTag(Len(str)), saveBinary(str)>>)

(* serialize<Height>: the elements below, and then the last.               *)
SaveTuple(tuple) ==
  LET apply[height \in 0..Len(tuple)] ==
        IF height = 0 THEN <<>>
        ELSE Output(<<apply[height - 1], SaveString(tuple[height])>>)
  IN apply[Len(tuple)]

SaveMapItem(item) == Output(<<SaveString(item.key), SaveTuple(item.value)>>)

(* Mutant of SaveMap: the size is the number of keys.                      *)
SaveMapByKeys(items) ==
  Output(<<SaveSizeTag(Cardinality({items[n].key : n \in DOMAIN items}))>>
           \o [n \in DOMAIN items |-> SaveMapItem(items[n])])

(* The items in the order of iteration.                                    *)
SaveMap(items) ==
  Output(<<SaveSizeTag(Len(items))>> \o [n \in DOMAIN items |-> SaveMapItem(items[n])])

-----------------------------------------------------------------------------
(* Loading: process hands the one archive from function to function, which *)
(* here return what was read, the rest of the stream, and whether an       *)
(* exception was thrown, after which nothing is read.                      *)
In(value, rest, thrown) == [value |-> value, rest |-> rest, thrown |-> thrown]

Open(stream) == In(<<>>, stream, FALSE)

(* Mutant of loadBinary: a short read is not looked at.                    *)
loadBinaryUnchecked(in, size) ==
  LET n == IF Len(in.rest) < size THEN Len(in.rest) ELSE size IN
  In([i \in 1..size |-> IF i <= n THEN in.rest[i] ELSE 0],
     SubSeq(in.rest, n + 1, Len(in.rest)), FALSE)

loadBinary(in, size) ==
  IF in.thrown \/ Len(in.rest) < size THEN In(<<>>, <<>>, TRUE)
  ELSE In(SubSeq(in.rest, 1, size), SubSeq(in.rest, size + 1, Len(in.rest)), FALSE)

(* What the bytes spell, the last of them first.                           *)
FromMemory(data) ==
  LET top[k \in 0..Len(data)] ==
        IF k = 0 THEN 0 ELSE 256 * top[k - 1] + data[Len(data) - k + 1]
  IN top[Len(data)]

LoadNumber(in) ==
  LET data == loadBinary(in, SizeBytes) IN
  In(FromMemory(data.value), data.rest, data.thrown)

LoadSizeTag(in) == LoadNumber(in)

LoadString(in) ==
  LET size == LoadSizeTag(in) IN loadBinary(size, size.value)

LoadTuple(in, height) ==
  LET apply[h \in 0..height] ==
        IF h = 0 THEN In(<<>>, in.rest, in.thrown)
        ELSE LET below == apply[h - 1]
                 last == LoadString(below)
             IN In(Append(below.value, last.value), last.rest, last.thrown)
  IN apply[height]

LoadMapItem(in) ==
  LET key == LoadString(in)
      value == LoadTuple(key, 3)
  IN In([key |-> key.value, value |-> value.value], value.rest, value.thrown)

Emplace(map) ==
  LET item == LoadMapItem(map) IN
  In(Append(map.value, item.value), item.rest, item.thrown)

(* The map is cleared, and an item put into it for each of the size.       *)
LoadMap(in) ==
  LET size == LoadSizeTag(in)
      upTo[n \in 0..size.value] ==
        IF n = 0 THEN In(<<>>, size.rest, size.thrown) ELSE Emplace(upTo[n - 1])
  IN upTo[size.value]
=============================================================================
