------------------------------ MODULE Snapshot ------------------------------
(***************************************************************************)
(* What a SAVE writes of the store, and what a start makes of it: the      *)
(* multimaps of QueryPlanner.tla through the archive of Archive.tla and    *)
(* through snappy, which compresses what a file holds.                     *)
(***************************************************************************)
EXTENDS QueryPlanner, Archive

CONSTANTS
  Text,         \* Text[t]: the characters of a term
  Unwritten(_)  \* Unwritten(n): what n bytes may hold that nobody wrote

ASSUME TextAssumption ==
  /\ DOMAIN Text = Terms
  /\ \A t \in Terms : Text[t] \in Seq(Bytes) /\ Len(Text[t]) < SizeLimit
  /\ \A t, u \in Terms : Text[t] = Text[u] => t = u

ASSUME UnwrittenAssumption == Unwritten(0) = {<<>>}

(* A store is never larger than its sizes can say, nor a string.           *)
MaxRecords == MaxCopies * Cardinality(Universe)

ASSUME MaxRecordsAssumption == IsFiniteSet(Universe) /\ MaxRecords < SizeLimit

(* A triple in multimap i, as the archive sees it.                         *)
Item(t, i) == [key |-> Text[t[i]], value |-> [p \in Positions |-> Text[t[p]]]]

Items(order, i) == [n \in DOMAIN order |-> Item(order[n], i)]

(* The orders in which multimap i with the rows b may be iterated: any in  *)
(* which the rows of one key stand together.                               *)
Orders(b, i) ==
  {order \in UNION {[1..n -> Universe] : n \in 0..MaxRecords} :
     /\ \A t \in Universe : Cardinality({n \in DOMAIN order : order[n] = t}) = b[t]
     /\ \A x, z \in DOMAIN order : order[x][i] = order[z][i] =>
          \A y \in x..z : order[y][i] = order[x][i]}

-----------------------------------------------------------------------------
(* Compression, by snappy: in front of the data stands its length.         *)
Unreadable == -1

Compress(data) == [length |-> Len(data), data |-> data]

(* What may be left of a file: its beginning, perhaps not even the length. *)
Cuts(file) ==
  {[length |-> Unreadable, data |-> <<>>]} \cup
  {[file EXCEPT !.data = SubSeq(@, 1, n)] : n \in 0..(Len(file.data) - 1)}

(* The strings that Uncompress may leave behind.  It makes room for the    *)
(* length that it finds and fills it as far as the data go; it then tells  *)
(* of the failure, but the rest of the string stays.                       *)
Uncompress(file) ==
  IF file.length = Unreadable THEN {<<>>}
  ELSE LET missing == file.length - Len(file.data) IN
       {file.data \o rest :
          rest \in {r \in Unwritten(missing) : r \in Seq(Bytes) /\ Len(r) = missing}}

-----------------------------------------------------------------------------
(* The file that a thread of a SAVE writes, and what a thread of a start   *)
(* may make of a file: nobody looks at whether it was uncompressed.        *)
saveDataToFile(order, i) == Compress(SaveMap(Items(order, i)))

loadDataFromFile(file) == {LoadMap(Open(data)) : data \in Uncompress(file)}

-----------------------------------------------------------------------------
(* After any statements a SAVE writes, in whatever order the hash tables   *)
(* are iterated, what a start reads back into the same multimaps: as many  *)
(* copies of every triple, each under its key, and nothing is left over.   *)
SavedIsLoaded ==
  request[1] = "save" =>
    \A i \in Positions : \A order \in Orders(m[i], i) :
      loadDataFromFile(saveDataToFile(order, i)) = {In(Items(order, i), <<>>, FALSE)}

(* How much of the data the size and the first k items take.               *)
UpTo(items, k) == Len(SaveMap(SubSeq(items, 1, k)))

(* What a start can make of a file that was cut short, at whatever byte: a *)
(* file without a length is refused, by the exception of the archive.  Any *)
(* other may be taken for a database, but then it has the rows that were   *)
(* saved in front of the cut, in their places, and as many rows in all as  *)
(* were saved: rows are replaced behind the cut and none is missing.       *)
CutKeepsBeginning ==
  request[1] = "save" =>
    \A i \in Positions : \A order \in Orders(m[i], i) :
      LET items == Items(order, i) IN
      \A file \in Cuts(saveDataToFile(order, i)) :
        \A map \in loadDataFromFile(file) :
          ~map.thrown =>
            /\ file.length # Unreadable
            /\ \A k \in 0..Len(items) :
                 UpTo(items, k) <= Len(file.data) =>
                   /\ Len(map.value) = Len(items)
                   /\ SubSeq(map.value, 1, k) = SubSeq(items, 1, k)
=============================================================================
