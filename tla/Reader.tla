-------------------------------- MODULE Reader --------------------------------
(***************************************************************************)
(* What the configuration reader makes of texts: lines, values, vectors,   *)
(* numbers and the wildcards of valid keys.  A text is a sequence of       *)
(* characters, where the words that no operation looks into may stand for  *)
(* one; an operation that throws has no value, others have one, in a set.  *)
(* The program itself asks for string values only.                         *)
(***************************************************************************)
EXTENDS Integers, SequencesExt

CONSTANT toLower   \* toLower[s]: the character or word s in lower case

WHITE_SPACE == {" ", "\t"}
DIGIT_CHARS == {"1", "2", "3", "4", "5", "6", "7", "8", "9", "0", "-", "."}

find(text, chars) == {i \in DOMAIN text : text[i] \in chars}

lower(text) == [i \in DOMAIN text |-> toLower[text[i]]]

cleanLineEnds(text) ==
  LET ink == DOMAIN text \ find(text, WHITE_SPACE) IN
  IF ink = {} THEN <<>> ELSE SubSeq(text, Min(ink), Max(ink))

removeComments(text) ==
  LET at == find(text, {"#"}) IN
  IF at = {} THEN text ELSE SubSeq(text, 1, Min(at) - 1)

(* The parts beside the only split character, if there is text in both.    *)
splitByChar(text, split) ==
  LET at == find(text, {split})
      halves == {[key |-> cleanLineEnds(SubSeq(text, 1, i - 1)),
                  value |-> cleanLineEnds(SubSeq(text, i + 1, Len(text)))] : i \in at}
  IN {h \in halves : Cardinality(at) = 1 /\ h.key # <<>> /\ h.value # <<>>}

Visible(raw) == cleanLineEnds(removeComments(raw))

IsBlank(raw) == Visible(raw) = <<>>

(* The key and the value that a line defines; none for a line that is bad. *)
Definitions(raw) ==
  {[key |-> lower(h.key), value |-> lower(h.value)] : h \in splitByChar(Visible(raw), "=")}

-----------------------------------------------------------------------------
(* A string value has no space in it, and may be empty.                    *)
parseValue(text) ==
  {value \in {cleanLineEnds(text)} : find(value, WHITE_SPACE) = {}}

Items(text) ==
  LET commas == SetToSortSeq(find(text, {","}), <)
      starts == <<0>> \o commas
      ends == commas \o <<Len(text) + 1>>
  IN [n \in DOMAIN ends |-> SubSeq(text, starts[n] + 1, ends[n] - 1)]

(* Every item has a character, but that may be a space.                    *)
parseVector(text) ==
  LET items == Items(SubSeq(text, 2, Len(text) - 1)) IN
  IF /\ find(text, {"["}) = {1} /\ find(text, {"]"}) = {Len(text)}
     /\ \A n \in DOMAIN items : items[n] # <<>> /\ parseValue(items[n]) # {}
    THEN {[n \in DOMAIN items |-> cleanLineEnds(items[n])]}
    ELSE {}

(* At most one dot, and one minus, in front; digits need not be there.     *)
IsPlainNumber(text) ==
  /\ find(text, DIGIT_CHARS) = DOMAIN text
  /\ Cardinality(find(text, {"."})) <= 1
  /\ find(text, {"-"}) \subseteq {1}

(* Parts beside an e have no e themselves.                                 *)
isValidNumber(text) ==
  IF splitByChar(text, "e") = {} THEN IsPlainNumber(text)
  ELSE \A h \in splitByChar(text, "e") : IsPlainNumber(h.key) /\ IsPlainNumber(h.value)

(* The texts that are then converted by streams.                           *)
parseNumber(text) == {value \in parseValue(text) : isValidNumber(text)}

parseNumbers(text) ==
  {items \in parseVector(text) : \A n \in DOMAIN items : isValidNumber(items[n])}

-----------------------------------------------------------------------------
asRegex(key) ==
  FlattenSeq([i \in DOMAIN key |-> IF key[i] = "*" THEN <<".", "*">> ELSE <<key[i]>>])

(* std::regex_match, for the dots, stars and letters of a valid key.       *)
regex_match(rx, key) ==
  LET fits(i, j) == rx[i] \in {".", key[j]}
      match[i \in 0..Len(rx), j \in 0..Len(key)] ==
        IF i = 0 THEN j = 0
        ELSE IF rx[i] = "*"
          THEN match[i - 2, j] \/ (j > 0 /\ fits(i - 1, j) /\ match[i, j - 1])
          ELSE j > 0 /\ fits(i, j) /\ match[i - 1, j - 1]
  IN match[Len(rx), Len(key)]

(* The keys in front of the equals signs of a file of valid keys.          *)
readValidKeys(lines) ==
  LET full == SelectSeq(lines, LAMBDA raw : ~IsBlank(raw)) IN
  IF \E i \in DOMAIN full : Definitions(full[i]) = {} THEN {}
  ELSE {[i \in DOMAIN full |-> asRegex((CHOOSE d \in Definitions(full[i]) : TRUE).key)]}

isValidKey(key, validKeys) == \E i \in DOMAIN validKeys : regex_match(validKeys[i], key)

-----------------------------------------------------------------------------
Bare(text) == SelectSeq(text, LAMBDA char : char \notin WHITE_SPACE)

IsTrim(text) == text # <<>> /\ {text[1], text[Len(text)]} \cap WHITE_SPACE = {}

(* A line defines a key and a value just when it spells the two around the *)
(* only equals sign, with space and a comment as one likes.                *)
ASSUME LinesAreRead ==
  \A raw \in BoundedSeq({" ", "#", "=", "k"}, 6) :
    LET shown == Bare(removeComments(raw)) IN
    /\ IsBlank(raw) <=> shown = <<>>
    /\ \A h \in splitByChar(Visible(raw), "=") :
         /\ IsTrim(h.key) /\ IsTrim(h.value)
         /\ Bare(h.key) \o <<"=">> \o Bare(h.value) = shown
    /\ splitByChar(Visible(raw), "=") = {} <=>
         shown = <<>> \/ "=" \in {shown[1], shown[Len(shown)]}
           \/ Cardinality(find(shown, {"="})) # 1

(* What reads as a vector is written as one, and the other way round.      *)
ASSUME VectorsAreRead ==
  LET Written(items) ==
        <<"[">> \o FlattenSeq([n \in DOMAIN items |->
                     IF n = 1 THEN items[n] ELSE <<",">> \o items[n]]) \o <<"]">>
  IN /\ \A text \in BoundedSeq({" ", "[", "]", ",", "v"}, 5) :
          \A items \in parseVector(text) :
            /\ Bare(text) = Written(items)
            /\ \A i \in 1..(Len(text) - 1) : ~(text[i] \in {"[", ","} /\ text[i + 1] \in {",", "]"})
     /\ \A items \in BoundedSeq({<<"v">>, <<" ", "v">>, <<" ">>, <<"v", "v", " ">>}, 3) :
          items # <<>> =>
            parseVector(Written(items)) = {[n \in DOMAIN items |-> Bare(items[n])]}

(* A number is accepted just when it is a minus or none, digits, a dot or  *)
(* none, and digits, once or, beside an e, twice.                          *)
ASSUME NumbersAreRead ==
  LET Plain(n) ==
        {text \in {s \o a \o d \o b : s \in {<<>>, <<"-">>}, d \in {<<>>, <<".">>},
                                      a, b \in BoundedSeq({"1"}, n)} : Len(text) <= n}
      Valid == Plain(5) \cup {a \o <<"e">> \o b : a, b \in Plain(3) \ {<<>>}}
  IN \A text \in BoundedSeq({"1", "-", ".", "e", "x"}, 5) :
       isValidNumber(text) <=> text \in Valid

(* A star in a valid key stands for any text.                              *)
ASSUME WildcardsMatch ==
  LET Filled(key, fill) ==
        FlattenSeq([i \in DOMAIN key |-> IF key[i] = "*" THEN fill[i] ELSE <<key[i]>>])
  IN \A key \in BoundedSeq({"a", "b", "*"}, 3), name \in BoundedSeq({"a", "b"}, 3) :
       isValidKey(name, <<asRegex(key)>>) <=>
         \E fill \in [find(key, {"*"}) -> BoundedSeq({"a", "b"}, 3)] :
           Filled(key, fill) = name
=============================================================================
