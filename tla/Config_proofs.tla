---------------------------- MODULE Config_proofs ----------------------------
(***************************************************************************)
(* What a configuration file does to the settings, for files of any lines. *)
(* The first part is about the texts of lines, the second about what the   *)
(* reader has of the lines that it has read.                               *)
(***************************************************************************)
EXTENDS Config, Recursion, FiniteSetTheorems

LEMMA MinMax ==
  ASSUME NEW n \in Nat, NEW S \in SUBSET (1..n), S # {}
  PROVE  /\ Min(S) \in S /\ Max(S) \in S
         /\ \A x \in S : Min(S) <= x /\ x <= Max(S)
<1>1. \E x \in S : \A y \in S : x <= y
  BY Smallest
<1>2. \E x \in S : \A y \in S : x >= y
  <2>1. S \in SUBSET (0..n)
    OBVIOUS
  <2> QED
    BY <2>1, Largest
<1>3. Min(S) \in S /\ \A y \in S : Min(S) <= y
  BY <1>1 DEF Min
<1>4. Max(S) \in S /\ \A y \in S : Max(S) >= y
  BY <1>2 DEF Max
<1> QED
  BY <1>3, <1>4

-----------------------------------------------------------------------------
(* Texts.                                                                  *)
Chars == UNION {ToSet(raw) : raw \in Lines}

Ink(text) == DOMAIN text \ find(text, WHITE_SPACE)

(* Neither the first nor the last character is white.                      *)
Trimmed(text) ==
  /\ text \in Seq(ToSet(text)) /\ text # <<>>
  /\ text[1] \notin WHITE_SPACE /\ text[Len(text)] \notin WHITE_SPACE

LEMMA PartOfText ==
  ASSUME NEW S, NEW text \in Seq(S), NEW m \in 1..(Len(text) + 1), NEW n \in 0..Len(text)
  PROVE  /\ SubSeq(text, m, n) \in Seq(S)
         /\ Len(SubSeq(text, m, n)) = IF m <= n THEN n - m + 1 ELSE 0
         /\ \A i \in 1..Len(SubSeq(text, m, n)) :
              SubSeq(text, m, n)[i] = text[m + i - 1] /\ m + i - 1 \in m..n
BY SubSeqProperties

(* Cleaning leaves a part of the text, and nothing or a trimmed text.      *)
LEMMA CleanedText ==
  ASSUME NEW S, NEW text \in Seq(S)
  PROVE  LET clean == cleanLineEnds(text) IN
         /\ clean \in Seq(S)
         /\ \A j \in 1..Len(clean) : \E i \in 1..Len(text) : clean[j] = text[i]
         /\ clean = <<>> \/ Trimmed(clean)
<1> DEFINE clean == cleanLineEnds(text)
           first == Min(Ink(text))
           last == Max(Ink(text))
<1>0. DOMAIN text = 1..Len(text) /\ Len(text) \in Nat
  OBVIOUS
<1>1. CASE Ink(text) = {}
  <2>1. clean = <<>>
    BY <1>1 DEF cleanLineEnds, Ink
  <2> QED
    BY <2>1
<1>2. CASE Ink(text) # {}
  <2>1. Ink(text) \in SUBSET (1..Len(text))
    BY <1>0 DEF Ink
  <2>2. first \in Ink(text) /\ last \in Ink(text) /\ first <= last
    BY <1>0, <1>2, <2>1, MinMax
  <2>3. first \in 1..Len(text) /\ last \in 1..Len(text)
    BY <2>1, <2>2
  <2>4. text[first] \notin WHITE_SPACE /\ text[last] \notin WHITE_SPACE
    BY <2>2 DEF Ink, find
  <2>5. clean = SubSeq(text, first, last)
    BY <1>2 DEF cleanLineEnds, Ink
  <2> HIDE DEF first, last, clean
  <2>6. /\ clean \in Seq(S) /\ Len(clean) = last - first + 1
        /\ \A i \in 1..Len(clean) : clean[i] = text[first + i - 1] /\ first + i - 1 \in first..last
    BY <1>0, <2>2, <2>3, <2>5, PartOfText
  <2>7. clean[1] = text[first] /\ clean[Len(clean)] = text[last] /\ Len(clean) \in Nat \ {0}
    BY <2>2, <2>3, <2>6
  <2>8. \A j \in 1..Len(clean) : \E i \in 1..Len(text) : clean[j] = text[i]
    BY <2>3, <2>6
  <2>9. Trimmed(clean)
    BY <2>4, <2>6, <2>7, SeqOfRange DEF Trimmed, ToSet
  <2> QED
    BY <2>6, <2>8, <2>9 DEF clean
<1> QED
  BY <1>1, <1>2

(* There is nothing to clean in a trimmed text.                            *)
LEMMA TrimmedIsClean ==
  ASSUME NEW text, Trimmed(text)
  PROVE  cleanLineEnds(text) = text
<1>0. text \in Seq(ToSet(text)) /\ DOMAIN text = 1..Len(text) /\ Len(text) \in Nat \ {0}
  BY DEF Trimmed
<1>1. 1 \in Ink(text) /\ Len(text) \in Ink(text) /\ Ink(text) \in SUBSET (1..Len(text))
  BY <1>0 DEF Trimmed, Ink, find
<1>2. Min(Ink(text)) = 1 /\ Max(Ink(text)) = Len(text)
  <2>1. /\ Min(Ink(text)) \in 1..Len(text) /\ Max(Ink(text)) \in 1..Len(text)
        /\ Min(Ink(text)) <= 1 /\ Len(text) <= Max(Ink(text))
    BY <1>0, <1>1, MinMax
  <2> QED
    BY <1>0, <2>1
<1>3. cleanLineEnds(text) = SubSeq(text, 1, Len(text))
  BY <1>1, <1>2 DEF cleanLineEnds, Ink
<1> QED
  BY <1>0, <1>3, SubSeqFull

(* Lower case keeps a trimmed text trimmed.                                *)
LEMMA LowerKeepsTrimmed ==
  ASSUME NEW text, Trimmed(text), \A i \in 1..Len(text) : text[i] \in DOMAIN toLower
  PROVE  Trimmed(lower(text))
<1>0. DOMAIN text = 1..Len(text) /\ Len(text) \in Nat \ {0}
  BY DEF Trimmed
<1>1. lower(text) = [i \in 1..Len(text) |-> toLower[text[i]]]
  BY <1>0 DEF lower
<1>2. /\ Len(lower(text)) = Len(text) /\ lower(text) # <<>>
      /\ lower(text) \in Seq(ToSet(lower(text)))
  BY <1>0, <1>1, IsASeq DEF ToSet
<1>3. /\ lower(text)[1] \notin WHITE_SPACE
      /\ lower(text)[Len(text)] \notin WHITE_SPACE
  BY <1>0, <1>1, toLowerAssumption DEF Trimmed
<1> QED
  BY <1>2, <1>3 DEF Trimmed

LEMMA VisibleText ==
  ASSUME NEW raw \in Lines
  PROVE  Visible(raw) \in Seq(ToSet(raw))
<1>0. raw \in Seq(ToSet(raw)) /\ DOMAIN raw = 1..Len(raw) /\ Len(raw) \in Nat
  BY LinesAssumption
<1>1. removeComments(raw) \in Seq(ToSet(raw))
  <2>1. CASE find(raw, {"#"}) = {}
    BY <1>0, <2>1 DEF removeComments
  <2>2. CASE find(raw, {"#"}) # {}
    <3>1. find(raw, {"#"}) \in SUBSET (1..Len(raw))
      BY <1>0 DEF find
    <3>2. Min(find(raw, {"#"})) \in 1..Len(raw)
      BY <1>0, <2>2, <3>1, MinMax
    <3> DEFINE n == Min(find(raw, {"#"})) - 1
    <3>3. n \in 0..Len(raw)
      BY <1>0, <3>2
    <3>4. removeComments(raw) = SubSeq(raw, 1, n)
      BY <2>2 DEF removeComments
    <3> HIDE DEF n
    <3> QED
      BY <1>0, <3>3, <3>4, PartOfText
  <2> QED
    BY <2>1, <2>2
<1> QED
  BY <1>1, CleanedText DEF Visible

(* A line defines at most one key, with a value that is a trimmed text.    *)
LEMMA LineDefinesOne ==
  ASSUME NEW raw \in Lines, NEW d \in DefinitionsOf[raw]
  PROVE  /\ d = [key |-> d.key, value |-> d.value]
         /\ \A e \in DefinitionsOf[raw] : e = d
         /\ cleanLineEnds(d.value) = d.value
         /\ Visible(raw) # <<>>
<1> DEFINE text == Visible(raw)
           at == find(text, {"="})
           Half(i) == [key |-> cleanLineEnds(SubSeq(text, 1, i - 1)),
                       value |-> cleanLineEnds(SubSeq(text, i + 1, Len(text)))]
           Lowered(h) == [key |-> lower(h.key), value |-> lower(h.value)]
<1>0. text \in Seq(ToSet(raw)) /\ DOMAIN text = 1..Len(text) /\ Len(text) \in Nat
  BY VisibleText
<1>1. DefinitionsOf[raw] = Definitions(raw)
  BY DEF DefinitionsOf
<1>2. \A e \in Definitions(raw) :
        \E i \in at : /\ Cardinality(at) = 1 /\ Half(i).value # <<>>
                      /\ e = Lowered(Half(i))
  BY DEF Definitions, splitByChar
<1>3. PICK i \in at : /\ Cardinality(at) = 1 /\ Half(i).value # <<>>
                      /\ d = Lowered(Half(i))
  BY <1>1, <1>2
<1>4. at = {i}
  <2>1. at \in SUBSET (1..Len(text))
    BY <1>0 DEF find
  <2>2. IsFiniteSet(1..Len(text))
    BY <1>0, FS_Interval
  <2>3. IsFiniteSet(at)
    BY <2>1, <2>2, FS_Subset
  <2> HIDE DEF at
  <2> QED
    BY <1>3, <2>3, FS_Singleton
<1>5. \A e \in DefinitionsOf[raw] : e = d
  BY <1>1, <1>2, <1>3, <1>4
<1>6. cleanLineEnds(d.value) = d.value
  <2> DEFINE part == SubSeq(text, i + 1, Len(text))
             v == cleanLineEnds(part)
  <2>1. i \in 1..Len(text)
    BY <1>0, <1>3 DEF find
  <2>2. /\ part \in Seq(ToSet(raw))
        /\ \A j \in 1..Len(part) : \E k \in (i + 1)..Len(text) : part[j] = text[k]
    BY <1>0, <2>1, PartOfText
  <2>3. v # <<>> /\ d.value = lower(v)
    BY <1>3
  <2> HIDE DEF part
  <2>4. Trimmed(v) /\ \A j \in 1..Len(v) : \E k \in 1..Len(part) : v[j] = part[k]
    BY <2>2, <2>3, CleanedText
  <2>5. ASSUME NEW j \in 1..Len(v) PROVE v[j] \in DOMAIN toLower
    <3>1. PICK k \in (i + 1)..Len(text) : v[j] = text[k]
      BY <2>2, <2>4
    <3>2. k \in 1..Len(text) /\ k # i
      BY <1>0, <2>1
    <3>3. text[k] # "="
      BY <1>0, <1>4, <3>2 DEF find
    <3>4. text[k] \in ToSet(text)
      BY <1>0, <3>2 DEF ToSet
    <3> QED
      BY <3>1, <3>3, <3>4, LinesAssumption
  <2> HIDE DEF v
  <2>6. Trimmed(lower(v))
    BY <2>4, <2>5, LowerKeepsTrimmed
  <2> QED
    BY <2>3, <2>6, TrimmedIsClean
<1>7. text # <<>>
  BY <1>0, <1>3 DEF find
<1> QED
  BY <1>3, <1>5, <1>6, <1>7

(* So a value that is parsed is the one that the line defines.             *)
LEMMA ParsedIsDefined ==
  ASSUME NEW raw \in Lines, NEW d \in DefinitionsOf[raw]
  PROVE  parseValue(d.value) = {} \/ parseValue(d.value) = {d.value}
BY LineDefinesOne DEF parseValue

LEMMA BlankDefinesNothing ==
  ASSUME NEW raw \in BlankLines
  PROVE  raw \in Lines => DefinitionsOf[raw] = {}
BY LineDefinesOne DEF BlankLines, IsBlank

-----------------------------------------------------------------------------
(* What the reader has of the first n lines: no error, and their pairs.    *)
Taken(n) ==
  /\ \A i \in 1..n : ~Faulty(i) /\ \A j \in 1..(i - 1) : ~SameKey(i, j)
  /\ \A i \in 1..n : \A d \in DefinitionsOf[file[i]] :
       d.key \in DOMAIN keyValues /\ keyValues[d.key] = [line |-> i, val |-> d.value]
  /\ \A key \in DOMAIN keyValues :
       /\ keyValues[key].line \in 1..n
       /\ [key |-> key, value |-> keyValues[key].val] \in DefinitionsOf[file[keyValues[key].line]]

AllSettings == [Keys -> Values]

Started ==
  /\ stage \in {"options", "open"} =>
       file = <<>> /\ read = 0 /\ lineNumber = 0 /\ keyValues = NoValues
  /\ stage = "options" => settings = NoValues /\ name = ""
  /\ stage \in {"open", "read", "apply"} => settings = Defaults /\ name \in Paths
  /\ stage = "error" => settings \in AllSettings /\ name \in Paths

Reading ==
  stage \in {"read", "apply"} =>
    /\ file = Unreadable \/ file \in Files(MaxLines)
    /\ file = Unreadable =>
         read = 0 /\ lineNumber = 1 /\ keyValues = NoValues /\ stage = "read"
    /\ file # Unreadable =>
         read \in 0..Len(file) /\ lineNumber = read + 1 /\ Taken(read)
    /\ stage = "apply" => read = Len(file)

IInv ==
  /\ stage \in {"options", "open", "read", "apply", "error", "create", "run"}
  /\ Started /\ Reading
  /\ TypeOK /\ ErrorNamesItsLine /\ WholeFileOrDefaults

LEMMA LinesOfFile ==
  ASSUME NEW f \in Files(MaxLines)
  PROVE  /\ f \in Seq(Lines) /\ Len(f) \in 0..MaxLines /\ DOMAIN f = 1..Len(f)
         /\ ToSet(f) \subseteq Lines /\ \A i \in 1..Len(f) : f[i] \in Lines
         /\ f # Unreadable /\ f # Missing
<1>1. PICK m \in 0..MaxLines : f \in [1..m -> Lines]
  BY DEF Files, BoundedSeq, SeqOf
<1>2. f \in Seq(Lines) /\ Len(f) = m /\ m \in Nat
  BY <1>1, MaxLinesAssumption
<1>3. f # Unreadable /\ f # Missing
  BY FilesAssumption
<1> QED
  BY <1>1, <1>2, <1>3, MaxLinesAssumption DEF ToSet

LEMMA DefaultsAreSettings ==
  Defaults \in AllSettings
BY DefaultsAssumption DEF AllSettings, Values

(* What a file that was read to its end says is what the reader has.       *)
LEMMA SaysWhatIsTaken ==
  ASSUME file \in Files(MaxLines), Taken(Len(file)), NEW k \in Keys
  PROVE  /\ containsKey(<<k>>) => Says(k) = {keyValues[<<k>>].val}
         /\ ~containsKey(<<k>>) => Says(k) = {}
<1>0. DOMAIN file = 1..Len(file)
  BY LinesOfFile
<1>1. ASSUME NEW v \in Says(k)
      PROVE  containsKey(<<k>>) /\ v = keyValues[<<k>>].val
  <2>0. \E i \in DOMAIN file : v \in {d.value : d \in {e \in DefinitionsOf[file[i]] : e.key = <<k>>}}
    BY <1>1 DEF Says
  <2>1. PICK i \in DOMAIN file : \E d \in DefinitionsOf[file[i]] : d.key = <<k>> /\ v = d.value
    BY <2>0
  <2>2. PICK d \in DefinitionsOf[file[i]] : d.key = <<k>> /\ v = d.value
    BY <2>1
  <2>3. i \in 1..Len(file)
    BY <1>0
  <2>4. d.key \in DOMAIN keyValues /\ keyValues[d.key] = [line |-> i, val |-> d.value]
    BY <2>3 DEF Taken
  <2> QED
    BY <2>2, <2>4 DEF containsKey
<1>2. ASSUME containsKey(<<k>>) PROVE keyValues[<<k>>].val \in Says(k)
  <2> DEFINE d == [key |-> <<k>>, value |-> keyValues[<<k>>].val]
             i == keyValues[<<k>>].line
  <2>1. i \in DOMAIN file /\ d \in DefinitionsOf[file[i]]
    BY <1>0, <1>2 DEF Taken, containsKey
  <2>2. d.key = <<k>> /\ d.value = keyValues[<<k>>].val
    OBVIOUS
  <2> HIDE DEF d, i
  <2> QED
    BY <2>1, <2>2 DEF Says
<1> QED
  BY <1>1, <1>2

-----------------------------------------------------------------------------
LEMMA InitKeeps ==
  ASSUME Init
  PROVE  IInv
<1>1. TypeOK
  <2>1. Len(file) = 0 /\ ToSet(file) \subseteq Lines
    <3>0. file = <<>>
      BY DEF Init
    <3>1. file \in Seq(Lines) /\ Len(file) = 0
      BY <3>0, EmptySeq
    <3>2. DOMAIN file = 1..0
      BY <3>1
    <3>3. \A i \in DOMAIN file : FALSE
      BY <3>2
    <3> QED
      BY <3>1, <3>3 DEF ToSet
  <2>2. DOMAIN keyValues = {}
    BY DEF Init, NoValues
  <2>3. file \in {Missing, Unreadable} \/ (ToSet(file) \subseteq Lines /\ Len(file) <= MaxLines)
    BY <2>1, MaxLinesAssumption
  <2>4. read \in 0..Len(file) /\ lineNumber \in 0..(MaxLines + 1)
    <3>1. read = 0 /\ lineNumber = 0
      BY DEF Init
    <3> QED
      BY <2>1, <3>1, MaxLinesAssumption
  <2>5. settings = NoValues /\ name \in {"", "default"} \cup Paths
    BY DEF Init
  <2> QED
    BY <2>2, <2>3, <2>4, <2>5 DEF TypeOK
<1> QED
  BY <1>1 DEF Init, IInv, Started, Reading, ErrorNamesItsLine, WholeFileOrDefaults

(* TypeOK has a part about the file and a part about the settings.         *)
LEMMA SameFileSameType ==
  ASSUME TypeOK, UNCHANGED <<file, read, lineNumber, keyValues>>,
         settings' \in AllSettings \/ settings' = settings,
         name' \in {"", "default"} \cup Paths
  PROVE  TypeOK'
BY DEF TypeOK, AllSettings, Values

LEMMA UseDefaultsKeeps ==
  ASSUME IInv, UseDefaults
  PROVE  IInv'
<1>1. TypeOK'
  BY DefaultsAreSettings, SameFileSameType DEF IInv, UseDefaults, loadDefaults, readerVars
<1> QED
  BY <1>1 DEF IInv, UseDefaults, loadDefaults, Started, Reading, ErrorNamesItsLine,
              WholeFileOrDefaults

LEMMA LoadFromFileKeeps ==
  ASSUME IInv, NEW path \in Paths, loadFromFile(path)
  PROVE  IInv'
<1>1. TypeOK'
  BY DefaultsAreSettings, SameFileSameType DEF IInv, loadFromFile, readerVars
<1> QED
  BY <1>1 DEF IInv, loadFromFile, readerVars, Started, Reading, ErrorNamesItsLine,
              WholeFileOrDefaults

LEMMA OpenFileKeeps ==
  ASSUME IInv, OpenFile
  PROVE  IInv'
<1>0. /\ read = 0 /\ settings = Defaults /\ name \in Paths /\ read' = 0
      /\ settings' = settings /\ name' = name /\ lineNumber' = 1 /\ keyValues' = NoValues
      /\ file' \in {Missing, Unreadable} \cup Files(MaxLines)
  BY DEF IInv, Started, OpenFile, configVars
<1>1. TypeOK'
  <2>1. DOMAIN keyValues' = {}
    BY <1>0 DEF NoValues
  <2>2. file' \in {Missing, Unreadable} \/ (ToSet(file') \subseteq Lines /\ Len(file') <= MaxLines)
    BY <1>0, LinesOfFile, MaxLinesAssumption
  <2>3. Len(file') \in Nat
    BY <1>0, LinesOfFile DEF Missing, Unreadable
  <2>4. read' \in 0..Len(file') /\ lineNumber' \in 0..(MaxLines + 1)
    BY <1>0, <2>3, MaxLinesAssumption
  <2>5. settings' \in [Keys -> Values] /\ name' \in {"", "default"} \cup Paths
    BY <1>0, DefaultsAreSettings DEF AllSettings
  <2> QED
    BY <2>1, <2>2, <2>4, <2>5 DEF TypeOK
<1>2. Started'
  BY <1>0, DefaultsAreSettings DEF OpenFile, ThrowError, Started
<1>3. CASE file' = Missing
  <2>1. stage' = "error" /\ error' = ReaderError("open", 0, 0)
    BY <1>3 DEF OpenFile, ThrowError
  <2>2. error'.what = "open"
    BY <2>1 DEF ReaderError
  <2> QED
    BY <1>1, <1>2, <2>1, <2>2 DEF IInv, Reading, ErrorNamesItsLine, WholeFileOrDefaults
<1>4. CASE file' # Missing
  <2>1. stage' = "read"
    BY <1>4 DEF OpenFile
  <2>2. file' # Unreadable => read' \in 0..Len(file') /\ lineNumber' = read' + 1 /\ Taken(read)'
    <3>1. \A i \in 1..0 : FALSE
      OBVIOUS
    <3>2. DOMAIN keyValues' = {}
      BY <1>0 DEF NoValues
    <3>3. Taken(read)'
      BY <1>0, <3>1, <3>2 DEF Taken
    <3>4. file' # Unreadable => Len(file') \in Nat
      BY <1>0, <1>4, LinesOfFile
    <3> QED
      BY <1>0, <3>3, <3>4
  <2>3. Reading'
    BY <1>0, <1>4, <2>1, <2>2 DEF Reading
  <2> QED
    BY <1>1, <1>2, <2>1, <2>3 DEF IInv, ErrorNamesItsLine, WholeFileOrDefaults
<1> QED
  BY <1>3, <1>4

(* A line is taken from the stream.                                        *)
LEMMA LineIsTaken ==
  ASSUME IInv, getline
  PROVE  /\ file \in Files(MaxLines) /\ NextLine \in Lines
         /\ read \in Nat /\ read + 1 \in 1..Len(file) /\ Len(file) <= MaxLines
         /\ lineNumber = read + 1 /\ NextLine = file[lineNumber]
         /\ Taken(read) /\ settings = Defaults /\ name \in Paths
         /\ file' = file /\ read' = read + 1 /\ settings' = settings /\ name' = name
<1>1. /\ stage = "read" /\ read < Len(file) /\ file # Unreadable /\ read' = read + 1
      /\ file' = file /\ settings' = settings /\ name' = name
  BY DEF getline, configVars
<1>2. /\ file \in Files(MaxLines) /\ read \in 0..Len(file) /\ lineNumber = read + 1
      /\ Taken(read) /\ settings = Defaults /\ name \in Paths
  BY <1>1 DEF IInv, Reading, Started
<1>3. Len(file) \in 0..MaxLines /\ \A i \in 1..Len(file) : file[i] \in Lines
  BY <1>2, LinesOfFile
<1>4. read \in Nat /\ read + 1 \in 1..Len(file) /\ Len(file) <= MaxLines
  BY <1>1, <1>2, <1>3, MaxLinesAssumption
<1> QED
  BY <1>1, <1>2, <1>3, <1>4 DEF NextLine

LEMMA TypeWhileReading ==
  ASSUME IInv, getline, lineNumber' \in {lineNumber, lineNumber + 1},
         \A key \in DOMAIN keyValues' :
           /\ keyValues'[key].line \in 1..read'
           /\ \E raw \in Lines : [key |-> key, value |-> keyValues'[key].val] \in DefinitionsOf[raw]
  PROVE  TypeOK'
<1>0. /\ file \in Files(MaxLines) /\ read \in Nat /\ read + 1 \in 1..Len(file)
      /\ Len(file) <= MaxLines /\ lineNumber = read + 1 /\ settings = Defaults
      /\ name \in Paths /\ file' = file /\ read' = read + 1 /\ settings' = settings
      /\ name' = name /\ Len(file) \in Nat /\ ToSet(file) \subseteq Lines
  BY LineIsTaken, LinesOfFile
<1>1. read' \in 0..Len(file') /\ lineNumber' \in 0..(MaxLines + 1)
  BY <1>0, MaxLinesAssumption
<1>2. settings' \in [Keys -> Values]
  BY <1>0, DefaultsAreSettings DEF AllSettings
<1> QED
  BY <1>0, <1>1, <1>2 DEF TypeOK

(* What is known of the lines before stays as it is.                       *)
LEMMA KeysOfLines ==
  ASSUME file \in Files(MaxLines), NEW n \in 0..Len(file), Taken(n)
  PROVE  \A key \in DOMAIN keyValues :
           /\ keyValues[key].line \in 1..n
           /\ \E raw \in Lines : [key |-> key, value |-> keyValues[key].val] \in DefinitionsOf[raw]
<1>1. Len(file) \in Nat /\ \A i \in 1..Len(file) : file[i] \in Lines
  BY LinesOfFile, MaxLinesAssumption
<1> QED
  BY <1>1 DEF Taken

LEMMA TypeIfKept ==
  ASSUME IInv, getline, lineNumber' \in {lineNumber, lineNumber + 1}, keyValues' = keyValues
  PROVE  TypeOK'
<1>1. /\ file \in Files(MaxLines) /\ read \in 0..Len(file) /\ read' = read + 1
      /\ Taken(read) /\ read \in Nat
  BY LineIsTaken
<1>2. \A key \in DOMAIN keyValues :
        /\ keyValues[key].line \in 1..read'
        /\ \E raw \in Lines : [key |-> key, value |-> keyValues[key].val] \in DefinitionsOf[raw]
  BY <1>1, KeysOfLines
<1> QED
  BY <1>2, TypeWhileReading

LEMMA ReadBlankKeeps ==
  ASSUME IInv, ReadBlank
  PROVE  IInv'
<1>0. /\ file \in Files(MaxLines) /\ NextLine \in Lines /\ read \in Nat
      /\ read + 1 \in 1..Len(file) /\ lineNumber = read + 1 /\ NextLine = file[read + 1]
      /\ Taken(read) /\ settings = Defaults /\ name \in Paths /\ getline
      /\ file' = file /\ read' = read + 1 /\ settings' = settings /\ name' = name
      /\ lineNumber' = lineNumber + 1 /\ keyValues' = keyValues /\ stage' = "read"
      /\ NextLine \in BlankLines /\ Len(file) \in Nat
  BY LineIsTaken, LinesOfFile, MaxLinesAssumption DEF ReadBlank, getline
<1>1. TypeOK'
  BY <1>0, TypeIfKept
<1>2. DefinitionsOf[file[read + 1]] = {}
  BY <1>0, BlankDefinesNothing
<1>3. Taken(read + 1)
  <2>1. \A i \in 1..(read + 1) : i \in 1..read \/ i = read + 1
    BY <1>0
  <2>2. ASSUME NEW i \in 1..(read + 1)
        PROVE  /\ ~Faulty(i) /\ \A j \in 1..(i - 1) : ~SameKey(i, j)
               /\ \A d \in DefinitionsOf[file[i]] :
                    d.key \in DOMAIN keyValues /\ keyValues[d.key] = [line |-> i, val |-> d.value]
    <3>1. CASE i \in 1..read
      BY <1>0, <3>1 DEF Taken
    <3>2. CASE i = read + 1
      BY <1>0, <1>2, <3>2 DEF Faulty, SameKey
    <3> QED
      BY <2>1, <3>1, <3>2
  <2>3. \A key \in DOMAIN keyValues :
          /\ keyValues[key].line \in 1..(read + 1)
          /\ [key |-> key, value |-> keyValues[key].val] \in DefinitionsOf[file[keyValues[key].line]]
    BY <1>0 DEF Taken
  <2> QED
    BY <2>2, <2>3 DEF Taken
<1>4. Taken(read)'
  BY <1>0, <1>3 DEF Taken, Faulty, SameKey
<1>5. Reading' /\ Started'
  BY <1>0, <1>4, LinesOfFile DEF Reading, Started
<1> QED
  BY <1>0, <1>1, <1>5 DEF IInv, ErrorNamesItsLine, WholeFileOrDefaults

LEMMA SameFileSameFaults ==
  ASSUME file' = file
  PROVE  \A i, j : (Faulty(i)' <=> Faulty(i)) /\ (SameKey(i, j)' <=> SameKey(i, j))
BY DEF Faulty, SameKey

LEMMA ReadBadKeeps ==
  ASSUME IInv, ReadBad
  PROVE  IInv'
<1>0. /\ file \in Files(MaxLines) /\ NextLine \in Lines /\ read \in Nat
      /\ read + 1 \in 1..Len(file) /\ lineNumber = read + 1 /\ NextLine = file[read + 1]
      /\ Taken(read) /\ settings = Defaults /\ name \in Paths /\ getline
      /\ file' = file /\ read' = read + 1 /\ settings' = settings /\ name' = name
      /\ lineNumber' = lineNumber /\ keyValues' = keyValues /\ stage' = "error"
      /\ NextLine \notin BlankLines /\ DefinitionsOf[NextLine] = {}
      /\ error' = ReaderError("bad value", lineNumber, 0) /\ DOMAIN file = 1..Len(file)
  BY LineIsTaken, LinesOfFile DEF ReadBad, getline, ThrowError
<1>1. TypeOK'
  BY <1>0, TypeIfKept
<1>2. ErrorNamesItsLine'
  <2>1. error'.what = "bad value" /\ error'.line = read + 1
    BY <1>0 DEF ReaderError
  <2>2. Faulty(read + 1)
    BY <1>0 DEF Faulty
  <2>3. \A i \in 1..(error'.line - 1) : ~Faulty(i) /\ \A j \in 1..(i - 1) : ~SameKey(i, j)
    <3>1. PICK n : n = error'.line
      OBVIOUS
    <3>2. read \in Nat /\ n = read + 1
      BY <1>0, <2>1, <3>1
    <3>3. n - 1 = read
      BY <3>2
    <3> QED
      BY <1>0, <3>1, <3>3 DEF Taken
  <2> QED
    BY <1>0, <2>1, <2>2, <2>3, SameFileSameFaults DEF ErrorNamesItsLine
<1> QED
  BY <1>0, <1>1, <1>2, DefaultsAreSettings DEF IInv, Started, Reading, WholeFileOrDefaults

LEMMA ReadPairKeeps ==
  ASSUME IInv, ReadPair
  PROVE  IInv'
<1>0. /\ file \in Files(MaxLines) /\ NextLine \in Lines /\ read \in Nat
      /\ read + 1 \in 1..Len(file) /\ lineNumber = read + 1 /\ NextLine = file[read + 1]
      /\ Taken(read) /\ settings = Defaults /\ name \in Paths /\ getline
      /\ file' = file /\ read' = read + 1 /\ settings' = settings /\ name' = name
      /\ DOMAIN file = 1..Len(file) /\ Len(file) \in Nat /\ stage = "read"
      /\ file # Unreadable /\ \A i \in 1..Len(file) : file[i] \in Lines
  BY LineIsTaken, LinesOfFile, MaxLinesAssumption DEF ReadPair, getline
<1>1. PICK d \in DefinitionsOf[NextLine] :
        IF containsKey(d.key)
          THEN /\ ThrowError("multiple", lineNumber, getLineNumberByKey(d.key))
               /\ UNCHANGED <<lineNumber, keyValues>>
          ELSE /\ keyValues' = [key \in DOMAIN keyValues \cup {d.key} |->
                                  IF key = d.key THEN [line |-> lineNumber, val |-> d.value]
                                                 ELSE keyValues[key]]
               /\ lineNumber' = lineNumber + 1
               /\ UNCHANGED <<error, stage>>
  BY DEF ReadPair
<1>2. d = [key |-> d.key, value |-> d.value] /\ \A e \in DefinitionsOf[file[read + 1]] : e = d
  BY <1>0, LineDefinesOne
<1>3. CASE containsKey(d.key)
  <2> DEFINE earlier == keyValues[d.key].line
  <2>1. /\ error' = ReaderError("multiple", lineNumber, earlier) /\ stage' = "error"
        /\ lineNumber' = lineNumber /\ keyValues' = keyValues
    BY <1>1, <1>3 DEF ThrowError, getLineNumberByKey
  <2>2. TypeOK'
    BY <1>0, <2>1, TypeIfKept
  <2>3. earlier \in 1..read /\ SameKey(earlier, read + 1)
    <3> DEFINE e == [key |-> d.key, value |-> keyValues[d.key].val]
    <3>1. earlier \in 1..read /\ e \in DefinitionsOf[file[earlier]] /\ e.key = d.key
      BY <1>0, <1>3 DEF Taken, containsKey
    <3> HIDE DEF e, earlier
    <3> QED
      BY <1>0, <3>1 DEF SameKey
  <2> HIDE DEF earlier
  <2>4. error'.what = "multiple" /\ error'.line = read + 1 /\ error'.earlier = earlier
    BY <1>0, <2>1 DEF ReaderError
  <2>5. \A i \in 1..(error'.line - 1) : ~Faulty(i) /\ \A j \in 1..(i - 1) : ~SameKey(i, j)
    <3>1. PICK n : n = error'.line
      OBVIOUS
    <3>2. read \in Nat /\ n = read + 1
      BY <1>0, <2>4, <3>1
    <3>3. n - 1 = read
      BY <3>2
    <3> QED
      BY <1>0, <3>1, <3>3 DEF Taken
  <2>6. ErrorNamesItsLine'
    <3>1. error'.earlier < error'.line
      BY <1>0, <2>3, <2>4
    <3> QED
      BY <1>0, <2>3, <2>4, <2>5, <3>1, SameFileSameFaults DEF ErrorNamesItsLine
  <2> QED
    BY <1>0, <2>1, <2>2, <2>6, DefaultsAreSettings DEF IInv, Started, Reading, WholeFileOrDefaults
<1>4. CASE ~containsKey(d.key)
  <2>1. /\ keyValues' = [key \in DOMAIN keyValues \cup {d.key} |->
                            IF key = d.key THEN [line |-> read + 1, val |-> d.value]
                                           ELSE keyValues[key]]
        /\ lineNumber' = lineNumber + 1 /\ stage' = "read" /\ d.key \notin DOMAIN keyValues
    BY <1>0, <1>1, <1>4 DEF containsKey
  <2>2. /\ DOMAIN keyValues' = DOMAIN keyValues \cup {d.key}
        /\ keyValues'[d.key] = [line |-> read + 1, val |-> d.value]
        /\ \A key \in DOMAIN keyValues : keyValues'[key] = keyValues[key]
    BY <2>1
  <2>3. \A key \in DOMAIN keyValues' :
          /\ keyValues'[key].line \in 1..(read + 1)
          /\ [key |-> key, value |-> keyValues'[key].val]
               \in DefinitionsOf[file[keyValues'[key].line]]
    <3>1. ASSUME NEW key \in DOMAIN keyValues
          PROVE  /\ keyValues[key].line \in 1..(read + 1)
                 /\ [key |-> key, value |-> keyValues[key].val]
                      \in DefinitionsOf[file[keyValues[key].line]]
      BY <1>0 DEF Taken
    <3>2. /\ keyValues'[d.key].line = read + 1 /\ keyValues'[d.key].val = d.value
          /\ [key |-> d.key, value |-> d.value] \in DefinitionsOf[file[read + 1]]
      BY <1>0, <1>2, <2>2
    <3> QED
      BY <1>0, <2>2, <3>1, <3>2
  <2>4. TypeOK'
    <3>1. \A i \in 1..(read + 1) : file[i] \in Lines
      BY <1>0
    <3> QED
      BY <1>0, <2>1, <2>3, <3>1, TypeWhileReading
  <2>5. ASSUME NEW i \in 1..(read + 1)
        PROVE  /\ ~Faulty(i) /\ \A j \in 1..(i - 1) : ~SameKey(i, j)
               /\ \A e \in DefinitionsOf[file[i]] :
                    e.key \in DOMAIN keyValues' /\ keyValues'[e.key] = [line |-> i, val |-> e.value]
    <3>1. CASE i \in 1..read
      <4>1. /\ ~Faulty(i) /\ \A j \in 1..(i - 1) : ~SameKey(i, j)
            /\ \A e \in DefinitionsOf[file[i]] :
                 e.key \in DOMAIN keyValues /\ keyValues[e.key] = [line |-> i, val |-> e.value]
        BY <1>0, <3>1 DEF Taken
      <4> QED
        BY <2>2, <4>1
    <3>2. CASE i = read + 1
      <4>1. ~Faulty(i)
        BY <1>0, <3>2 DEF Faulty
      <4>2. ASSUME NEW j \in 1..(i - 1), SameKey(i, j) PROVE FALSE
        <5>1. j \in 1..read
          BY <1>0, <3>2
        <5>2. PICK e \in DefinitionsOf[file[j]] : d.key = e.key
          BY <1>2, <3>2, <4>2 DEF SameKey
        <5> QED
          BY <1>0, <2>1, <5>1, <5>2 DEF Taken
      <4> QED
        BY <1>2, <2>2, <3>2, <4>1, <4>2
    <3> QED
      BY <1>0, <3>1, <3>2
  <2>6. Taken(read)'
    BY <1>0, <2>3, <2>5, SameFileSameFaults DEF Taken
  <2>7. Reading' /\ Started'
    BY <1>0, <2>1, <2>6 DEF Reading, Started
  <2> QED
    BY <2>1, <2>4, <2>7 DEF IInv, ErrorNamesItsLine, WholeFileOrDefaults
<1> QED
  BY <1>3, <1>4

LEMMA EndOfFileKeeps ==
  ASSUME IInv, EndOfFile
  PROVE  IInv'
<1>0. /\ stage = "read" /\ stage' = "apply" /\ read = Len(file) /\ file # Unreadable
      /\ file' = file /\ read' = read /\ lineNumber' = lineNumber /\ keyValues' = keyValues
      /\ settings' = settings /\ name' = name
  BY DEF EndOfFile, readerVars, configVars
<1>1. TypeOK'
  BY <1>0, SameFileSameType DEF IInv, TypeOK
<1>2. Taken(read)' <=> Taken(read)
  BY <1>0 DEF Taken, Faulty, SameKey
<1>3. Reading' /\ Started'
  BY <1>0, <1>2 DEF IInv, Reading, Started
<1> QED
  BY <1>0, <1>1, <1>3 DEF IInv, ErrorNamesItsLine, WholeFileOrDefaults

-----------------------------------------------------------------------------
LEMMA WhatIsApplied ==
  ASSUME IInv, stage = "apply"
  PROVE  /\ file \in Files(MaxLines) /\ Taken(Len(file)) /\ settings = Defaults /\ name \in Paths
         /\ \A key \in DOMAIN keyValues :
              /\ keyValues[key].line \in 1..Len(file)
              /\ file[keyValues[key].line] \in Lines
              /\ [key |-> key, value |-> keyValues[key].val]
                   \in DefinitionsOf[file[keyValues[key].line]]
<1>1. /\ file \in Files(MaxLines) /\ Taken(Len(file)) /\ settings = Defaults /\ name \in Paths
  BY DEF IInv, Reading, Started
<1> QED
  BY <1>1, LinesOfFile DEF Taken

(* The value of a key of the file, as a string.                            *)
LEMMA ValueOfKey ==
  ASSUME IInv, stage = "apply", NEW k \in Keys, containsKey(<<k>>)
  PROVE  /\ keyValues[<<k>>].val \in Values
         /\ getValueByKey(k) = {} \/ getValueByKey(k) = {keyValues[<<k>>].val}
<1> DEFINE d == [key |-> <<k>>, value |-> keyValues[<<k>>].val]
           raw == file[keyValues[<<k>>].line]
<1>1. raw \in Lines /\ d \in DefinitionsOf[raw] /\ d.value = keyValues[<<k>>].val
  BY WhatIsApplied DEF containsKey
<1> HIDE DEF d, raw
<1>2. d.value \in Values
  BY <1>1 DEF Values
<1> QED
  BY <1>1, <1>2, ParsedIsDefined DEF getValueByKey

LEMMA WithSettingsAreSettings ==
  ASSUME IInv, stage = "apply", NEW keys \in SUBSET Keys, keys \cap BadKeys = {}
  PROVE  /\ WithSettings(keys) \in AllSettings
         /\ \A k \in Keys :
              WithSettings(keys)[k] = IF k \in keys /\ containsKey(<<k>>)
                                        THEN keyValues[<<k>>].val ELSE Defaults[k]
<1>1. ASSUME NEW k \in Keys
      PROVE  LET w == IF k \in keys /\ containsKey(<<k>>)
                        THEN CHOOSE value \in getValueByKey(k) : TRUE
                        ELSE settings[k]
             IN /\ w \in Values
                /\ w = IF k \in keys /\ containsKey(<<k>>)
                         THEN keyValues[<<k>>].val ELSE Defaults[k]
  <2>1. CASE k \in keys /\ containsKey(<<k>>)
    <3>1. getValueByKey(k) # {}
      BY <2>1 DEF BadKeys
    <3>2. getValueByKey(k) = {keyValues[<<k>>].val} /\ keyValues[<<k>>].val \in Values
      BY <2>1, <3>1, ValueOfKey
    <3>3. (CHOOSE value \in getValueByKey(k) : TRUE) = keyValues[<<k>>].val
      BY <3>2
    <3> QED
      BY <2>1, <3>2, <3>3
  <2>2. CASE ~(k \in keys /\ containsKey(<<k>>))
    BY <2>2, WhatIsApplied, DefaultsAreSettings DEF AllSettings
  <2> QED
    BY <2>1, <2>2
<1> QED
  BY <1>1 DEF WithSettings, AllSettings

LEMMA ApplyKeeps ==
  ASSUME IInv, Apply
  PROVE  IInv'
<1>0. /\ stage = "apply" /\ BadKeys = {} /\ stage' = "create"
      /\ file' = file /\ read' = read /\ lineNumber' = lineNumber /\ keyValues' = keyValues
      /\ settings' = WithSettings(Keys) /\ name' = name
  BY DEF Apply, readerVars
<1>1. /\ file \in Files(MaxLines) /\ Taken(Len(file)) /\ name \in Paths
  BY <1>0, WhatIsApplied
<1>2. /\ settings' \in AllSettings
      /\ \A k \in Keys : settings'[k] = IF containsKey(<<k>>) THEN keyValues[<<k>>].val
                                                              ELSE Defaults[k]
  BY <1>0, WithSettingsAreSettings
<1>3. TypeOK'
  BY <1>0, <1>2, SameFileSameType DEF IInv, TypeOK
<1>4. WholeFileOrDefaults'
  <2>1. ASSUME NEW k \in Keys
        PROVE  /\ Says(k) \subseteq {settings'[k]}
               /\ Says(k) = {} => settings'[k] = Defaults[k]
    BY <1>1, <1>2, SaysWhatIsTaken
  <2>2. \A k \in Keys : Says(k)' = Says(k)
    BY <1>0 DEF Says
  <2> QED
    BY <1>0, <1>1, <2>1, <2>2 DEF WholeFileOrDefaults
<1> QED
  BY <1>0, <1>3, <1>4 DEF IInv, Started, Reading, ErrorNamesItsLine

(* The first of the bad keys.                                              *)
LEMMA FirstBad ==
  ASSUME BadKeys # {}
  PROVE  LET bad == SelectInSeq(KeyOrder, LAMBDA k : k \in BadKeys) IN
         /\ bad \in 1..6 /\ KeyOrder[bad] \in BadKeys
         /\ {KeyOrder[i] : i \in 1..(bad - 1)} \in SUBSET Keys
         /\ {KeyOrder[i] : i \in 1..(bad - 1)} \cap BadKeys = {}
<1> DEFINE I == {i \in 1..6 : KeyOrder[i] \in BadKeys}
           bad == SelectInSeq(KeyOrder, LAMBDA k : k \in BadKeys)
<1>1. \A k \in Keys : \E i \in 1..6 : k = KeyOrder[i]
  BY DEF Keys, KeyOrder
<1>2. \A i \in 1..6 : KeyOrder[i] \in Keys
  BY DEF Keys, KeyOrder
<1>3. BadKeys \subseteq Keys
  BY DEF BadKeys
<1>4. I # {}
  BY <1>1, <1>3
<1>5. I \in SUBSET (1..6)
  OBVIOUS
<1>6. bad = Min(I)
  <2>1. Len(KeyOrder) = 6
    BY DEF KeyOrder
  <2> QED
    BY <1>4, <2>1 DEF SelectInSeq
<1> HIDE DEF bad
<1>7. bad \in I /\ \A i \in I : bad <= i
  BY <1>4, <1>5, <1>6, MinMax
<1>8. bad \in 1..6 /\ KeyOrder[bad] \in BadKeys
  BY <1>7
<1>9. \A i \in 1..(bad - 1) : i \in 1..6 /\ i \notin I
  BY <1>7, <1>8
<1>10. {KeyOrder[i] : i \in 1..(bad - 1)} \in SUBSET Keys
  BY <1>2, <1>9
<1>11. {KeyOrder[i] : i \in 1..(bad - 1)} \cap BadKeys = {}
  BY <1>9
<1> QED
  BY <1>8, <1>10, <1>11 DEF bad

LEMMA ApplyFailsKeeps ==
  ASSUME IInv, ApplyFails
  PROVE  IInv'
<1> DEFINE bad == SelectInSeq(KeyOrder, LAMBDA k : k \in BadKeys)
           before == {KeyOrder[i] : i \in 1..(bad - 1)}
           line == keyValues[<<KeyOrder[bad]>>].line
<1>0. /\ stage = "apply" /\ BadKeys # {} /\ stage' = "error"
      /\ file' = file /\ read' = read /\ lineNumber' = lineNumber /\ keyValues' = keyValues
      /\ settings' = WithSettings(before) /\ name' = name
      /\ error' = ReaderError("value", line, 0)
  BY DEF ApplyFails, ThrowError, getLineNumberByKey
<1>1. before \in SUBSET Keys /\ before \cap BadKeys = {} /\ KeyOrder[bad] \in BadKeys
  BY <1>0, FirstBad
<1> HIDE DEF before, bad
<1>2. settings' \in AllSettings /\ name' \in Paths
  BY <1>0, <1>1, WithSettingsAreSettings, WhatIsApplied
<1>3. TypeOK'
  BY <1>0, <1>2, SameFileSameType DEF IInv, TypeOK
<1>4. ErrorNamesItsLine'
  <2> DEFINE d == [key |-> <<KeyOrder[bad]>>, value |-> keyValues[<<KeyOrder[bad]>>].val]
  <2>1. /\ containsKey(<<KeyOrder[bad]>>) /\ parseValue(keyValues[<<KeyOrder[bad]>>].val) = {}
    BY <1>1 DEF BadKeys, getValueByKey
  <2>2. line \in DOMAIN file /\ d \in DefinitionsOf[file[line]]
    BY <1>0, <2>1, WhatIsApplied, LinesOfFile DEF containsKey
  <2>3. parseValue(d.value) = {}
    BY <2>1
  <2> HIDE DEF d, line
  <2>4. error'.what = "value" /\ error'.line = line
    BY <1>0 DEF ReaderError
  <2> QED
    BY <1>0, <2>2, <2>3, <2>4 DEF ErrorNamesItsLine
<1> QED
  BY <1>0, <1>2, <1>3, <1>4 DEF IInv, Started, Reading, WholeFileOrDefaults

LEMMA CatchErrorKeeps ==
  ASSUME IInv, CatchError
  PROVE  IInv'
<1>1. TypeOK'
  BY DefaultsAreSettings, SameFileSameType DEF IInv, CatchError, loadDefaults, readerVars
<1> QED
  BY <1>1 DEF IInv, CatchError, loadDefaults, Started, Reading, ErrorNamesItsLine,
              WholeFileOrDefaults

LEMMA SameFileSameSettings ==
  ASSUME UNCHANGED <<file, settings, name>>, stage' \in {"create", "run"},
         stage \in {"create", "run"}, WholeFileOrDefaults
  PROVE  WholeFileOrDefaults'
<1>1. \A k : Says(k)' = Says(k)
  BY DEF Says
<1> QED
  BY <1>1 DEF WholeFileOrDefaults

LEMMA CreateKeeps ==
  ASSUME IInv, Create
  PROVE  IInv'
<1>0. /\ stage = "create" /\ stage' = "run"
      /\ UNCHANGED <<file, read, lineNumber, keyValues, settings, name>>
  BY DEF Create, readerVars, configVars
<1>1. TypeOK'
  BY <1>0, SameFileSameType DEF IInv, TypeOK
<1>2. WholeFileOrDefaults'
  BY <1>0, SameFileSameSettings DEF IInv
<1> QED
  BY <1>0, <1>1, <1>2 DEF IInv, Started, Reading, ErrorNamesItsLine

LEMMA StutterKeeps ==
  ASSUME IInv, UNCHANGED vars
  PROVE  IInv'
<1>0. UNCHANGED <<file, read, lineNumber, keyValues, error, settings, name, stage>>
  BY DEF vars, readerVars, configVars
<1>1. TypeOK'
  BY <1>0, SameFileSameType DEF IInv, TypeOK
<1>2. /\ \A n : Taken(n)' <=> Taken(n)
      /\ \A k : Says(k)' = Says(k)
      /\ \A i : Faulty(i)' <=> Faulty(i)
      /\ \A i, j : SameKey(i, j)' <=> SameKey(i, j)
  BY <1>0 DEF Taken, Says, Faulty, SameKey
<1>3. Started' /\ Reading'
  BY <1>0, <1>2 DEF IInv, Started, Reading
<1>4. ErrorNamesItsLine' /\ WholeFileOrDefaults'
  BY <1>0, <1>2 DEF IInv, ErrorNamesItsLine, WholeFileOrDefaults
<1> QED
  BY <1>0, <1>1, <1>3, <1>4 DEF IInv

(* The reader has of a file that it reads exactly what the lines so far    *)
(* say, and none of them is at fault: that holds at every moment.          *)
THEOREM Invariance ==
  Spec => []IInv
<1>1. Init => IInv
  BY InitKeeps
<1>2. IInv /\ [Next]_vars => IInv'
  <2> SUFFICES ASSUME IInv, [Next]_vars PROVE IInv'
    OBVIOUS
  <2>1. CASE UseDefaults
    BY <2>1, UseDefaultsKeeps
  <2>2. CASE \E path \in Paths : loadFromFile(path)
    BY <2>2, LoadFromFileKeeps
  <2>3. CASE OpenFile
    BY <2>3, OpenFileKeeps
  <2>4. CASE ReadBlank
    BY <2>4, ReadBlankKeeps
  <2>5. CASE ReadBad
    BY <2>5, ReadBadKeeps
  <2>6. CASE ReadPair
    BY <2>6, ReadPairKeeps
  <2>7. CASE EndOfFile
    BY <2>7, EndOfFileKeeps
  <2>8. CASE Apply
    BY <2>8, ApplyKeeps
  <2>9. CASE ApplyFails
    BY <2>9, ApplyFailsKeeps
  <2>10. CASE CatchError
    BY <2>10, CatchErrorKeeps
  <2>11. CASE Create
    BY <2>11, CreateKeeps
  <2>12. CASE UNCHANGED vars
    BY <2>12, StutterKeeps
  <2> QED
    BY <2>1, <2>2, <2>3, <2>4, <2>5, <2>6, <2>7, <2>8, <2>9, <2>10, <2>11, <2>12
       DEF Next, ReadOn
<1> QED
  BY <1>1, <1>2, PTL DEF Spec

(* What the reader collects are definitions of its lines, and the settings *)
(* are the six of the program, for files of any lines and any length.      *)
THEOREM TypeCorrect ==
  Spec => []TypeOK
<1>1. IInv => TypeOK
  BY DEF IInv
<1> QED
  BY <1>1, Invariance, PTL

(* Whatever the lines of a file, it is in force as a whole or not at all.  *)
THEOREM FilesCountAsAWhole ==
  Spec => []WholeFileOrDefaults
<1>1. IInv => WholeFileOrDefaults
  BY DEF IInv
<1> QED
  BY <1>1, Invariance, PTL

(* An error is of the first line at fault, whatever lines surround it.     *)
THEOREM ErrorsNameTheirLine ==
  Spec => []ErrorNamesItsLine
<1>1. IInv => ErrorNamesItsLine
  BY DEF IInv
<1> QED
  BY <1>1, Invariance, PTL
=============================================================================
