----------------------------- MODULE QueryParser -----------------------------
(***************************************************************************)
(* QueryParser::parse, with the one Query object that a request hands to   *)
(* all of its statements.                                                  *)
(*                                                                         *)
(* A statement is a sequence of atoms: a space, a quote, or a word without *)
(* either.  Words are compared as the code compares them, and the text in  *)
(* a pair of quotes is whatever atoms stand there, keywords included.      *)
(***************************************************************************)
EXTENDS Integers, SequencesExt

CONSTANTS
  Space, Quote, Star,  \* the characters " ", "\"" and "*"
  UpperLimit,          \* the word LIMIT in capitals, and
  LowerLimit,          \* in small letters
  Names,               \* words that mean nothing to the parser
  Numerals,            \* words of digits, never one right behind another
  atoi,                \* the number that each numeral spells
  to_upper,            \* the command that each word for a command spells
  Texts                \* the statements that clients send

ValidCommands ==
  {"CREATE", "GET", "GETS", "GETP", "GETO", "DELETE", "CLEAR", "COUNT",
   "STATUS", "QUIT", "SAVE"}

Words == {Star, UpperLimit, LowerLimit} \cup Names \cup Numerals \cup DOMAIN to_upper

Atoms == {Space, Quote} \cup Words

(* A word has neither a space nor a quote in it.                           *)
ASSUME AtomsAssumption == Space # Quote /\ {Space, Quote} \cap Words = {}
ASSUME NumbersAssumption == atoi \in [Numerals -> Int]
ASSUME SpellingAssumption == \A w \in DOMAIN to_upper : to_upper[w] \in ValidCommands
ASSUME TextsAssumption == Texts \subseteq Seq(Atoms)

VARIABLES
  q,       \* the Query: its command, its three parameters, its limit
  written, \* the statement that was parsed and is not executed yet
  fate     \* "up", or "thrown": nothing catches it, and the process ends

vars == <<q, written, fate>>

Wildcard == <<Star, Star, Star>>

NoLimit == 0

Nothing == <<Wildcard, Wildcard, Wildcard>>

FreshQuery == [command |-> "", parameters |-> <<<<>>, <<>>, <<>>>>, limit |-> NoLimit]

-----------------------------------------------------------------------------
(* std::string::find and rfind; npos is the position after the end.        *)
find(s, x, from) ==
  LET at == {i \in from..Len(s) : s[i] = x} IN
  IF at = {} THEN Len(s) + 1 ELSE CHOOSE i \in at : \A j \in at : i <= j

rfind(s, x) ==
  LET at == {i \in 1..Len(s) : s[i] = x} IN
  IF at = {} THEN Len(s) + 1 ELSE CHOOSE i \in at : \A j \in at : j <= i

(* The last LIMIT in capitals, and else the last one in small letters.     *)
LimitAt(s) ==
  LET upper == rfind(s, UpperLimit) IN
  IF upper <= Len(s) THEN upper ELSE rfind(s, LowerLimit)

(* atoi of a text: the number its first word spells, 0 if it spells none.  *)
NumberOf(s) == IF s # <<>> /\ s[1] \in Numerals THEN atoi[s[1]] ELSE 0

(* Mutant of findLimit: everything from LIMIT on is erased.                *)
findLimitToEnd(s) ==
  LET found == LimitAt(s)
      first == find(s, Space, found)
      second == find(s, Space, first + 1)
  IN [text |-> SubSeq(s, 1, found - 1),
      limit |-> NumberOf(SubSeq(s, first + 1, second - 1))]

(* findLimit takes the text between the first two spaces from LIMIT on for *)
(* the number, and erases from LIMIT up to the second one.  Without a      *)
(* space it reads the word LIMIT itself as a number.                       *)
findLimit(s) ==
  LET found == LimitAt(s)
      first == find(s, Space, found)
      second == find(s, Space, first + 1)
  IN [text |-> SubSeq(s, 1, found - 1) \o SubSeq(s, second, Len(s)),
      limit |-> NumberOf(SubSeq(s, first + 1, second - 1))]

HasLimit(s) == LimitAt(s) <= Len(s)

(* The text before the first space, in capitals, "" if that is no command. *)
CommandOf(s) ==
  LET word == SubSeq(s, 1, find(s, Space, 1) - 1) IN
  IF Len(word) = 1 /\ word[1] \in DOMAIN to_upper THEN to_upper[word[1]] ELSE ""

QuotesUpTo(s, i) == Cardinality({j \in 1..i : s[j] = Quote})

Unquote(match) == IF match = <<Star>> THEN Wildcard ELSE match

(* The matches of the regex: it pairs the quotes from the left.            *)
QuotedIn(s) ==
  LET quote(n) == CHOOSE i \in 1..Len(s) : s[i] = Quote /\ QuotesUpTo(s, i) = n IN
  [k \in 1..(QuotesUpTo(s, Len(s)) \div 2) |->
     Unquote(SubSeq(s, quote(2*k - 1) + 1, quote(2*k) - 1))]

(* Nothing after the command is looked at when no space follows it.        *)
ParametersOf(s) == IF find(s, Space, 1) <= Len(s) THEN QuotedIn(s) ELSE <<>>

(* Mutant of FillWildcards: nothing is filled in or dropped.              *)
LeaveMissing(params) == params

(* Missing parameters are wildcards, and what follows the third is         *)
(* dropped.                                                                *)
FillWildcards(params) == SubSeq(params \o Nothing, 1, 3)

Rejected(command, params) ==
  \/ command = ""
  \/ command = "CREATE" /\ Len(params) < 3

Bare(command) == command \in {"QUIT", "CLEAR", "COUNT", "STATUS"}

-----------------------------------------------------------------------------
Init ==
  /\ q = FreshQuery
  /\ written = <<>>
  /\ fate = "up"

(* parse writes into the Query it is given, and what a statement does not  *)
(* set stays what it was: the limit when there is no LIMIT, the parameters *)
(* when the command takes none.                                            *)
parse(s) ==
  LET clause == IF HasLimit(s) THEN findLimit(s) ELSE [text |-> s, limit |-> q.limit]
      command == CommandOf(clause.text)
      params == ParametersOf(clause.text)
  IN
  /\ fate = "up"
  /\ written = <<>>
  /\ written' = s
  /\ \/ /\ Rejected(command, params)
        /\ fate' = "thrown"
        /\ UNCHANGED q
     \/ /\ ~Rejected(command, params)
        /\ q' = [command |-> command,
                 parameters |-> IF Bare(command) THEN q.parameters
                                ELSE FillWildcards(params),
                 limit |-> clause.limit]
        /\ UNCHANGED fate

(* The statement is executed, and the Query kept for the next one ...      *)
Execute ==
  /\ fate = "up"
  /\ written # <<>>
  /\ written' = <<>>
  /\ UNCHANGED <<q, fate>>

(* ... of this request.  The next request has a Query of its own.          *)
NewRequest ==
  /\ fate = "up"
  /\ written = <<>>
  /\ q # FreshQuery
  /\ q' = FreshQuery
  /\ UNCHANGED <<written, fate>>

Next ==
  \/ \E s \in Texts : parse(s)
  \/ Execute
  \/ NewRequest

Spec == Init /\ [][Next]_vars

-----------------------------------------------------------------------------
(* The Query always has three parameters, a valid command or, as before    *)
(* the first statement, none, and a limit that some numeral spells.        *)
TypeOK ==
  /\ q.command \in ValidCommands \cup {""}
  /\ q.parameters \in Seq(Seq(Atoms)) /\ Len(q.parameters) = 3
  /\ q.limit \in Range(atoi) \cup {NoLimit}
  /\ written \in Texts \cup {<<>>}
  /\ fate \in {"up", "thrown"}

(* What a client may expect of a statement that has at most one LIMIT,     *)
(* outside of quotes, with a number and a space or the end behind it.      *)
Keywords(s) == {i \in 1..Len(s) : s[i] \in {UpperLimit, LowerLimit}}

QuotedAt(s, i) == QuotesUpTo(s, i) % 2 = 1

WellFormed(s) ==
  /\ Cardinality(Keywords(s)) <= 1
  /\ \A i \in Keywords(s) :
        /\ ~QuotedAt(s, i)
        /\ i + 2 <= Len(s) /\ s[i + 1] = Space /\ s[i + 2] \in Numerals
        /\ i + 2 = Len(s) \/ s[i + 3] = Space
        /\ i > 1 /\ s[i - 1] = Space

MeansWhatItSays(s) ==
  LET command == CommandOf(s)
      values == QuotedIn(s)
  IN
  IF command = "" \/ (command = "CREATE" /\ Len(values) < 3)
    THEN fate' = "thrown"
    ELSE /\ fate' = "up"
         /\ q'.command = command
         /\ ~Bare(command) => q'.parameters = SubSeq(values \o Nothing, 1, 3)
         /\ \A i \in Keywords(s) : q'.limit = atoi[s[i + 2]]

(* A well-formed statement means what it says, wherever its LIMIT stands:  *)
(* the command, the quoted values in their order with wildcards for the    *)
(* missing ones, and the number; and it is parsed unless the command is    *)
(* unknown or a CREATE lacks a value.                                      *)
WellFormedIsUnderstood ==
  [][written = <<>> /\ written' # <<>> /\ WellFormed(written') =>
       MeansWhatItSays(written')]_vars

-----------------------------------------------------------------------------
(* "Receives string command, parses it and returns Query object": the      *)
(* Query of a statement is a function of the statement.                    *)
QueryIsOfStatement ==
  [][written = <<>> /\ written' # <<>> /\ fate' = "up" =>
       q'.limit = IF HasLimit(written') THEN findLimit(written').limit ELSE NoLimit]_vars
=============================================================================
