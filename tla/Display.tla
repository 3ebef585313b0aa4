------------------------------- MODULE Display -------------------------------
(***************************************************************************)
(* What the shell prints of the response that its client returns: the      *)
(* exchange of Wire.tla, with the tables of TablePrinter.tla at its end.   *)
(***************************************************************************)
EXTENDS Wire, TablePrinter

CONSTANTS Heading,        \* the texts of the headers, by name
          COLUMN_WIDTH,   \* 20 in the program
          printRowLimit   \* 100 in the program

ASSUME ColumnWidthAssumption == COLUMN_WIDTH \in Nat /\ COLUMN_WIDTH >= 4

ASSUME printRowLimitAssumption == printRowLimit \in Nat

ValidCommands == {"CREATE", "GET", "GETS", "GETP", "GETO", "DELETE", "CLEAR",
                  "COUNT", "STATUS", "QUIT", "SAVE"}

(* The columns of a command: a header, and the field below it.             *)
Columns(cmd) ==
  CASE cmd = "GETS" -> <<<<"Subject", "subject">>>>
    [] cmd = "GETP" -> <<<<"Predicate", "predicate">>>>
    [] cmd = "GETO" -> <<<<"Object", "object">>>>
    [] cmd = "GET" ->
         <<<<"Subject", "subject">>, <<"Predicate", "predicate">>, <<"Object", "object">>>>
    [] cmd = "COUNT" -> <<<<"Count", "object">>>>
    [] cmd = "STATUS" -> <<<<"Property", "subject">>, <<"Value", "object">>>>
    [] OTHER -> <<>>

ASSUME HeadingAssumption ==
  \A cmd \in ValidCommands : \A n \in DOMAIN Columns(cmd) :
    Heading[Columns(cmd)[n][1]] \in Seq(Nat)

Field(row, name) ==
  CASE name = "subject" -> Res!Record!subject(row)
    [] name = "predicate" -> Res!Record!predicate(row)
    [] OTHER -> Res!Record!object(row)

IsTable(cmd) == cmd \in {"GET", "GETS", "GETP", "GETO", "COUNT", "STATUS"}

(* Mutant of PrintRow: the last column of a row is forgotten.              *)
PrintRowShort(tp, cmd, row) ==
  LET n == Len(Columns(cmd))
      cells[k \in 0..n] ==
        IF k = 0 THEN tp ELSE PrintCell(cells[k - 1], Field(row, Columns(cmd)[k][2]))
  IN cells[IF n = 0 THEN 0 ELSE n - 1]

PrintRow(tp, cmd, row) ==
  LET n == Len(Columns(cmd))
      cells[k \in 0..n] ==
        IF k = 0 THEN tp ELSE PrintCell(cells[k - 1], Field(row, Columns(cmd)[k][2]))
  IN cells[n]

AddColumns(cmd) ==
  LET n == Len(Columns(cmd))
      columns[k \in 0..n] ==
        IF k = 0 THEN Table
        ELSE AddColumn(columns[k - 1], Heading[Columns(cmd)[k][1]], COLUMN_WIDTH)
  IN columns[n]

PrintRows(tp, cmd, data) ==
  LET n == Len(data)
      body[k \in 0..n] == IF k = 0 THEN tp ELSE PrintRow(body[k - 1], cmd, data[k])
  IN body[n]

(* The table, the number of rows that were read, the time, which is never  *)
(* 0, and whether the shell says that there are more rows.                 *)
printQueryResult(res, cmd, atoi) ==
  LET header == IF IsTable(cmd) THEN PrintHeader(AddColumns(cmd)) ELSE AddColumns(cmd)
      body == PrintRows(header, cmd, substr(res.data, printRowLimit))
  IN [table |-> IF IsTable(cmd) THEN PrintFooter(body) ELSE body,
      read  |-> Len(res.data),
      time  |-> IF atoi = 0 THEN 1 ELSE atoi,
      more  |-> Len(res.data) > printRowLimit]

-----------------------------------------------------------------------------
(* The cells and the columns of a printed response keep in step: no row is *)
(* left unfinished, rows that are missing are announced, and every line is *)
(* as wide as the rules unless one of its texts is wider than its column.  *)
TooWide(cmd, row) ==
  \E n \in DOMAIN Columns(cmd) : Len(Field(row, Columns(cmd)[n][2])) > COLUMN_WIDTH

IsWhole(out, cmd, data) ==
  LET tp == out.table IN
  IF ~IsTable(cmd) THEN tp = Table
  ELSE /\ tp.line = <<>> /\ tp.j = 0
       /\ Len(tp.lines) = tp.i + 4
       /\ tp.i <= out.read /\ out.more = (tp.i < out.read)
       /\ \A n \in 1..Len(tp.lines) :
            \/ Len(tp.lines[n]) = tp.table_width + 1
            \/ n \in 4..(tp.i + 3) /\ TooWide(cmd, data[n - 3])

(* Whatever rows a reply has, and whichever command it is taken to answer, *)
(* its table is whole.                                                     *)
TablesAreWhole ==
  stage \in {"read", "read cut", "read nothing", "adapted"} =>
    \A cmd \in ValidCommands : IsWhole(printQueryResult(shown, cmd, 0), cmd, shown.data)
=============================================================================
