----------------------------- MODULE TablePrinter -----------------------------
(***************************************************************************)
(* bprinter::TablePrinter, which puts a table of text on the terminal one  *)
(* cell after the other and counts the columns by itself.                  *)
(***************************************************************************)
EXTENDS Integers, Sequences

Space == 32
Plus == 43
Dash == 45
Bar == 124

(* The lines that are finished, and the one that is not; the headers and   *)
(* widths of the columns; the row and the column of the next cell.         *)
Table == [lines |-> <<>>, line |-> <<>>, headers |-> <<>>, widths |-> <<>>,
          i |-> 0, j |-> 0, table_width |-> 0]

Put(tp, text) == [tp EXCEPT !.line = @ \o text]

EndLine(tp) == [tp EXCEPT !.lines = Append(@, tp.line), !.line = <<>>]

(* std::setw: a text that is too long for its column is not cut.           *)
setw(width, text) == [n \in 1..(width - Len(text)) |-> Space] \o text

(* As much of a text, or of a sequence, as there is of the first n.       *)
substr(text, n) == SubSeq(text, 1, IF Len(text) < n THEN Len(text) ELSE n)

get_num_columns(tp) == Len(tp.headers)

(* The column and the separator behind it.  A width below 4 throws.        *)
AddColumn(tp, header, width) ==
  [tp EXCEPT !.headers = Append(@, header),
             !.widths = Append(@, width),
             !.table_width = @ + width + 1]

PrintHorizontalLine(tp) ==
  EndLine(Put(tp, <<Plus>> \o [n \in 1..(tp.table_width - 1) |-> Dash] \o <<Plus>>))

(* A header is cut to its column.                                          *)
PrintHeader(tp) ==
  LET Cell(n) == setw(tp.widths[n], substr(tp.headers[n], tp.widths[n]))
      Cells[n \in 0..get_num_columns(tp)] ==
        IF n = 0 THEN <<>>
        ELSE IF n = 1 THEN Cell(1)
        ELSE Cells[n - 1] \o <<Bar>> \o Cell(n)
  IN PrintHorizontalLine(EndLine(
       Put(PrintHorizontalLine(tp), <<Bar>> \o Cells[get_num_columns(tp)] \o <<Bar>>)))

PrintFooter(tp) == PrintHorizontalLine(tp)

(* operator<<: the last cell of a row ends its line.                       *)
PrintCell(tp, input) ==
  LET cell == Put(tp, (IF tp.j = 0 THEN <<Bar>> ELSE <<>>)
                        \o setw(tp.widths[tp.j + 1], input) \o <<Bar>>)
  IN IF tp.j = get_num_columns(tp) - 1
     THEN [EndLine(cell) EXCEPT !.i = @ + 1, !.j = 0]
     ELSE [cell EXCEPT !.j = @ + 1]
=============================================================================
