-------------------------------- MODULE MCWire --------------------------------
(* Texts that are empty, that look like tags, that end in zero and that    *)
(* are wider than a column.                                                *)
EXTENDS Display

MCStatements == {<<>>, <<18, 1>>}
MCTimes == {<<7>>, <<26, 9>>}
MCTerms == {<<5, 5, 5, 5, 5>>, <<10, 4>>}
MCRows == MCTerms \X {<<18>>} \X {<<10, 4>>}

(* Nothing; an unknown number; a known one with another wire type; a second*)
(* timestamp; four and eight bytes; a field that ends too late; a zero; an *)
(* end group.                                                              *)
MCStrange == {<<>>, <<24, 5>>, <<8, 1>>, <<18, 1, 3>>, <<29, 1, 2, 3, 4>>,
              <<25, 1, 2, 3, 4, 5, 6, 7, 8>>, <<10, 5, 1>>, <<0>>, <<12, 1>>}

(* The names' first letters; "Predicate" is wider than its column here.    *)
MCHeading ==
  [Subject |-> <<83>>, Predicate |-> <<80, 114, 101, 100, 105>>, Object |-> <<79>>,
   Count |-> <<67>>, Property |-> <<80>>, Value |-> <<86>>]
=============================================================================
