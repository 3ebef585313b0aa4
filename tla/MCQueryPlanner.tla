--------------------------- MODULE MCQueryPlanner ---------------------------
(***************************************************************************)
(* Instance of QueryPlanner for TLC: two ordinary terms and the wildcard,  *)
(* and three triples that share components, two of them with a stored      *)
(* wildcard.  Each text is the beginning of another, of bytes that a size  *)
(* may have.                                                               *)
(***************************************************************************)
EXTENDS Snapshot, Benchmark

CONSTANTS a, b, star

MCTerms == {a, b, star}

MCUniverse ==
  {<<a, a, b>>, <<a, star, b>>, <<star, a, b>>}

MCLimits == {-1, 0, 1}

(* Zeros; and behind a few of them ones, which make sizes that are too     *)
(* large, or ones and zeros, which make sizes and texts of a byte.         *)
MCUnwritten(n) ==
  {[k \in 1..n |-> 0], [k \in 1..n |-> IF k > 2 THEN 1 ELSE 0],
   [k \in 1..n |-> IF k > 2 THEN k % 2 ELSE 0]}

MCText == [t \in MCTerms |-> IF t = a THEN <<1>> ELSE IF t = star THEN <<1, 0>> ELSE <<>>]
=============================================================================
