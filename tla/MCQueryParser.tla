--------------------------- MODULE MCQueryParser ---------------------------
(***************************************************************************)
(* Instance of QueryParser for TLC: statements put together from a command *)
(* and pieces that a client may write behind it, orderly ones and others.  *)
(***************************************************************************)
EXTENDS QueryParser

CONSTANTS sp, qt, star, LIMIT, limit, a, five, seven, get, create, count

MCNumbers == five :> 5 @@ seven :> 7

MCWords == get :> "GET" @@ create :> "CREATE" @@ count :> "COUNT"

Value(v) == <<sp, qt, v, qt>>

Pieces ==
  {Value(a), Value(star), <<sp, LIMIT, sp, five>>, <<sp, limit, sp, seven>>,
   <<sp, LIMIT>>, <<qt>>, <<sp, qt, a, sp, LIMIT, sp, a, qt>>}

(* Every command with up to two pieces, and with three values around one.  *)
MCTexts ==
  {<<w>> \o FlattenSeq(ps) : w \in {get, create, count, a}, ps \in BoundedSeq(Pieces, 2)}
    \cup {<<w>> \o FlattenSeq(InsertAt(<<Value(a), Value(star), Value(a)>>, i, p)) :
            w \in {get, create}, i \in 1..4, p \in Pieces}
=============================================================================
