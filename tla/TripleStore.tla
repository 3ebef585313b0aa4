----------------------------- MODULE TripleStore -----------------------------
(***************************************************************************)
(* What TrisDB promises: one multiset of triples, and statements that add  *)
(* a triple to it, drop every triple a pattern matches, or read it.  No    *)
(* index, no query plan and no access path is visible here.                *)
(***************************************************************************)
EXTENDS Triples

CONSTANT Limits   \* the LIMIT values that clients write

VARIABLES
  store,    \* the triples, with their number of copies
  request,  \* the last statement: its kind, its parameters, its limit
  reply     \* and its result

vars == <<store, request, reply>>

Bare(kind) == <<kind, AnyTriple, NoLimit>>

Rows(b)  == [rows |-> b, count |-> 0]
Number(n) == [rows |-> EmptyBag, count |-> n]
NoRows   == Rows(EmptyBag)

Init == store = EmptyBag /\ request = Bare("none") /\ reply = NoRows

Create(t) ==
  /\ store[t] < MaxCopies
  /\ store' = [store EXCEPT ![t] = @ + 1]
  /\ request' = <<"create", t, NoLimit>>
  /\ reply' = NoRows

Delete(p) ==
  /\ store' = Erase(store, Matching(p))
  /\ request' = <<"delete", p, NoLimit>>
  /\ reply' = NoRows

Clear ==
  /\ store' = EmptyBag
  /\ request' = Bare("clear")
  /\ reply' = NoRows

(* A query sees exactly the matching triples, or as many of them as a      *)
(* positive LIMIT allows.                                                  *)
Get(p, n) ==
  LET found == Keep(store, Matching(p)) IN
  /\ IF n > 0 /\ ~(Size(found) <= n)
       THEN \E r \in Truncations(found, n) : reply' = Rows(r)
       ELSE reply' = Rows(found)
  /\ request' = <<"get", p, n>>
  /\ UNCHANGED store

Count ==
  /\ request' = Bare("count")
  /\ reply' = Number(Size(store))
  /\ UNCHANGED store

Save ==
  /\ request' = Bare("save")
  /\ reply' = NoRows
  /\ UNCHANGED store

Next ==
  \/ \E t \in Universe : Create(t)
  \/ \E p \in Patterns : Delete(p)
  \/ \E p \in Patterns, n \in Limits : Get(p, n)
  \/ Clear
  \/ Count
  \/ Save

Spec == Init /\ [][Next]_vars
=============================================================================
