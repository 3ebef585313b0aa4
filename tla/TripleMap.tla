------------------------------ MODULE TripleMap ------------------------------
(***************************************************************************)
(* The three-index triple store of TripleMap.h.                            *)
(*                                                                         *)
(* A map m is a function from the positions 1, 2, 3 to bags of triples:    *)
(* m[1], m[2] and m[3] are the multimaps m1, m2 and m3, keyed by subject,  *)
(* by predicate and by object.  Each entry carries the whole triple, and   *)
(* its key is that component of the triple.                                *)
(***************************************************************************)
EXTENDS Triples

Maps == [Positions -> Bags]

emptyMap == [i \in Positions |-> EmptyBag]

(* Mutant of add: the predicate index receives the entry twice.            *)
addPredicateTwice(m, t) ==
  [i \in Positions |-> [m[i] EXCEPT ![t] = @ + IF i = 2 THEN 2 ELSE 1]]

(* add: one insertion in each multimap.                                    *)
add(m, t) == [i \in Positions |-> [m[i] EXCEPT ![t] = @ + 1]]

(* The entries of multimap i under key k: equal_range(k).                  *)
EqualRange(m, i, k) == {t \in Universe : m[i][t] > 0 /\ t[i] = k}

(* removeFromA, removeFromB, removeFromC applied to the components of e:   *)
(* what they erase from multimap i.  A component of e that is itself the   *)
(* wildcard matches anything here, except as the key.                      *)
removeFrom(m, i, e) ==
  {t \in EqualRange(m, i, e[i]) :
      \A j \in Positions \ {i} : isEqual(t[j], e[j])}

(* Mutant of removeBy: the entry goes from its own multimap and the object *)
(* one, and removeFromA or removeFromB is forgotten.                       *)
removeByAndFromObjects(m, i, p) ==
  LET found == {e \in EqualRange(m, i, p[i]) :
                   \A j \in Positions \ {i} : isEqual(e[j], p[j])}
  IN  [j \in Positions |->
         IF j = i \/ j = 3 THEN Erase(m[j], found) ELSE m[j]]

(* remove, the branch that walks multimap i: every entry under the key     *)
(* p[i] that the other parameters match is erased, after it was removed    *)
(* from the two other multimaps by its own components.                     *)
removeBy(m, i, p) ==
  LET found == {e \in EqualRange(m, i, p[i]) :
                   \A j \in Positions \ {i} : isEqual(e[j], p[j])}
  IN  [j \in Positions |->
         IF j = i THEN Erase(m[j], found)
                  ELSE Erase(m[j], UNION {removeFrom(m, j, e) : e \in found})]

clearAll == emptyMap

(* remove: the first parameter that is not a wildcard picks the multimap.  *)
(* What becomes of the process at its missing return is the caller's, here.*)
remove(m, p) ==
  IF p[1] # Wildcard THEN removeBy(m, 1, p)
  ELSE IF p[2] # Wildcard THEN removeBy(m, 2, p)
  ELSE IF p[3] # Wildcard THEN removeBy(m, 3, p)
  ELSE clearAll

(* getA, getB and getC.                                                    *)
getIndex(m, i, k) == Keep(m[i], EqualRange(m, i, k))

getAll(m) == m[1]

getCount(m) == Size(m[1])

-----------------------------------------------------------------------------
(* The three multimaps hold the same triples, each as often as the others. *)
Agree(m) == \A i, j \in Positions : m[i] = m[j]
=============================================================================
