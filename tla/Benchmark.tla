------------------------------ MODULE Benchmark ------------------------------
(***************************************************************************)
(* TrisDb::benchmark: triples of different subjects are written into an    *)
(* empty store, and each is looked up by its subject.  The store is never  *)
(* saved.                                                                  *)
(***************************************************************************)
EXTENDS TripleMap, FiniteSets, Sequences

(* A million triples, in the program.                                      *)
Workloads == {load \in UNION {[1..n -> Universe] : n \in 0..Cardinality(Universe)} :
                \A i, j \in DOMAIN load : load[i][1] = load[j][1] => i = j}

create(load) ==
  LET upTo[n \in 0..Len(load)] == IF n = 0 THEN emptyMap ELSE add(upTo[n - 1], load[n])
  IN upTo[Len(load)]

getFromA(load, i) == getIndex(create(load), 1, load[i][1])

(* Every lookup finds one triple, the one that was written.                *)
ASSUME BenchmarkFindsAll ==
  \A load \in Workloads : \A i \in DOMAIN load :
    getFromA(load, i) = [EmptyBag EXCEPT ![load[i]] = 1]
=============================================================================
