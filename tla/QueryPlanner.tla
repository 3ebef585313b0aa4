---------------------------- MODULE QueryPlanner ----------------------------
(***************************************************************************)
(* Execution of one parsed statement after the other against the           *)
(* three-index store: QueryPlanner::execute with the TrisDb methods it     *)
(* calls.  The methods run under TrisDb::_mutex, so that here a statement  *)
(* is one step; what the lock has to do with saving and stopping is in     *)
(* TrisDb.tla.                                                             *)
(***************************************************************************)
EXTENDS TripleMap

CONSTANT Limits   \* the LIMIT values that clients write

ASSUME LimitsAssumption == Limits \subseteq Int

VARIABLES
  m,       \* TrisDb::dbData
  request, \* the last statement: its command, its parameters, its limit
  reply,   \* the ResultVector it returned
  running  \* FALSE once the process ended

vars == <<m, request, reply, running>>

Requests ==
  {"none", "create", "get", "delete", "clear", "count", "save"}
    \X Patterns \X ({NoLimit} \cup Limits)

Bare(command) == <<command, AnyTriple, NoLimit>>

Rows(b)  == [rows |-> b, count |-> 0]
Number(n) == [rows |-> EmptyBag, count |-> n]
NoRows   == Rows(EmptyBag)

(* Mutant of PlanHead: always the subject index, bound or not.             *)
PlanHeadSubject(p) == 1

(* getQueryPlan, its first entry: every bound parameter is pushed to the   *)
(* front, so that the last bound one leads; with none bound it is the      *)
(* subject.                                                                *)
PlanHead(p) ==
  LET bound == {i \in Positions : p[i] # Wildcard} IN
  IF bound = {} THEN 1 ELSE CHOOSE i \in bound : \A j \in bound : j <= i

(* TrisDb::getAll(limit).  size() is unsigned: a negative limit converts   *)
(* to a number no container reaches.                                       *)
getAllRows(n) ==
  IF n = NoLimit \/ n < 0 \/ Size(getAll(m)) <= n
    THEN {getAll(m)}
    ELSE Truncations(getAll(m), n)

(* The rows of multimap i that all three parameters match; the loop stops  *)
(* once it has as many as the limit, a number it never meets if negative.  *)
getMatchingRows(i, p, n) ==
  LET found == Keep(getIndex(m, i, p[i]), Matching(p)) IN
  IF n = NoLimit \/ n < 0 \/ Size(found) <= n
    THEN {found}
    ELSE Truncations(found, n)

-----------------------------------------------------------------------------
Init ==
  /\ m = emptyMap
  /\ request = Bare("none")
  /\ reply = NoRows
  /\ running = TRUE

Create(t) ==
  /\ running
  /\ m[1][t] < MaxCopies
  /\ m' = add(m, t)
  /\ request' = <<"create", t, NoLimit>>
  /\ reply' = NoRows
  /\ UNCHANGED running

(* GET, GETS, GETP and GETO: the four differ only in what the shell prints. *)
Get(p, n) ==
  LET i == PlanHead(p) IN
  /\ running
  /\ request' = <<"get", p, n>>
  /\ \E b \in IF p[i] = Wildcard THEN getAllRows(n) ELSE getMatchingRows(i, p, n) :
        reply' = Rows(b)
  /\ UNCHANGED <<m, running>>

(* DELETE.  TripleMap::remove is declared to return a bool and returns     *)
(* none: behind the removal, which it has done, anything may happen; here  *)
(* the process goes on or ends.                                            *)
Delete(p) ==
  /\ running
  /\ m' = remove(m, p)
  /\ request' = <<"delete", p, NoLimit>>
  /\ reply' = NoRows
  /\ running' \in BOOLEAN

Clear ==
  /\ running
  /\ m' = clearAll
  /\ request' = Bare("clear")
  /\ reply' = NoRows
  /\ UNCHANGED running

(* COUNT; STATUS returns this number too, beside memory and connections.   *)
Count ==
  /\ running
  /\ request' = Bare("count")
  /\ reply' = Number(getCount(m))
  /\ UNCHANGED <<m, running>>

(* SAVE writes the multimaps out and leaves them alone.                    *)
Save ==
  /\ running
  /\ request' = Bare("save")
  /\ reply' = NoRows
  /\ UNCHANGED <<m, running>>

(* QUIT ends the server process: no reply, and no statement after it.      *)
Quit ==
  /\ running
  /\ running' = FALSE
  /\ UNCHANGED <<m, request, reply>>

execute ==
  \/ \E t \in Universe : Create(t)
  \/ \E p \in Patterns, n \in Limits : Get(p, n)
  \/ \E p \in Patterns : Delete(p)
  \/ Clear
  \/ Count
  \/ Save
  \/ Quit

Spec == Init /\ [][execute]_vars

-----------------------------------------------------------------------------
(* Every multimap holds at most MaxCopies copies of the triples clients    *)
(* created, and the last reply is rows taken from them, or a count.        *)
TypeOK ==
  /\ m \in [Positions -> SmallBags]
  /\ reply \in [rows : SmallBags, count : {0} \cup Sizes]
  /\ request \in Requests
  /\ running \in BOOLEAN

(* The three multimaps of TripleMap.h never drift apart: after any         *)
(* sequence of statements each holds the same copies of the same triples,  *)
(* also when stored terms are wildcards, which the removal helpers then    *)
(* treat as patterns.                                                      *)
IndexesAgree == Agree(m)

Store == INSTANCE TripleStore WITH store <- m[1]

(* Three multimaps, a query plan and early exits behave as one multiset    *)
(* of triples: DELETE drops exactly what its pattern matches, GET answers  *)
(* with exactly the matching triples whichever multimap the plan picks.    *)
RefinesStore == Store!Spec
=============================================================================
