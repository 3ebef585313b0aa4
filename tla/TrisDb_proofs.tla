---------------------------- MODULE TrisDb_proofs ----------------------------
(***************************************************************************)
(* Theorems about TrisDb, for every set of servers, triples and            *)
(* statements.                                                             *)
(***************************************************************************)
EXTENDS TrisDb, TLAPS

LEMMA PositionsAre == Positions = {1, 2, 3}
BY DEF Positions

LEMMA BagsStaySmall ==
  /\ EmptyBag \in SmallBags
  /\ \A b \in SmallBags : \A S : Erase(b, S) \in SmallBags
  /\ \A b \in SmallBags, t \in Universe :
        b[t] < MaxCopies => [b EXCEPT ![t] = @ + 1] \in SmallBags
BY MaxCopiesAssumption DEF SmallBags, EmptyBag, Erase

(* Every mutation of small multimaps leaves them small.                    *)
LEMMA MutationsStaySmall ==
  ASSUME m \in [Positions -> SmallBags], NEW mm \in Mutations
  PROVE  mm \in [Positions -> SmallBags]
<1>1. emptyMap \in [Positions -> SmallBags]
  BY BagsStaySmall DEF emptyMap
<1>2. ASSUME NEW t \in Universe, \A i \in Positions : m[i][t] < MaxCopies,
             mm = add(m, t)
      PROVE  mm \in [Positions -> SmallBags]
  BY <1>2, BagsStaySmall DEF add
<1>3. ASSUME NEW p \in Patterns, mm = remove(m, p)
      PROVE  mm \in [Positions -> SmallBags]
  <2>1. \A i : removeBy(m, i, p) \in [Positions -> SmallBags]
    BY BagsStaySmall DEF removeBy
  <2> QED BY <1>1, <1>3, <2>1 DEF remove, clearAll
<1> QED BY <1>1, <1>2, <1>3 DEF Mutations, clearAll

LEMMA ContentsAre ==
  /\ Missing \in Contents /\ Empty \in Contents /\ Garbled \in Contents
  /\ \A b \in SmallBags : Whole(b) \in Contents
  /\ \A c \in Contents : c.rows \in SmallBags
  /\ \A c \in Contents : c.kind = "whole" => c = Whole(c.rows)
  /\ \A b : Whole(b).kind = "whole" /\ Whole(b).rows = b
<1> USE DEF Missing, Empty, Garbled, Whole
<1>1. Missing \in Contents /\ Empty \in Contents /\ Garbled \in Contents
  BY DEF Contents
<1>2. \A b \in SmallBags : Whole(b) \in Contents
  BY DEF Contents
<1>3. \A b : Whole(b).kind = "whole" /\ Whole(b).rows = b
  OBVIOUS
<1>4. ASSUME NEW c \in Contents
      PROVE  c.rows \in SmallBags /\ (c.kind = "whole" => c = Whole(c.rows))
  <2>1. CASE c \in {Missing, Empty, Garbled}
    BY <2>1, BagsStaySmall
  <2>2. CASE c \in {Whole(b) : b \in SmallBags}
    <3>1. PICK b \in SmallBags : c = Whole(b)
      BY <2>2
    <3> QED BY <3>1
  <2> QED BY <1>4, <2>1, <2>2 DEF Contents
<1> QED BY <1>1, <1>2, <1>3, <1>4

LEMMA DamagedIsContents == Damaged \subseteq Contents
BY DEF Damaged, Contents

-----------------------------------------------------------------------------
(* Type correctness.  A statement that is under way still counts as left.  *)
UnderWayIsLeft ==
  \A s \in Servers : io[s].at \in {"mutating", "saving"} => io[s].left > 0

TypeInv == TypeOK /\ UnderWayIsLeft

WorkerStages == {"none", "started", "serialised", "opened", "done"}

LEMMA TypeInit == Init => TypeInv
<1> SUFFICES ASSUME Init PROVE TypeInv
  OBVIOUS
<1>1. StorageTypeOK
  BY ContentsAre DEF Init, StorageInit, StorageTypeOK, NoWorker
<1>2. m \in [Positions -> SmallBags]
  BY BagsStaySmall DEF Init, emptyMap
<1>3. Off \in [at : IoStages, left : 0..MaxStatements]
  BY MaxStatementsAssumption DEF Off, IoStages
<1>4. io \in [Servers -> [at : IoStages, left : 0..MaxStatements]]
  BY <1>3 DEF Init
<1>5. \A s \in Servers : io[s].at = "off"
  BY DEF Init, Off
<1>6. TypeOK
  BY <1>1, <1>2, <1>4 DEF Init, TypeOK, Phases
<1> QED BY <1>5, <1>6 DEF TypeInv, UnderWayIsLeft

(* The steps of the storage engine keep the types of its variables.        *)
LEMMA StorageTypeStep ==
  ASSUME StorageTypeOK, NEW c \in Callers, NEW i \in Positions,
         NEW data \in Contents,
         \/ BeginSave(c)
         \/ CloseManifest(c)
         \/ Serialise(c, i, data)
         \/ OpenFile(c, i)
         \/ WriteFile(c, i)
         \/ EndSave(c)
         \/ CutSaves
         \/ UNCHANGED storageVars
  PROVE  StorageTypeOK'
<1> USE ContentsAre DEF StorageTypeOK
<1>1. CASE BeginSave(c)
  BY <1>1 DEF BeginSave
<1>2. CASE CloseManifest(c)
  BY <1>2 DEF CloseManifest
<1>3. CASE Serialise(c, i, data)
  BY <1>3 DEF Serialise, Advance
<1>4. CASE OpenFile(c, i)
  <2>1. files' \in [Positions -> Contents]
    BY <1>4 DEF OpenFile
  <2>2. workers[c][i].data \in Contents
    OBVIOUS
  <2>3. \E stage \in {"opened", "done"}, d \in Contents : Advance(c, i, stage, d)
    BY <1>4, <2>2 DEF OpenFile
  <2> QED BY <1>4, <2>1, <2>3 DEF OpenFile, Advance
<1>5. CASE WriteFile(c, i)
  <2>1. workers[c][i].data \in Contents /\ files[i] \in Contents
    OBVIOUS
  <2>2. \E new \in Contents : files' = [files EXCEPT ![i] = new]
    BY <1>5, <2>1, DamagedIsContents DEF WriteFile, Overwritten
  <2>3. files' \in [Positions -> Contents]
    BY <2>2
  <2> QED BY <1>5, <2>3 DEF WriteFile, Advance
<1>6. CASE EndSave(c)
  BY <1>6 DEF EndSave, NoWorker
<1>7. CASE CutSaves
  <2>1. PICK torn \in SUBSET HalfWritten : \E part \in [torn -> Damaged] :
           files' = [j \in Positions |-> IF j \in torn THEN part[j] ELSE files[j]]
    BY <1>7 DEF CutSaves
  <2>2. PICK part \in [torn -> Damaged] :
           files' = [j \in Positions |-> IF j \in torn THEN part[j] ELSE files[j]]
    BY <2>1
  <2>3. files' \in [Positions -> Contents]
    BY <2>2, DamagedIsContents
  <2> QED BY <1>7, <2>3 DEF CutSaves, NoWorker
<1>8. CASE UNCHANGED storageVars
  BY <1>8 DEF storageVars
<1> QED BY <1>1, <1>2, <1>3, <1>4, <1>5, <1>6, <1>7, <1>8

(* What the end of the process, by whatever cause, makes of the types.     *)
LEMMA DieTypes ==
  ASSUME TypeInv, NEW end \in Ends, Die(end)
  PROVE  TypeInv'
<1>1. StorageTypeOK'
  <2>1. PICK c \in Callers, i \in Positions, d \in Contents : TRUE
    BY CallersAssumption, PositionsAre, ContentsAre
  <2> QED BY <2>1, StorageTypeStep DEF Die, TypeInv, TypeOK
<1>2. m' \in [Positions -> SmallBags]
  BY BagsStaySmall DEF Die, emptyMap
<1>3. Off \in [at : IoStages, left : 0..MaxStatements]
  BY MaxStatementsAssumption DEF Off, IoStages
<1>4. io' = [s \in Servers |-> Off]
  BY DEF Die, FreshProcess
<1>5. io' \in [Servers -> [at : IoStages, left : 0..MaxStatements]]
  BY <1>3, <1>4
<1>6. UnderWayIsLeft'
  BY <1>4 DEF UnderWayIsLeft, Off
<1> QED BY <1>1, <1>2, <1>5, <1>6 DEF Die, FreshProcess, TypeInv, TypeOK

(* An IO thread that moves to a stage in which nothing is under way, or    *)
(* that has a statement left.                                              *)
LEMMA GotoTypes ==
  ASSUME TypeInv, NEW s \in Servers, NEW at \in IoStages, Goto(s, at),
         at \in {"mutating", "saving"} => io[s].left > 0
  PROVE  /\ io' \in [Servers -> [at : IoStages, left : 0..MaxStatements]]
         /\ UnderWayIsLeft'
<1>1. io' \in [Servers -> [at : IoStages, left : 0..MaxStatements]]
  BY DEF TypeInv, TypeOK, Goto
<1>2. \A u \in Servers : io'[u].left = io[u].left
                          /\ io'[u].at = IF u = s THEN at ELSE io[u].at
  BY DEF TypeInv, TypeOK, Goto
<1> QED BY <1>1, <1>2 DEF TypeInv, UnderWayIsLeft

LEMMA NextStatementTypes ==
  ASSUME TypeInv, NEW s \in Servers, NextStatement(s), io[s].left > 0
  PROVE  /\ io' \in [Servers -> [at : IoStages, left : 0..MaxStatements]]
         /\ UnderWayIsLeft'
<1>1. io[s].left - 1 \in 0..MaxStatements
  BY MaxStatementsAssumption DEF TypeInv, TypeOK
<1>2. "busy" \in IoStages
  BY DEF IoStages
<1>3. io' = [io EXCEPT ![s] = [at |-> "busy", left |-> io[s].left - 1]]
  BY DEF NextStatement
<1>4. io' \in [Servers -> [at : IoStages, left : 0..MaxStatements]]
  BY <1>1, <1>2, <1>3 DEF TypeInv, TypeOK
<1>5. \A u \in Servers \ {s} : io'[u] = io[u]
  BY <1>3 DEF TypeInv, TypeOK
<1>6. io'[s].at = "busy"
  BY <1>3 DEF TypeInv, TypeOK
<1> QED BY <1>4, <1>5, <1>6 DEF TypeInv, UnderWayIsLeft

LEMMA TypeStep == TypeInv /\ [Next]_vars => TypeInv'
<1> SUFFICES ASSUME TypeInv, [Next]_vars PROVE TypeInv'
  OBVIOUS
<1> USE DEF TypeInv, TypeOK
<1>0. PICK c0 \in Callers, i0 \in Positions, d0 \in Contents : TRUE
  BY CallersAssumption, PositionsAre, ContentsAre
<1>1. CASE UNCHANGED vars
  BY <1>0, <1>1, StorageTypeStep DEF vars, processVars, UnderWayIsLeft
<1>2. CASE Load
  <2>1. m' \in [Positions -> SmallBags]
    BY <1>2, ContentsAre DEF Load, syncLoad, StorageTypeOK
  <2> QED BY <1>0, <1>2, <2>1, StorageTypeStep DEF Load, Phases, UnderWayIsLeft
<1>3. CASE LoadFails
  BY <1>3, DieTypes DEF LoadFails, Ends
<1>4. CASE StartServers
  <2>1. [at |-> "starting", left |-> 0] \in [at : IoStages, left : 0..MaxStatements]
    BY MaxStatementsAssumption DEF IoStages
  <2>2. io' \in [Servers -> [at : IoStages, left : 0..MaxStatements]]
    BY <1>4, <2>1 DEF StartServers
  <2>3. \A s \in Servers : io'[s].at = "starting"
    BY <1>4 DEF StartServers
  <2> QED BY <1>0, <1>4, <2>2, <2>3, StorageTypeStep
          DEF StartServers, Phases, UnderWayIsLeft
<1>5. CASE LeaveLoop \/ FallAsleep \/ NoChanges \/ Sigterm
  BY <1>0, <1>5, StorageTypeStep
     DEF LeaveLoop, FallAsleep, NoChanges, Sigterm, Phases, UnderWayIsLeft
<1>6. ASSUME NEW s \in Servers, StopServer(s) PROVE TypeInv'
  BY <1>0, <1>6, StorageTypeStep DEF StopServer, UnderWayIsLeft
<1>7. CASE BeginLastSave
  BY <1>0, <1>7, StorageTypeStep, CallersAssumption
     DEF BeginLastSave, Phases, UnderWayIsLeft
<1>8. CASE EndLastSave
  BY <1>0, <1>8, StorageTypeStep, CallersAssumption
     DEF EndLastSave, Phases, UnderWayIsLeft
<1>9. CASE Exit
  <2>1. Off \in [at : IoStages, left : 0..MaxStatements]
    BY MaxStatementsAssumption DEF Off, IoStages
  <2>2. io' = [s \in Servers |-> Off]
    BY <1>9 DEF Exit, FreshProcess
  <2>3. io' \in [Servers -> [at : IoStages, left : 0..MaxStatements]]
    BY <2>1, <2>2
  <2>4. UnderWayIsLeft'
    BY <2>2 DEF UnderWayIsLeft, Off
  <2> QED BY <1>0, <1>9, <2>3, <2>4, StorageTypeStep DEF Exit, FreshProcess, Ends
<1>10. ASSUME NEW s \in Servers, Bind(s) \/ Reply(s) \/ IoEnds(s) PROVE TypeInv'
  <2>1. \E at \in {"idle", "stopped"} : Goto(s, at)
    BY <1>10 DEF Bind, Reply, IoEnds
  <2>2. /\ io' \in [Servers -> [at : IoStages, left : 0..MaxStatements]]
        /\ UnderWayIsLeft'
    BY <2>1, GotoTypes DEF IoStages
  <2> QED BY <1>0, <1>10, <2>2, StorageTypeStep DEF Bind, Reply, IoEnds
<1>11. ASSUME NEW s \in Servers, BindFails(s) \/ RemoveEnds(s) \/ Quit(s) \/ Reject(s)
       PROVE  TypeInv'
  BY <1>11, DieTypes DEF BindFails, RemoveEnds, Quit, Reject, Ends
<1>12. ASSUME NEW s \in Servers, Receive(s) PROVE TypeInv'
  <2>1. PICK n \in 0..MaxStatements :
           io' = [io EXCEPT ![s] = [at |-> "busy", left |-> n]]
    BY <1>12 DEF Receive
  <2>2. io' \in [Servers -> [at : IoStages, left : 0..MaxStatements]]
    BY <2>1 DEF IoStages
  <2>3. /\ \A u \in Servers \ {s} : io'[u] = io[u]
        /\ io'[s].at = "busy"
    BY <2>1
  <2> QED BY <1>0, <1>12, <2>2, <2>3, StorageTypeStep DEF Receive, UnderWayIsLeft
<1>13. ASSUME NEW s \in Servers, Read(s) PROVE TypeInv'
  <2>1. io[s].left > 0
    BY <1>13 DEF Read, HasStatement
  <2> QED BY <1>0, <1>13, <2>1, NextStatementTypes, StorageTypeStep DEF Read
<1>14. ASSUME NEW s \in Servers, LockToWrite(s) PROVE TypeInv'
  <2>1. io[s].left > 0 /\ Goto(s, "mutating")
    BY <1>14 DEF LockToWrite, HasStatement
  <2>2. /\ io' \in [Servers -> [at : IoStages, left : 0..MaxStatements]]
        /\ UnderWayIsLeft'
    BY <2>1, GotoTypes DEF IoStages
  <2> QED BY <1>0, <1>14, <2>2, StorageTypeStep DEF LockToWrite
<1>15. ASSUME NEW s \in Servers, Write(s) PROVE TypeInv'
  <2>1. m' \in [Positions -> SmallBags]
    BY <1>15, MutationsStaySmall DEF Write
  <2>2. io[s].left > 0
    BY <1>15 DEF Write, UnderWayIsLeft
  <2> QED BY <1>0, <1>15, <2>1, <2>2, NextStatementTypes, StorageTypeStep DEF Write
<1>16. ASSUME NEW s \in Servers, LockToSave(s) PROVE TypeInv'
  <2>1. io[s].left > 0 /\ Goto(s, "saving")
    BY <1>16 DEF LockToSave, HasStatement
  <2>2. /\ io' \in [Servers -> [at : IoStages, left : 0..MaxStatements]]
        /\ UnderWayIsLeft'
    BY <2>1, GotoTypes DEF IoStages
  <2> QED BY <1>0, <1>16, <2>2, StorageTypeStep, CallersAssumption DEF LockToSave
<1>17. ASSUME NEW s \in Servers, FinishSave(s) PROVE TypeInv'
  <2>1. io[s].left > 0
    BY <1>17 DEF FinishSave, UnderWayIsLeft
  <2> QED BY <1>0, <1>17, <2>1, NextStatementTypes, StorageTypeStep,
             CallersAssumption DEF FinishSave
<1>18. ASSUME NEW c \in Callers, CallerCloses(c) PROVE TypeInv'
  BY <1>0, <1>18, StorageTypeStep DEF CallerCloses, processVars, UnderWayIsLeft
<1>19. ASSUME NEW c \in Callers, NEW i \in Positions, Worker(c, i) PROVE TypeInv'
  <2>1. CASE WorkerFaults(c, i)
    BY <2>1, DieTypes DEF WorkerFaults, Ends
  <2>2. CASE WorkerSerialises(c, i)
    <3>1. m[i] \in SmallBags
      OBVIOUS
    <3>2. \E d \in Contents : Serialise(c, i, d)
      BY <2>2, <3>1, ContentsAre, DamagedIsContents DEF WorkerSerialises
    <3>3. StorageTypeOK'
      BY <3>2, StorageTypeStep
    <3> QED BY <2>2, <3>3 DEF WorkerSerialises, processVars, UnderWayIsLeft
  <2>3. CASE WorkerOpens(c, i) \/ WorkerWrites(c, i)
    BY <1>0, <2>3, StorageTypeStep
       DEF WorkerOpens, WorkerWrites, processVars, UnderWayIsLeft
  <2> QED BY <1>19, <2>1, <2>2, <2>3 DEF Worker
<1>20. CASE Kill
  BY <1>20, DieTypes DEF Kill, Ends
<1>21. CASE Restart
  <2>1. m' \in [Positions -> SmallBags]
    BY <1>21, BagsStaySmall DEF Restart, emptyMap
  <2> QED BY <1>0, <1>21, <2>1, StorageTypeStep DEF Restart, Phases, UnderWayIsLeft
<1> QED
  BY <1>1, <1>2, <1>3, <1>4, <1>5, <1>6, <1>7, <1>8, <1>9, <1>10, <1>11, <1>12,
     <1>13, <1>14, <1>15, <1>16, <1>17, <1>18, <1>19, <1>20, <1>21
  DEF Next, MainThread, IoThread, Client

LEMMA TypeInvAlways == Spec => []TypeInv
BY TypeInit, TypeStep, PTL DEF Spec

(* All variables of the process and of its directory keep to their ranges, *)
(* whatever goes wrong.                                                    *)
THEOREM TypeCorrect == Spec => []TypeOK
BY TypeInvAlways, PTL DEF TypeInv

-----------------------------------------------------------------------------
(***************************************************************************)
(* What is lost and what is not.  The theorems allow kills at any step,    *)
(* and assume that files can be written and that requests end within the   *)
(* second that shutdown gives them.                                        *)
(*                                                                         *)
(* Neither the dirty flag nor the files can be reasoned about alone: that  *)
(* a clean flag means a saved database holds after a SAVE only because the *)
(* three threads wrote one state of the multimaps, which holds because no  *)
(* other thread was changing or saving them, which is the mutex for an IO  *)
(* thread, and the end of all IO threads for the main thread.              *)
(***************************************************************************)

Mild == "disk" \notin Faults /\ "slow" \notin Faults

(* Who may do what: the mutex, the saves and the end of the IO threads.    *)
LockIsOwned ==
  \A s \in Servers : io[s].at \in {"mutating", "saving"} <=> lock = s

SaversAreSaving ==
  /\ \A s \in Servers : saves[s] # "idle" <=> io[s].at = "saving"
  /\ saves[Main] # "idle" <=> main = "saving"

IoThreadsEnded ==
  /\ main \in {"saving", "leaving"} => \A s \in Servers : io[s].at = "stopped"
  /\ main \in {"boot", "loaded"} \cup Ends => \A s \in Servers : io[s].at = "off"

MutatingIsDirty == \A s \in Servers : io[s].at = "mutating" => dataChanged

ControlInv == LockIsOwned /\ SaversAreSaving /\ IoThreadsEnded /\ MutatingIsDirty

(* What the files and the threads that write them hold: a thread of a save *)
(* holds the multimap as it is, and so does its file when it is done.      *)
WorkerOK(c, i) ==
  LET w == workers[c][i] IN
  /\ saves[c] = "idle" <=> w.at = "none"
  /\ w.at \in {"serialised", "opened"} => w.data = Whole(m[i])
  /\ w.at = "opened" => files[i] = Empty
  /\ w.at = "done" => files[i] = Whole(m[i])

WorkersOK == \A c \in Callers, i \in Positions : WorkerOK(c, i)

JoiningHasManifest == \A c \in Callers : saves[c] = "joining" => manifest = "full"

LeavingIsSaved == main \in {"leaving", "exited"} => Restores(m)

BootIsEmpty == main = "boot" => m = emptyMap

DataInv ==
  /\ WorkersOK
  /\ JoiningHasManifest
  /\ LeavingIsSaved
  /\ BootIsEmpty
  /\ CleanMeansSaved

SaveInv == TypeInv /\ ControlInv /\ DataInv

-----------------------------------------------------------------------------
(* How the steps change the stages of the saves and of the IO threads.     *)
LEMMA SavesStep ==
  ASSUME TypeInv, NEW c \in Callers
  PROVE  /\ BeginSave(c) => saves[c] = "idle" /\ saves'[c] = "writing"
         /\ CloseManifest(c) => saves[c] = "writing" /\ saves'[c] = "joining"
         /\ EndSave(c) => saves[c] = "joining" /\ saves'[c] = "idle"
         /\ BeginSave(c) \/ CloseManifest(c) \/ EndSave(c) =>
              \A d \in Callers \ {c} : saves'[d] = saves[d]
BY DEF TypeInv, TypeOK, StorageTypeOK, BeginSave, CloseManifest, EndSave

LEMMA IoStep ==
  ASSUME TypeInv, NEW s \in Servers
  PROVE  /\ \A at : Goto(s, at) =>
              io'[s].at = at /\ \A u \in Servers \ {s} : io'[u] = io[u]
         /\ NextStatement(s) =>
              io'[s].at = "busy" /\ \A u \in Servers \ {s} : io'[u] = io[u]
         /\ Receive(s) =>
              io'[s].at = "busy" /\ \A u \in Servers \ {s} : io'[u] = io[u]
BY DEF TypeInv, TypeOK, Goto, NextStatement, Receive

(* The threads of the process are gone, and nothing is held or under way.  *)
LEMMA GoneIsQuiet ==
  ASSUME FreshProcess, CutSaves
  PROVE  /\ \A s \in Servers : io'[s].at = "off"
         /\ \A c \in Callers : saves'[c] = "idle"
         /\ \A c \in Callers, i \in Positions : workers'[c][i].at = "none"
         /\ lock' = Nobody
         /\ ~dataChanged'
         /\ manifest' = manifest
BY DEF FreshProcess, CutSaves, Off, NoWorker

(* Where no thread has a file open, no file is cut short.                  *)
LEMMA GoneKeepsFiles ==
  ASSUME TypeInv, CutSaves,
         \A c \in Callers, i \in Positions : workers[c][i].at # "opened"
  PROVE  files' = files
<1>1. HalfWritten = {}
  BY DEF HalfWritten
<1>2. files' = [i \in Positions |-> files[i]]
  BY <1>1 DEF CutSaves
<1> QED BY <1>2 DEF TypeInv, TypeOK, StorageTypeOK

LEMMA GoneKeepsControl ==
  ASSUME FreshProcess, CutSaves, main' \in Ends
  PROVE  ControlInv'
<1>1. LockIsOwned' /\ MutatingIsDirty'
  BY GoneIsQuiet, CallersAssumption DEF LockIsOwned, MutatingIsDirty
<1>2. SaversAreSaving' /\ IoThreadsEnded'
  BY GoneIsQuiet, CallersAssumption DEF SaversAreSaving, IoThreadsEnded, Ends
<1> QED BY <1>1, <1>2 DEF ControlInv

(* A step that only moves one IO thread between stages in which it holds   *)
(* nothing.                                                                *)
LEMMA QuietIoStep ==
  ASSUME TypeInv, ControlInv, NEW s \in Servers,
         \A u \in Servers \ {s} : io'[u] = io[u],
         io[s].at \in {"starting", "idle", "busy"},
         io'[s].at \notin {"mutating", "saving"},
         UNCHANGED <<saves, lock, main, dataChanged>>
  PROVE  ControlInv'
<1>1. LockIsOwned' /\ MutatingIsDirty'
  BY DEF ControlInv, LockIsOwned, MutatingIsDirty
<1>2. SaversAreSaving'
  BY DEF ControlInv, SaversAreSaving
<1>3. IoThreadsEnded'
  BY DEF ControlInv, IoThreadsEnded
<1> QED BY <1>1, <1>2, <1>3 DEF ControlInv

LEMMA ControlStep ==
  ASSUME Mild, TypeInv, ControlInv, [Next]_vars
  PROVE  ControlInv'
<1> USE DEF ControlInv
<1>1. CASE UNCHANGED vars
  BY <1>1 DEF vars, storageVars, processVars, LockIsOwned, SaversAreSaving,
              IoThreadsEnded, MutatingIsDirty
<1>2. CASE Load \/ Restart
  <2>1. \A s \in Servers : io[s].at = "off"
    BY <1>2 DEF Load, Restart, Up, IoThreadsEnded
  <2>2. /\ UNCHANGED <<saves, lock, dataChanged, io>>
        /\ main # "saving" /\ main' \in {"boot", "loaded"}
    BY <1>2 DEF Load, Restart, storageVars, Up, Ends
  <2> QED BY <2>1, <2>2 DEF LockIsOwned, SaversAreSaving, IoThreadsEnded,
                            MutatingIsDirty, Ends
<1>3. CASE LoadFails \/ Exit \/ Kill
           \/ \E s \in Servers : BindFails(s) \/ RemoveEnds(s) \/ Quit(s) \/ Reject(s)
  <2>1. FreshProcess /\ CutSaves /\ main' \in Ends
    BY <1>3 DEF LoadFails, Exit, Kill, BindFails, RemoveEnds, Quit, Reject, Die, Ends
  <2> QED BY <2>1, GoneKeepsControl
<1>4. CASE StartServers
  <2>1. \A s \in Servers : io[s].at = "off" /\ io'[s].at = "starting"
    BY <1>4 DEF StartServers, IoThreadsEnded
  <2>2. UNCHANGED <<saves, lock, dataChanged>>
        /\ main = "loaded" /\ main' = "looping"
    BY <1>4 DEF StartServers, storageVars
  <2> QED BY <2>1, <2>2 DEF LockIsOwned, SaversAreSaving, IoThreadsEnded,
                            MutatingIsDirty, Ends
<1>5. CASE LeaveLoop \/ FallAsleep \/ Sigterm
           \/ \E s \in Servers : StopServer(s)
  <2>1. UNCHANGED <<saves, lock, dataChanged, io>>
    BY <1>5 DEF LeaveLoop, FallAsleep, Sigterm, StopServer, storageVars
  <2>2. \/ main' = main
        \/ main \in {"looping", "stopping"} /\ main' \in {"stopping", "sleeping"}
    BY <1>5 DEF LeaveLoop, FallAsleep, Sigterm, StopServer
  <2> QED BY <2>1, <2>2 DEF LockIsOwned, SaversAreSaving, IoThreadsEnded,
                            MutatingIsDirty, Ends
<1>6. CASE NoChanges \/ BeginLastSave
  <2>1. \A s \in Servers : io[s].at = "stopped"
    BY <1>6 DEF NoChanges, BeginLastSave, GraceOver, Mild
  <2>2. UNCHANGED <<lock, dataChanged, io>> /\ main = "sleeping"
    BY <1>6 DEF NoChanges, BeginLastSave
  <2>3. \/ main' = "leaving" /\ saves' = saves
        \/ /\ main' = "saving" /\ saves'[Main] # "idle"
           /\ \A s \in Servers : saves'[s] = saves[s]
    BY <1>6, SavesStep, CallersAssumption DEF NoChanges, BeginLastSave, storageVars
  <2> QED BY <2>1, <2>2, <2>3 DEF LockIsOwned, SaversAreSaving, IoThreadsEnded,
                                  MutatingIsDirty, Ends
<1>7. CASE EndLastSave
  <2>1. /\ UNCHANGED <<lock, dataChanged, io>>
        /\ main = "saving" /\ main' = "leaving"
    BY <1>7 DEF EndLastSave
  <2>2. saves'[Main] = "idle" /\ \A s \in Servers : saves'[s] = saves[s]
    BY <1>7, SavesStep, CallersAssumption DEF EndLastSave
  <2> QED BY <2>1, <2>2 DEF LockIsOwned, SaversAreSaving, IoThreadsEnded,
                            MutatingIsDirty, Ends
<1>8. ASSUME NEW s \in Servers, Bind(s) \/ Receive(s) \/ Read(s) \/ Reply(s) \/ IoEnds(s)
      PROVE  ControlInv'
  <2>1. UNCHANGED <<saves, lock, main, dataChanged>>
    BY <1>8 DEF Bind, Receive, Read, Reply, IoEnds, storageVars
  <2>2. /\ \A u \in Servers \ {s} : io'[u] = io[u]
        /\ io[s].at \in {"starting", "idle", "busy"}
        /\ io'[s].at \notin {"mutating", "saving"}
    <3>1. CASE Receive(s)
      <4>1. io[s].at = "idle"
        BY <3>1 DEF Receive
      <4> QED BY <3>1, <4>1, IoStep
    <3>2. CASE Bind(s) \/ Reply(s) \/ IoEnds(s) \/ Read(s)
      BY <3>2, IoStep DEF Bind, Reply, IoEnds, Read, HasStatement
    <3> QED BY <1>8, <3>1, <3>2
  <2> QED BY <2>1, <2>2, QuietIoStep
<1>9. ASSUME NEW s \in Servers, LockToWrite(s) \/ LockToSave(s)
      PROVE  ControlInv'
  <2>1. /\ io[s].at = "busy" /\ lock = Nobody /\ lock' = s /\ main' = main
        /\ \A u \in Servers \ {s} : io'[u] = io[u]
    BY <1>9, IoStep DEF LockToWrite, LockToSave, HasStatement
  <2>2. \/ io'[s].at = "mutating" /\ dataChanged' /\ saves' = saves
        \/ /\ io'[s].at = "saving" /\ saves'[s] # "idle"
           /\ \A c \in Callers \ {s} : saves'[c] = saves[c]
           /\ UNCHANGED dataChanged
    BY <1>9, IoStep, SavesStep, CallersAssumption
       DEF LockToWrite, LockToSave, storageVars
  <2>3. LockIsOwned' /\ MutatingIsDirty'
    BY <2>1, <2>2, CallersAssumption DEF LockIsOwned, MutatingIsDirty
  <2>4. SaversAreSaving'
    BY <2>1, <2>2, CallersAssumption DEF SaversAreSaving
  <2>5. IoThreadsEnded'
    BY <2>1, <2>2 DEF IoThreadsEnded
  <2> QED BY <2>3, <2>4, <2>5
<1>10. ASSUME NEW s \in Servers, Write(s) \/ FinishSave(s)
       PROVE  ControlInv'
  <2>1. /\ lock' = Nobody /\ main' = main
        /\ io'[s].at = "busy" /\ \A u \in Servers \ {s} : io'[u] = io[u]
    BY <1>10, IoStep DEF Write, FinishSave
  <2>2. \/ io[s].at = "mutating" /\ UNCHANGED <<saves, dataChanged>>
        \/ /\ io[s].at = "saving" /\ saves'[s] = "idle"
           /\ \A c \in Callers \ {s} : saves'[c] = saves[c]
    BY <1>10, SavesStep, CallersAssumption DEF Write, FinishSave, storageVars
  <2>3. \A u \in Servers \ {s} : io[u].at \notin {"mutating", "saving"}
    BY <2>2 DEF LockIsOwned
  <2>4. LockIsOwned' /\ MutatingIsDirty'
    BY <2>1, <2>3, CallersAssumption DEF LockIsOwned, MutatingIsDirty
  <2>5. SaversAreSaving'
    BY <2>1, <2>2, CallersAssumption DEF SaversAreSaving
  <2>6. IoThreadsEnded'
    BY <2>1, <2>2 DEF IoThreadsEnded
  <2> QED BY <2>4, <2>5, <2>6
<1>11. ASSUME NEW c \in Callers, CallerCloses(c) PROVE ControlInv'
  <2>1. \A d \in Callers : saves'[d] = "idle" <=> saves[d] = "idle"
    BY <1>11, SavesStep DEF CallerCloses
  <2>2. UNCHANGED <<lock, dataChanged, io, main>>
    BY <1>11 DEF CallerCloses, processVars
  <2> QED BY <2>1, <2>2, CallersAssumption
          DEF LockIsOwned, SaversAreSaving, IoThreadsEnded, MutatingIsDirty
<1>12. ASSUME NEW c \in Callers, NEW i \in Positions, Worker(c, i)
       PROVE  ControlInv'
  <2>1. CASE WorkerFaults(c, i)
    BY <2>1, GoneKeepsControl DEF WorkerFaults, Die, Ends
  <2>2. CASE ~WorkerFaults(c, i)
    <3>1. UNCHANGED <<saves, lock, dataChanged, io, main>>
      BY <1>12, <2>2 DEF Worker, WorkerSerialises, WorkerOpens, WorkerWrites,
         Serialise, OpenFile, WriteFile, processVars
    <3> QED BY <3>1
            DEF LockIsOwned, SaversAreSaving, IoThreadsEnded, MutatingIsDirty
  <2> QED BY <2>1, <2>2
<1> QED
  BY <1>1, <1>2, <1>3, <1>4, <1>5, <1>6, <1>7, <1>8, <1>9, <1>10, <1>11, <1>12
  DEF Next, MainThread, IoThread, Client

-----------------------------------------------------------------------------
(* One save at a time, and nothing else at that time.                      *)
LEMMA SaverExcludes ==
  ASSUME ControlInv, NEW c \in Callers, saves[c] # "idle"
  PROVE  /\ \A d \in Callers : saves[d] # "idle" => d = c
         /\ \A s \in Servers : io[s].at # "mutating"
         /\ main \notin {"boot", "loaded", "leaving"} \cup Ends
BY CallersAssumption
DEF ControlInv, LockIsOwned, SaversAreSaving, IoThreadsEnded, Ends

LEMMA WriterExcludes ==
  ASSUME ControlInv, NEW s \in Servers, io[s].at \in {"busy", "mutating", "saving"}
  PROVE  /\ main \notin {"boot", "loaded", "saving", "leaving"} \cup Ends
         /\ io[s].at = "mutating" \/ lock = Nobody =>
              \A c \in Callers : saves[c] = "idle"
BY CallersAssumption
DEF ControlInv, LockIsOwned, SaversAreSaving, IoThreadsEnded, Ends

(* When its threads are done, a save has written what is in memory.        *)
LEMMA DoneSaveRestores ==
  ASSUME TypeInv, DataInv, NEW c \in Callers, saves[c] = "joining",
         \A i \in Positions : workers[c][i].at = "done"
  PROVE  Restores(m)
<1>1. manifest = "full"
  BY DEF DataInv, JoiningHasManifest
<1>2. \A i \in Positions : files[i] = Whole(m[i])
  BY DEF DataInv, WorkersOK, WorkerOK
<1>3. Loadable
  BY <1>1, <1>2, ContentsAre DEF Loadable
<1>4. m = syncLoad
  BY <1>2, ContentsAre DEF syncLoad, TypeInv, TypeOK
<1> QED BY <1>1, <1>3, <1>4 DEF Restores, checkManifest

(* The directory restores what it did as long as no file changes.          *)
LEMMA SameRestores ==
  ASSUME UNCHANGED <<manifest, files, m>>
  PROVE  Restores(m)' <=> Restores(m)
BY DEF Restores, checkManifest, Loadable, syncLoad

(* No save, no thread of a save.                                           *)
LEMMA IdleWorkers ==
  ASSUME \A c \in Callers : saves'[c] = "idle",
         \A c \in Callers, i \in Positions : workers'[c][i].at = "none"
  PROVE  WorkersOK' /\ JoiningHasManifest'
BY DEF WorkersOK, WorkerOK, JoiningHasManifest

(* Steps that only move the main thread or an IO thread along.             *)
LEMMA QuietDataStep ==
  ASSUME DataInv, UNCHANGED <<storageVars, m, dataChanged, lock>>,
         \/ main' = main
         \/ /\ main \notin {"boot", "leaving"} \cup Ends
            /\ main' \notin {"boot", "leaving"} \cup Ends
  PROVE  DataInv'
<1>1. UNCHANGED <<manifest, files, saves, workers>>
  BY DEF storageVars
<1>2. Restores(m)' <=> Restores(m)
  BY <1>1, SameRestores
<1>3. WorkersOK' /\ JoiningHasManifest'
  BY <1>1 DEF DataInv, WorkersOK, WorkerOK, JoiningHasManifest
<1>4. LeavingIsSaved' /\ BootIsEmpty'
  BY <1>2 DEF DataInv, LeavingIsSaved, BootIsEmpty, Ends
<1>5. CleanMeansSaved'
  BY <1>1, <1>2 DEF DataInv, CleanMeansSaved, Up, NoSave, Ends
<1> QED BY <1>3, <1>4, <1>5 DEF DataInv

(* Steps that end with a save under way make no claim but on its threads.  *)
LEMMA SavingDataStep ==
  ASSUME WorkersOK', JoiningHasManifest', NEW c \in Callers, saves'[c] # "idle",
         main' \notin {"boot", "leaving", "exited"}
  PROVE  DataInv'
<1>1. ~NoSave'
  BY DEF NoSave
<1> QED BY <1>1 DEF DataInv, LeavingIsSaved, BootIsEmpty, CleanMeansSaved

LEMMA DieKeepsData ==
  ASSUME NEW end \in {"aborted", "killed"}, Die(end)
  PROVE  DataInv'
<1>1. FreshProcess /\ CutSaves /\ main' = end
  BY DEF Die
<1>2. WorkersOK' /\ JoiningHasManifest'
  BY <1>1, GoneIsQuiet, IdleWorkers
<1> QED BY <1>1, <1>2 DEF DataInv, LeavingIsSaved, BootIsEmpty, CleanMeansSaved,
                          Up, Ends

(* A thread of the only save that is under way moves on, and all other     *)
(* threads have none to move.                                              *)
LEMMA WorkerDataStep ==
  ASSUME TypeInv, ControlInv, DataInv, NEW c \in Callers, NEW i \in Positions,
         workers[c][i].at # "none", workers'[c][i].at # "none",
         UNCHANGED <<manifest, saves, m, main>>,
         \A d \in Callers, j \in Positions :
           <<d, j>> # <<c, i>> => workers'[d][j] = workers[d][j],
         \A j \in Positions \ {i} : files'[j] = files[j],
         workers'[c][i].at \in {"serialised", "opened"} =>
           workers'[c][i].data = Whole(m[i]),
         workers'[c][i].at = "opened" => files'[i] = Empty,
         workers'[c][i].at = "done" => files'[i] = Whole(m[i])
  PROVE  DataInv'
<1>1. saves[c] # "idle"
  BY DEF DataInv, WorkersOK, WorkerOK
<1>2. /\ main \notin {"boot", "leaving", "exited"}
      /\ \A d \in Callers \ {c} : saves[d] = "idle"
  BY <1>1, SaverExcludes DEF Ends
<1>3. ASSUME NEW d \in Callers, NEW j \in Positions PROVE WorkerOK(d, j)'
  <2>1. CASE d = c /\ j = i
    BY <1>1, <2>1 DEF WorkerOK
  <2>2. CASE d = c /\ j # i
    <3>1. workers'[d][j] = workers[d][j] /\ files'[j] = files[j]
      BY <2>2
    <3> QED BY <3>1 DEF DataInv, WorkersOK, WorkerOK
  <2>3. CASE d # c
    <3>1. workers'[d][j] = workers[d][j] /\ saves[d] = "idle"
      BY <1>2, <2>3
    <3>2. workers[d][j].at = "none"
      BY <3>1 DEF DataInv, WorkersOK, WorkerOK
    <3> QED BY <3>1, <3>2 DEF WorkerOK
  <2> QED BY <2>1, <2>2, <2>3
<1>4. WorkersOK' /\ JoiningHasManifest'
  BY <1>3 DEF WorkersOK, DataInv, JoiningHasManifest
<1> QED BY <1>1, <1>2, <1>4, SavingDataStep

LEMMA DataStep ==
  ASSUME Mild, TypeInv, ControlInv, DataInv, [Next]_vars
  PROVE  DataInv'
<1>1. CASE UNCHANGED vars
  BY <1>1, QuietDataStep DEF vars, processVars
<1>2. CASE Load
  <2>1. /\ UNCHANGED <<manifest, files, saves, workers>>
        /\ main = "boot" /\ main' = "loaded"
    BY <1>2 DEF Load, storageVars
  <2>2. Restores(m')
    BY <1>2 DEF Load, Restores, DataInv, BootIsEmpty
  <2>3. Restores(m)'
    BY <2>1, <2>2 DEF Restores, checkManifest, Loadable, syncLoad
  <2>4. \A c \in Callers : saves[c] = "idle"
    BY <2>1, SaverExcludes
  <2>5. \A c \in Callers, i \in Positions : workers[c][i].at = "none"
    BY <2>4 DEF DataInv, WorkersOK, WorkerOK
  <2>6. WorkersOK' /\ JoiningHasManifest'
    BY <2>1, <2>4, <2>5, IdleWorkers
  <2> QED BY <2>1, <2>3, <2>6
          DEF DataInv, LeavingIsSaved, BootIsEmpty, CleanMeansSaved
<1>3. CASE LoadFails \/ Kill
           \/ \E s \in Servers : BindFails(s) \/ RemoveEnds(s) \/ Quit(s) \/ Reject(s)
  BY <1>3, DieKeepsData DEF LoadFails, Kill, BindFails, RemoveEnds, Quit, Reject
<1>4. CASE Exit
  <2>1. /\ FreshProcess /\ CutSaves
        /\ main = "leaving" /\ main' = "exited" /\ m' = m
    BY <1>4 DEF Exit
  <2>0. \A c \in Callers, i \in Positions : workers[c][i].at = "none"
    BY <2>1, SaverExcludes DEF DataInv, WorkersOK, WorkerOK
  <2>2. Restores(m)'
    BY <2>0, <2>1, GoneIsQuiet, GoneKeepsFiles, SameRestores
    DEF DataInv, LeavingIsSaved
  <2>3. WorkersOK' /\ JoiningHasManifest'
    BY <2>1, GoneIsQuiet, IdleWorkers
  <2> QED BY <2>1, <2>2, <2>3
          DEF DataInv, LeavingIsSaved, BootIsEmpty, CleanMeansSaved
<1>5. CASE StartServers \/ LeaveLoop \/ FallAsleep \/ Sigterm
           \/ (\E s \in Servers : StopServer(s))
           \/ \E s \in Servers : Bind(s) \/ Receive(s) \/ Read(s) \/ Reply(s) \/ IoEnds(s)
  <2>1. UNCHANGED <<storageVars, m, dataChanged, lock>>
    BY <1>5 DEF StartServers, LeaveLoop, FallAsleep, Sigterm, StopServer,
                Bind, Receive, Read, Reply, IoEnds
  <2>2. \/ main' = main
        \/ /\ main \in {"loaded", "looping", "stopping"}
           /\ main' \in {"looping", "stopping", "sleeping"}
    BY <1>5 DEF StartServers, LeaveLoop, FallAsleep, Sigterm, StopServer,
                Bind, Receive, Read, Reply, IoEnds
  <2> QED BY <2>1, <2>2, QuietDataStep DEF Ends
<1>6. CASE NoChanges
  <2>1. \A s \in Servers : io[s].at = "stopped"
    BY <1>6 DEF NoChanges, GraceOver, Mild
  <2>2. lock = Nobody /\ NoSave
    BY <1>6, <2>1, CallersAssumption
    DEF NoChanges, ControlInv, LockIsOwned, SaversAreSaving, TypeInv, TypeOK, NoSave
  <2>3. Restores(m)
    BY <1>6, <2>2 DEF NoChanges, DataInv, CleanMeansSaved, Up, Ends
  <2>4. UNCHANGED <<manifest, files, saves, workers, m>> /\ main' = "leaving"
    BY <1>6 DEF NoChanges, storageVars
  <2>5. Restores(m)'
    BY <2>3, <2>4, SameRestores
  <2>6. WorkersOK' /\ JoiningHasManifest'
    BY <2>4 DEF DataInv, WorkersOK, WorkerOK, JoiningHasManifest
  <2> QED BY <2>4, <2>5, <2>6
          DEF DataInv, LeavingIsSaved, BootIsEmpty, CleanMeansSaved
<1>7. ASSUME NEW c \in Callers, BeginSave(c), \A d \in Callers : saves[d] = "idle",
             main' \notin {"boot", "leaving", "exited"}
      PROVE  DataInv'
  <2>1. /\ saves'[c] = "writing"
        /\ \A d \in Callers \ {c} : saves'[d] = "idle"
    BY <1>7, SavesStep
  <2>2. \A d \in Callers, i \in Positions :
           workers'[d][i].at = IF d = c THEN "started" ELSE "none"
    BY <1>7 DEF BeginSave, TypeInv, TypeOK, StorageTypeOK, DataInv, WorkersOK, WorkerOK
  <2>3. WorkersOK' /\ JoiningHasManifest'
    BY <2>1, <2>2 DEF WorkersOK, WorkerOK, JoiningHasManifest
  <2> QED BY <1>7, <2>1, <2>3, SavingDataStep
<1>8. CASE BeginLastSave
  <2>1. \A s \in Servers : io[s].at = "stopped"
    BY <1>8 DEF BeginLastSave, GraceOver, Mild
  <2>2. \A c \in Callers : saves[c] = "idle"
    BY <1>8, <2>1, CallersAssumption DEF BeginLastSave, ControlInv, SaversAreSaving
  <2> QED BY <1>7, <1>8, <2>2, CallersAssumption DEF BeginLastSave
<1>9. ASSUME NEW s \in Servers, LockToSave(s) PROVE DataInv'
  <2>1. io[s].at = "busy" /\ lock = Nobody /\ BeginSave(s) /\ main' = main
    BY <1>9 DEF LockToSave, HasStatement
  <2>2. /\ main \notin {"boot", "leaving", "exited"}
        /\ \A c \in Callers : saves[c] = "idle"
    BY <2>1, WriterExcludes DEF Ends
  <2> QED BY <1>7, <2>1, <2>2, CallersAssumption
<1>10. ASSUME NEW c \in Callers, EndSave(c), UNCHANGED m,
              main' \notin {"boot"}
       PROVE  DataInv'
  <2>1. Restores(m)
    BY <1>10, DoneSaveRestores DEF EndSave
  <2>2. Restores(m)'
    BY <1>10, <2>1, SameRestores DEF EndSave
  <2>3. \A d \in Callers \ {c} : saves[d] = "idle"
    BY <1>10, SaverExcludes DEF EndSave
  <2>4. \A d \in Callers \ {c}, i \in Positions : workers[d][i].at = "none"
    BY <2>3 DEF DataInv, WorkersOK, WorkerOK
  <2>5. \A d \in Callers : saves'[d] = "idle"
    BY <1>10, <2>3, SavesStep
  <2>6. \A d \in Callers, i \in Positions : workers'[d][i].at = "none"
    BY <1>10, <2>4 DEF EndSave, NoWorker, TypeInv, TypeOK, StorageTypeOK
  <2>7. WorkersOK' /\ JoiningHasManifest'
    BY <2>5, <2>6, IdleWorkers
  <2> QED BY <1>10, <2>2, <2>7
          DEF DataInv, LeavingIsSaved, BootIsEmpty, CleanMeansSaved
<1>11. CASE EndLastSave
  BY <1>10, <1>11, CallersAssumption DEF EndLastSave
<1>12. ASSUME NEW s \in Servers, FinishSave(s) PROVE DataInv'
  <2>1. main # "boot"
    BY <1>12, WriterExcludes DEF FinishSave
  <2> QED BY <1>10, <1>12, <2>1, CallersAssumption DEF FinishSave
<1>13. ASSUME NEW s \in Servers, LockToWrite(s) PROVE DataInv'
  <2>1. /\ UNCHANGED <<manifest, files, saves, workers, m, main>>
        /\ dataChanged'
    BY <1>13 DEF LockToWrite, storageVars
  <2>2. Restores(m)' <=> Restores(m)
    BY <2>1, SameRestores
  <2>3. WorkersOK' /\ JoiningHasManifest'
    BY <2>1 DEF DataInv, WorkersOK, WorkerOK, JoiningHasManifest
  <2> QED BY <2>1, <2>2, <2>3
          DEF DataInv, LeavingIsSaved, BootIsEmpty, CleanMeansSaved
<1>14. ASSUME NEW s \in Servers, Write(s) PROVE DataInv'
  <2>1. /\ UNCHANGED <<manifest, files, saves, workers, main, dataChanged>>
        /\ io[s].at = "mutating"
    BY <1>14 DEF Write, storageVars
  <2>2. dataChanged'
    BY <2>1 DEF ControlInv, MutatingIsDirty
  <2>3. /\ main \notin {"boot", "leaving", "exited"}
        /\ \A c \in Callers : saves[c] = "idle"
    BY <2>1, WriterExcludes DEF Ends
  <2>4. \A c \in Callers, i \in Positions : workers[c][i].at = "none"
    BY <2>3 DEF DataInv, WorkersOK, WorkerOK
  <2>5. WorkersOK' /\ JoiningHasManifest'
    BY <2>1, <2>3, <2>4, IdleWorkers
  <2> QED BY <2>1, <2>2, <2>3, <2>5
          DEF DataInv, LeavingIsSaved, BootIsEmpty, CleanMeansSaved
<1>15. ASSUME NEW c \in Callers, CallerCloses(c) PROVE DataInv'
  <2>1. /\ saves[c] = "writing" /\ saves'[c] = "joining"
        /\ \A d \in Callers \ {c} : saves'[d] = saves[d]
        /\ manifest' = "full"
        /\ UNCHANGED <<files, workers, m, main>>
    BY <1>15, SavesStep DEF CallerCloses, CloseManifest, processVars, Mild
  <2>2. main \notin {"boot", "leaving", "exited"}
    BY <2>1, SaverExcludes DEF Ends
  <2>3. WorkersOK' /\ JoiningHasManifest'
    BY <2>1 DEF DataInv, WorkersOK, WorkerOK, JoiningHasManifest
  <2> QED BY <2>1, <2>2, <2>3, SavingDataStep
<1>16. ASSUME NEW c \in Callers, NEW i \in Positions, Worker(c, i)
       PROVE  DataInv'
  <2>0. workers \in [Callers -> [Positions -> [at : WorkerStages, data : Contents]]]
        /\ files \in [Positions -> Contents]
    BY DEF TypeInv, TypeOK, StorageTypeOK, WorkerStages
  <2>1. CASE WorkerFaults(c, i)
    BY <2>1, DieKeepsData DEF WorkerFaults
  <2>2. CASE WorkerSerialises(c, i)
    <3>1. saves[c] # "idle"
      BY <2>2 DEF WorkerSerialises, Serialise, DataInv, WorkersOK, WorkerOK
    <3>2. ~Racing(c)
      BY <3>1, SaverExcludes DEF Racing
    <3>3. Serialise(c, i, Whole(m[i])) /\ UNCHANGED processVars
      BY <2>2, <3>2 DEF WorkerSerialises
    <3>4. /\ workers[c][i].at = "started"
          /\ workers'[c][i] = [at |-> "serialised", data |-> Whole(m[i])]
          /\ \A d \in Callers, j \in Positions :
                <<d, j>> # <<c, i>> => workers'[d][j] = workers[d][j]
      BY <2>0, <3>3 DEF Serialise, Advance
    <3>5. UNCHANGED <<manifest, files, saves, m, main>>
      BY <3>3 DEF Serialise, processVars
    <3> QED BY <3>4, <3>5, WorkerDataStep
  <2>3. ASSUME NEW stage, NEW d0, Advance(c, i, stage, d0)
        PROVE  /\ workers'[c][i] = [at |-> stage, data |-> d0]
               /\ \A d \in Callers, j \in Positions :
                    <<d, j>> # <<c, i>> => workers'[d][j] = workers[d][j]
    BY <2>0, <2>3 DEF Advance
  <2>4. CASE WorkerOpens(c, i)
    <3>1. /\ workers[c][i].at = "serialised"
          /\ Advance(c, i, "opened", workers[c][i].data)
          /\ files' = [files EXCEPT ![i] = Empty]
          /\ UNCHANGED <<manifest, saves, m, main>>
      BY <2>4 DEF WorkerOpens, OpenFile, processVars, Mild
    <3>2. workers[c][i].data = Whole(m[i])
      BY <3>1 DEF DataInv, WorkersOK, WorkerOK
    <3>3. /\ workers'[c][i] = [at |-> "opened", data |-> Whole(m[i])]
          /\ \A d \in Callers, j \in Positions :
               <<d, j>> # <<c, i>> => workers'[d][j] = workers[d][j]
      BY <2>3, <3>1, <3>2
    <3> QED BY <2>0, <3>1, <3>3, WorkerDataStep
  <2>5. CASE WorkerWrites(c, i)
    <3>1. /\ workers[c][i].at = "opened"
          /\ Advance(c, i, "done", Missing)
          /\ \E new \in Overwritten(files[i], workers[c][i].data) :
                files' = [files EXCEPT ![i] = new]
          /\ UNCHANGED <<manifest, saves, m, main>>
      BY <2>5 DEF WorkerWrites, WriteFile, processVars, Mild
    <3>2. workers[c][i].data = Whole(m[i]) /\ files[i] = Empty
      BY <3>1 DEF DataInv, WorkersOK, WorkerOK
    <3>3. files' = [files EXCEPT ![i] = Whole(m[i])]
      BY <3>1, <3>2 DEF Overwritten
    <3>4. /\ workers'[c][i] = [at |-> "done", data |-> Missing]
          /\ \A d \in Callers, j \in Positions :
               <<d, j>> # <<c, i>> => workers'[d][j] = workers[d][j]
      BY <2>3, <3>1
    <3> QED BY <2>0, <3>1, <3>3, <3>4, WorkerDataStep
  <2> QED BY <1>16, <2>1, <2>2, <2>4, <2>5 DEF Worker
<1>17. CASE Restart
  <2>1. /\ UNCHANGED <<saves, workers>>
        /\ main \in Ends /\ main' = "boot" /\ m' = emptyMap
    BY <1>17 DEF Restart, storageVars, Up
  <2>2. \A c \in Callers : saves[c] = "idle"
    BY <2>1, SaverExcludes
  <2>3. \A c \in Callers, i \in Positions : workers[c][i].at = "none"
    BY <2>2 DEF DataInv, WorkersOK, WorkerOK
  <2>4. WorkersOK' /\ JoiningHasManifest'
    BY <2>1, <2>2, <2>3, IdleWorkers
  <2>5. BootIsEmpty'
    BY <2>1 DEF BootIsEmpty, emptyMap
  <2> QED BY <2>1, <2>4, <2>5 DEF DataInv, LeavingIsSaved, CleanMeansSaved
<1> QED
  BY <1>1, <1>2, <1>3, <1>4, <1>5, <1>6, <1>8, <1>9, <1>11, <1>12, <1>13,
     <1>14, <1>15, <1>16, <1>17
  DEF Next, MainThread, IoThread, Client

-----------------------------------------------------------------------------
LEMMA SaveInit == Init => SaveInv
<1> SUFFICES ASSUME Init PROVE SaveInv
  OBVIOUS
<1>1. TypeInv
  BY TypeInit
<1>2. \A s \in Servers : io[s].at = "off"
  BY DEF Init, Off
<1>3. \A c \in Callers : saves[c] = "idle"
  BY DEF Init, StorageInit
<1>4. ControlInv
  BY <1>2, <1>3, CallersAssumption
  DEF Init, ControlInv, LockIsOwned, SaversAreSaving, IoThreadsEnded, MutatingIsDirty
<1>5. WorkersOK
  BY <1>3 DEF Init, StorageInit, NoWorker, WorkersOK, WorkerOK
<1>6. DataInv
  BY <1>3, <1>5
  DEF Init, DataInv, JoiningHasManifest, LeavingIsSaved, BootIsEmpty, CleanMeansSaved
<1> QED BY <1>1, <1>4, <1>6 DEF SaveInv

LEMMA SaveStep == Mild /\ SaveInv /\ [Next]_vars => SaveInv'
BY TypeStep, ControlStep, DataStep DEF SaveInv

LEMMA SaveInvAlways == ASSUME Mild PROVE Spec => []SaveInv
<1>1. SaveInv /\ [Next]_vars => SaveInv'
  BY SaveStep
<1> QED BY SaveInit, <1>1, PTL DEF Spec

(* A clean dirty flag means that the directory restores the multimaps,     *)
(* whenever nobody changes or saves them: TrisDb::run may rely on it.      *)
THEOREM CleanAlwaysSaved == ASSUME Mild PROVE Spec => []CleanMeansSaved
<1>1. SaveInv => CleanMeansSaved
  BY DEF SaveInv, DataInv
<1> QED BY SaveInvAlways, <1>1, PTL

(* A process that leaves through the end of main has its data on disk.     *)
THEOREM ExitsKeepData == ASSUME Mild PROVE Spec => []ExitKeepsData
<1>1. SaveInv => ExitKeepsData
  BY DEF SaveInv, DataInv, LeavingIsSaved, ExitKeepsData
<1> QED BY SaveInvAlways, <1>1, PTL

(* Whenever syncSave returns, the directory restores the multimaps as they *)
(* are at that moment.                                                     *)
THEOREM SavesAreSnapshots == ASSUME Mild PROVE Spec => SaveIsSnapshot
<1>1. ASSUME SaveInv, Next, NEW c \in Callers,
             saves[c] # "idle", saves'[c] = "idle",
             main' \notin {"killed", "aborted"}
      PROVE  Restores(m)
  <2>1. ASSUME NEW d \in Callers, EndSave(d)
        PROVE  Restores(m)
    BY <1>1, <2>1, DoneSaveRestores DEF EndSave, SaveInv
  <2>2. main # "leaving"
    BY <1>1, SaverExcludes DEF SaveInv
  <2>3. ASSUME NEW d \in Callers, BeginSave(d) \/ CloseManifest(d)
        PROVE  FALSE
    BY <1>1, <2>3, SavesStep DEF SaveInv
  <2>4. CASE MainThread
    BY <1>1, <2>1, <2>2, <2>3, <2>4, CallersAssumption
    DEF MainThread, Load, LoadFails, StartServers, LeaveLoop, StopServer, FallAsleep,
        BeginLastSave, NoChanges, EndLastSave, Exit, Die, storageVars
  <2>5. ASSUME NEW s \in Servers, IoThread(s) \/ Client(s) \/ BindFails(s) \/ RemoveEnds(s)
        PROVE  Restores(m)
    BY <1>1, <2>1, <2>3, <2>5, CallersAssumption
    DEF IoThread, Client, Bind, Read, LockToWrite, Write, LockToSave, FinishSave, Quit,
        Reject, Reply, IoEnds, Receive, BindFails, RemoveEnds, Die, storageVars
  <2>6. ASSUME NEW d \in Callers, NEW i \in Positions, Worker(d, i)
        PROVE  FALSE
    BY <1>1, <2>6 DEF Worker, WorkerSerialises, WorkerFaults, WorkerOpens,
        WorkerWrites, Serialise, OpenFile, WriteFile, Die
  <2>7. CASE Sigterm \/ Kill \/ Restart
    BY <1>1, <2>7 DEF Sigterm, Kill, Restart, Die, storageVars
  <2> QED BY <1>1, <2>3, <2>4, <2>5, <2>6, <2>7 DEF Next, CallerCloses
<1>2. SaveInv /\ [Next]_vars =>
        [\A c \in Callers :
            saves[c] # "idle" /\ saves'[c] = "idle" /\ main' \notin {"killed", "aborted"}
              => Restores(m)]_vars
  BY <1>1
<1> QED BY SaveInvAlways, <1>2, PTL DEF Spec, SaveIsSnapshot

-----------------------------------------------------------------------------
(* The process implements Durability, under the same assumptions.          *)

Stores == [Positions -> SmallBags]

(* The directory, seen as the stores it restores.                          *)
LEMMA OnDiskIsRestores == OnDisk = {m} <=> Restores(m)
BY DEF OnDisk, Restores

LEMMA OnDiskTypes == ASSUME TypeInv' PROVE OnDisk' \in Durable!Disks
<1>1. emptyMap \in Stores
  BY BagsStaySmall DEF emptyMap, Stores
<1>2. syncLoad' \in Stores
  BY ContentsAre DEF syncLoad, Stores, TypeInv, TypeOK, StorageTypeOK
<1> QED BY <1>1, <1>2 DEF OnDisk, Durable!Disks, Stores

LEMMA SameDisk ==
  ASSUME UNCHANGED <<manifest, files>>
  PROVE  OnDisk' = OnDisk
BY DEF OnDisk, checkManifest, Loadable, syncLoad

LEMMA StatusIs ==
  /\ main \notin Ends \cup {"boot"} => Status = "up"
  /\ main = "exited" => Status = "exited"
  /\ main \in {"boot", "killed", "aborted"} => Status = "down"
BY DEF Status, Up, Ends

LEMMA StatusIsNext ==
  /\ main' \notin Ends \cup {"boot"} => Status' = "up"
  /\ main' = "exited" => Status' = "exited"
  /\ main' \in {"boot", "killed", "aborted"} => Status' = "down"
BY DEF Status, Up, Ends

(* Steps of the threads that neither the store nor the directory shows.    *)
LEMMA QuietIsStutter ==
  ASSUME UNCHANGED <<manifest, files, saves, m>>,
         main' = main \/ (Status = "up" /\ Status' = "up")
  PROVE  UNCHANGED Durable!vars
<1>1. OnDisk' = OnDisk
  BY SameDisk
<1>2. Status' = Status
  BY DEF Status, Up
<1>3. NoSave' = NoSave
  BY DEF NoSave
<1> QED BY <1>1, <1>2, <1>3 DEF Durable!vars

(* The end of the process: without a save under way no file changes.       *)
LEMMA DieIsCrash ==
  ASSUME SaveInv, TypeInv', NEW end \in {"aborted", "killed"}, Die(end)
  PROVE  Durable!Crash
<1>1. FreshProcess /\ CutSaves /\ main' = end /\ m' = emptyMap
  BY DEF Die
<1>2. NoSave' /\ Status' = "down"
  BY <1>1, GoneIsQuiet, StatusIsNext DEF NoSave
<1>3. OnDisk' \in Durable!Disks
  BY OnDiskTypes
<1>4. ASSUME NoSave PROVE OnDisk' = OnDisk
  <2>1. \A c \in Callers, i \in Positions : workers[c][i].at = "none"
    BY <1>4 DEF NoSave, SaveInv, DataInv, WorkersOK, WorkerOK
  <2>2. UNCHANGED <<manifest, files>>
    BY <1>1, <2>1, GoneIsQuiet, GoneKeepsFiles DEF SaveInv
  <2> QED BY <2>2, SameDisk
<1> QED BY <1>1, <1>2, <1>3, <1>4 DEF Durable!Crash

(* The main thread is between start and exit, before and after the step.   *)
Running == main \notin Ends \cup {"boot"} /\ main' \notin Ends \cup {"boot"}

LEMMA RunningIsUp == Running => Status = "up" /\ Status' = "up"
BY StatusIs, StatusIsNext DEF Running

LEMMA BeginIsBegin ==
  ASSUME TypeInv, TypeInv', NEW c \in Callers, BeginSave(c), NoSave, m' = m, Running
  PROVE  Durable!BeginSave
<1>1. saves'[c] = "writing"
  BY SavesStep
<1>2. ~NoSave'
  BY <1>1 DEF NoSave
<1> QED BY <1>2, OnDiskTypes, RunningIsUp DEF Durable!BeginSave

LEMMA EndIsEnd ==
  ASSUME SaveInv, NEW c \in Callers, EndSave(c), m' = m, Running
  PROVE  Durable!EndSave
<1>1. saves[c] = "joining" /\ UNCHANGED <<manifest, files>>
  BY DEF EndSave
<1>2. OnDisk = {m}
  BY DoneSaveRestores, OnDiskIsRestores DEF EndSave, SaveInv
<1>3. \A d \in Callers \ {c} : saves[d] = "idle"
  BY <1>1, SaverExcludes DEF SaveInv
<1>4. ~NoSave /\ NoSave'
  BY <1>1, <1>3, SavesStep DEF NoSave, SaveInv
<1> QED BY <1>1, <1>2, <1>4, SameDisk, RunningIsUp DEF Durable!EndSave

(* A thread of a save, or its caller, has changed a file.                  *)
LEMMA WriteIsSave ==
  ASSUME TypeInv', NEW c \in Callers, saves[c] # "idle", saves'[c] # "idle",
         UNCHANGED <<m, main>>
  PROVE  Durable!Save
<1>1. ~NoSave /\ ~NoSave'
  BY DEF NoSave
<1>2. Status' = Status
  BY DEF Status, Up
<1> QED BY <1>1, <1>2, OnDiskTypes DEF Durable!Save

-----------------------------------------------------------------------------
LEMMA StepIsStep ==
  ASSUME Mild, SaveInv, SaveInv', [Next]_vars
  PROVE  [Durable!Next]_(Durable!vars)
<1> USE DEF SaveInv
<1> DEFINE Implements == [Durable!Next]_(Durable!vars)
<1>1. CASE UNCHANGED vars
  BY <1>1, QuietIsStutter DEF vars, storageVars, processVars
<1>2. CASE Load
  <2>1. /\ UNCHANGED <<manifest, files, saves>>
        /\ main = "boot" /\ main' = "loaded"
    BY <1>2 DEF Load, storageVars
  <2>2. m' \in OnDisk
    BY <1>2 DEF Load, OnDisk, DataInv, BootIsEmpty
  <2>3. NoSave' = NoSave
    BY <2>1 DEF NoSave
  <2> QED BY <2>1, <2>2, <2>3, SameDisk, StatusIs, StatusIsNext
          DEF Durable!Next, Durable!Start, Ends
<1>3. CASE LoadFails \/ Kill
           \/ (\E s \in Servers : BindFails(s) \/ RemoveEnds(s) \/ Quit(s) \/ Reject(s))
           \/ (\E c \in Callers, i \in Positions : WorkerFaults(c, i))
  <2>1. \E end \in {"aborted", "killed"} : Die(end)
    BY <1>3 DEF LoadFails, Kill, BindFails, RemoveEnds, Quit, Reject, WorkerFaults
  <2> QED BY <2>1, DieIsCrash DEF Durable!Next
<1>4. CASE Exit
  <2>1. /\ FreshProcess /\ CutSaves
        /\ main = "leaving" /\ main' = "exited" /\ m' = m
    BY <1>4 DEF Exit
  <2>2. NoSave
    BY <2>1, SaverExcludes DEF NoSave
  <2>3. \A c \in Callers, i \in Positions : workers[c][i].at = "none"
    BY <2>2 DEF NoSave, DataInv, WorkersOK, WorkerOK
  <2>4. OnDisk' = OnDisk
    BY <2>1, <2>3, GoneIsQuiet, GoneKeepsFiles, SameDisk
  <2>5. OnDisk = {m}
    BY <2>1, OnDiskIsRestores DEF DataInv, LeavingIsSaved
  <2>6. NoSave'
    BY <2>1, GoneIsQuiet DEF NoSave
  <2> QED BY <2>1, <2>2, <2>4, <2>5, <2>6, StatusIs, StatusIsNext
          DEF Durable!Next, Durable!Exit, Ends
<1>5. CASE StartServers \/ LeaveLoop \/ FallAsleep \/ NoChanges
  <2>1. UNCHANGED <<manifest, files, saves, m>> /\ Running
    BY <1>5 DEF StartServers, LeaveLoop, FallAsleep, NoChanges, storageVars, Running, Ends
  <2> QED BY <2>1, RunningIsUp, QuietIsStutter
<1>6. CASE Sigterm \/ (\E s \in Servers :
             \/ StopServer(s) \/ Bind(s) \/ Receive(s) \/ Read(s) \/ Reply(s)
             \/ IoEnds(s) \/ LockToWrite(s))
  <2>1. UNCHANGED <<manifest, files, saves, m, main>>
    BY <1>6 DEF Sigterm, StopServer, Bind, Receive, Read, Reply, IoEnds,
                LockToWrite, storageVars
  <2> QED BY <2>1, QuietIsStutter
<1>7. CASE BeginLastSave
  <2>1. NoSave
    <3>1. \A s \in Servers : io[s].at = "stopped"
      BY <1>7 DEF BeginLastSave, GraceOver, Mild
    <3> QED BY <1>7, <3>1, CallersAssumption
            DEF BeginLastSave, NoSave, ControlInv, SaversAreSaving
  <2>2. Main \in Callers /\ BeginSave(Main) /\ m' = m /\ Running
    BY <1>7, CallersAssumption DEF BeginLastSave, Running, Ends
  <2> QED BY <2>1, <2>2, BeginIsBegin DEF Durable!Next
<1>8. CASE EndLastSave
  <2>1. Main \in Callers /\ EndSave(Main) /\ m' = m /\ Running
    BY <1>8, CallersAssumption DEF EndLastSave, Running, Ends
  <2> QED BY <2>1, EndIsEnd DEF Durable!Next
<1>9. ASSUME NEW s \in Servers, LockToSave(s) PROVE Implements
  <2>1. NoSave
    BY <1>9, WriterExcludes DEF LockToSave, HasStatement, NoSave
  <2>2. main \notin Ends \cup {"boot"}
    BY <1>9, WriterExcludes DEF LockToSave, HasStatement
  <2>3. s \in Callers /\ BeginSave(s) /\ m' = m /\ Running
    BY <1>9, <2>2, CallersAssumption DEF LockToSave, Running
  <2> QED BY <2>1, <2>3, BeginIsBegin DEF Durable!Next
<1>10. ASSUME NEW s \in Servers, FinishSave(s) PROVE Implements
  <2>1. main \notin Ends \cup {"boot"}
    BY <1>10, WriterExcludes DEF FinishSave
  <2>2. s \in Callers /\ EndSave(s) /\ m' = m /\ Running
    BY <1>10, <2>1, CallersAssumption DEF FinishSave, Running
  <2> QED BY <2>2, EndIsEnd DEF Durable!Next
<1>11. ASSUME NEW s \in Servers, Write(s) PROVE Implements
  <2>1. /\ io[s].at = "mutating" /\ m' \in Stores
        /\ UNCHANGED <<manifest, files, saves, main>>
    BY <1>11 DEF Write, TypeInv, TypeOK, Stores, storageVars
  <2>2. main \notin Ends \cup {"boot"} /\ NoSave
    BY <2>1, WriterExcludes DEF NoSave
  <2>3. NoSave' = NoSave /\ Running
    BY <2>1, <2>2 DEF NoSave, Running
  <2> QED BY <2>1, <2>2, <2>3, SameDisk, RunningIsUp
          DEF Durable!Next, Durable!Change, Stores
<1>12. ASSUME NEW c \in Callers, CallerCloses(c) PROVE Implements
  <2>1. saves[c] = "writing" /\ saves'[c] = "joining" /\ UNCHANGED <<m, main>>
    BY <1>12, SavesStep DEF CallerCloses, processVars
  <2> QED BY <2>1, WriteIsSave DEF Durable!Next
<1>13. ASSUME NEW c \in Callers, NEW i \in Positions,
              WorkerSerialises(c, i) \/ WorkerOpens(c, i) \/ WorkerWrites(c, i)
       PROVE  Implements
  <2>1. /\ workers[c][i].at # "none"
        /\ UNCHANGED <<saves, m, main>>
    BY <1>13 DEF WorkerSerialises, WorkerOpens, WorkerWrites, Serialise, OpenFile,
                 WriteFile, processVars
  <2>2. saves[c] # "idle"
    BY <2>1 DEF DataInv, WorkersOK, WorkerOK
  <2> QED BY <2>1, <2>2, WriteIsSave DEF Durable!Next
<1>14. CASE Restart
  <2>1. /\ UNCHANGED <<manifest, files, saves>>
        /\ main \in Ends /\ main' = "boot" /\ m' = emptyMap
    BY <1>14 DEF Restart, storageVars, Up
  <2>2. NoSave /\ NoSave'
    BY <2>1, SaverExcludes DEF NoSave
  <2> QED BY <2>1, <2>2, SameDisk, StatusIsNext DEF Durable!Next, Durable!Crash
<1> QED
  BY <1>1, <1>2, <1>3, <1>4, <1>5, <1>6, <1>7, <1>8, <1>9, <1>10, <1>11, <1>12,
     <1>13, <1>14
  DEF Next, MainThread, IoThread, Client, Worker

LEMMA InitIsInit == Init => Durable!Init
<1> SUFFICES ASSUME Init PROVE Durable!Init
  OBVIOUS
<1>1. NoSave /\ OnDisk = {emptyMap}
  BY DEF Init, StorageInit, NoSave, OnDisk, checkManifest
<1>2. Status = "down"
  BY StatusIs DEF Init
<1> QED BY <1>1, <1>2 DEF Init, Durable!Init

(* Kills at any step included, the directory restores what the last save   *)
(* or the last clean exit left: TrisDb::save, TrisDb::run and syncSave     *)
(* together implement a store that promises no more than Durability does.  *)
THEOREM ProcessIsDurable == ASSUME Mild PROVE Spec => KeepsPromises
<1>1. SaveInv /\ SaveInv' /\ [Next]_vars => [Durable!Next]_(Durable!vars)
  BY StepIsStep
<1> QED BY InitIsInit, SaveInvAlways, <1>1, PTL DEF Spec, KeepsPromises, Durable!Spec
=============================================================================
