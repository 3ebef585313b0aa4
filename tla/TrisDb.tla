------------------------------- MODULE TrisDb -------------------------------
(***************************************************************************)
(* The server process: its main thread, which loads the database, starts   *)
(* the servers, waits for SIGTERM and saves; one IO thread per server,     *)
(* which executes the statements of one request at a time; the mutex and   *)
(* the dirty flag they share; and what is left when the process ends.      *)
(***************************************************************************)
EXTENDS StorageEngine

CONSTANTS
  Servers,       \* the IO threads: the TCP and the Unix socket server
  Main,          \* the main thread
  Statements,    \* the kinds of statements that clients send
  MaxStatements  \* bound: the statements of one request

Nobody == "nobody"

ASSUME CallersAssumption ==
  /\ Callers = Servers \cup {Main}
  /\ Main \notin Servers
  /\ Nobody \notin Servers
ASSUME StatementsAssumption ==
  Statements \subseteq {"read", "write", "save", "quit", "invalid"}
ASSUME MaxStatementsAssumption == MaxStatements \in Nat

VARIABLES
  m,            \* TrisDb::dbData
  dataChanged,  \* TrisDb::_dataChanged
  lock,         \* who holds TrisDb::_mutex exclusively
  main,         \* where the main thread is
  terminate,    \* TrisDb::_terminateLoop
  stopped,      \* the servers whose io_service was stopped
  io            \* io[s]: where the IO thread of s is, and the statements left

processVars == <<m, dataChanged, lock, main, terminate, stopped, io>>
vars == <<storageVars, processVars>>

Off == [at |-> "off", left |-> 0]

IoStages ==
  {"off", "starting", "idle", "busy", "mutating", "saving", "stopped"}

Phases ==
  {"boot", "loaded", "looping", "stopping", "sleeping", "saving", "leaving"}

(* The main thread is past the end of the process.                         *)
Ends == {"exited", "aborted", "killed"}

Up == main \notin Ends

(* The state every process starts in, and the one it leaves behind.        *)
FreshProcess ==
  /\ dataChanged' = FALSE
  /\ lock' = Nobody
  /\ terminate' = FALSE
  /\ stopped' = {}
  /\ io' = [s \in Servers |-> Off]

Init ==
  /\ StorageInit
  /\ m = emptyMap
  /\ dataChanged = FALSE
  /\ lock = Nobody
  /\ main = "boot"
  /\ terminate = FALSE
  /\ stopped = {}
  /\ io = [s \in Servers |-> Off]

(* All threads of the process are gone and its memory with them.           *)
Die(end) ==
  /\ main' = end
  /\ m' = emptyMap
  /\ FreshProcess
  /\ CutSaves

-----------------------------------------------------------------------------
(* TrisDb::run, main thread.                                               *)
(* Mutant of Load: the database is not loaded.                             *)
LoadNothing ==
  /\ main = "boot"
  /\ main' = "loaded"
  /\ UNCHANGED <<storageVars, m, dataChanged, lock, terminate, stopped, io>>

Load ==
  /\ main = "boot"
  /\ \/ /\ checkManifest
        /\ Loadable
        /\ m' = syncLoad
     \/ /\ ~checkManifest
        /\ UNCHANGED m
  /\ main' = "loaded"
  /\ UNCHANGED <<storageVars, dataChanged, lock, terminate, stopped, io>>

(* A loading thread throws: std::terminate.                                *)
LoadFails ==
  /\ main = "boot"
  /\ checkManifest
  /\ ~Loadable
  /\ Die("aborted")

StartServers ==
  /\ main = "loaded"
  /\ main' = "looping"
  /\ io' = [s \in Servers |-> [at |-> "starting", left |-> 0]]
  /\ UNCHANGED <<storageVars, m, dataChanged, lock, terminate, stopped>>

(* Mutant of LeaveLoop: the loop condition is inverted.                    *)
LeaveLoopEarly ==
  /\ main = "looping"
  /\ ~terminate
  /\ main' = "stopping"
  /\ UNCHANGED <<storageVars, m, dataChanged, lock, terminate, stopped, io>>

LeaveLoop ==
  /\ main = "looping"
  /\ terminate
  /\ main' = "stopping"
  /\ UNCHANGED <<storageVars, m, dataChanged, lock, terminate, stopped, io>>

(* io_service.stop() does not wait for the handler that is running.        *)
StopServer(s) ==
  /\ main = "stopping"
  /\ s \notin stopped
  /\ stopped' = stopped \cup {s}
  /\ UNCHANGED <<storageVars, m, dataChanged, lock, main, terminate, io>>

FallAsleep ==
  /\ main = "stopping"
  /\ stopped = Servers
  /\ main' = "sleeping"
  /\ UNCHANGED <<storageVars, m, dataChanged, lock, terminate, stopped, io>>

(* Mutant of GraceOver: nothing waits for the IO threads.                  *)
NoGrace == TRUE

(* After sleep(1) the IO threads have terminated, unless a request is slow.*)
GraceOver ==
  \/ \A s \in Servers : io[s].at = "stopped"
  \/ "slow" \in Faults

(* The dirty flag is read, and the last save starts, without the mutex.    *)
BeginLastSave ==
  /\ main = "sleeping"
  /\ GraceOver
  /\ dataChanged
  /\ BeginSave(Main)
  /\ main' = "saving"
  /\ UNCHANGED <<m, dataChanged, lock, terminate, stopped, io>>

NoChanges ==
  /\ main = "sleeping"
  /\ GraceOver
  /\ ~dataChanged
  /\ main' = "leaving"
  /\ UNCHANGED <<storageVars, m, dataChanged, lock, terminate, stopped, io>>

EndLastSave ==
  /\ main = "saving"
  /\ EndSave(Main)
  /\ main' = "leaving"
  /\ UNCHANGED <<m, dataChanged, lock, terminate, stopped, io>>

(* main returns, whatever the IO threads are doing.  m keeps what the      *)
(* process knew.                                                           *)
Exit ==
  /\ main = "leaving"
  /\ main' = "exited"
  /\ FreshProcess
  /\ CutSaves
  /\ UNCHANGED m

-----------------------------------------------------------------------------
Goto(s, at) == io' = [io EXCEPT ![s] = [at |-> at, left |-> @.left]]

(* The IO thread of server s.  Once its io_service is stopped it starts no *)
(* further handler.                                                        *)
Bind(s) ==
  /\ io[s].at = "starting"
  /\ Goto(s, "idle")
  /\ UNCHANGED <<storageVars, m, dataChanged, lock, main, terminate, stopped>>

(* The acceptor's constructor throws in the IO thread: std::terminate.     *)
BindFails(s) ==
  /\ "bind" \in Faults
  /\ io[s].at = "starting"
  /\ Die("killed")

Receive(s) ==
  /\ io[s].at = "idle"
  /\ s \notin stopped
  /\ \E n \in 0..MaxStatements : io' = [io EXCEPT ![s] = [at |-> "busy", left |-> n]]
  /\ UNCHANGED <<storageVars, m, dataChanged, lock, main, terminate, stopped>>

(* Mutant of HasStatement: the loop over the request runs once too often.  *)
HasStatementAtEnd(s) == io[s].at = "busy" /\ io[s].left >= 0

HasStatement(s) == io[s].at = "busy" /\ io[s].left > 0

NextStatement(s) == io' = [io EXCEPT ![s] = [at |-> "busy", left |-> @.left - 1]]

(* GET, COUNT and STATUS take the mutex shared: no writer may hold it.     *)
Read(s) ==
  /\ "read" \in Statements
  /\ HasStatement(s)
  /\ lock = Nobody
  /\ NextStatement(s)
  /\ UNCHANGED <<storageVars, m, dataChanged, lock, main, terminate, stopped>>

(* CREATE, DELETE and CLEAR: the mutex and the dirty flag come first ...   *)
LockToWrite(s) ==
  /\ "write" \in Statements
  /\ HasStatement(s)
  /\ lock = Nobody
  /\ lock' = s
  /\ dataChanged' = TRUE
  /\ Goto(s, "mutating")
  /\ UNCHANGED <<storageVars, m, main, terminate, stopped>>

Mutations ==
  {add(m, t) : t \in {u \in Universe : \A i \in Positions : m[i][u] < MaxCopies}}
    \cup {remove(m, p) : p \in Patterns}
    \cup {clearAll}

(* ... and the multimaps change before the mutex is released.              *)
Write(s) ==
  /\ io[s].at = "mutating"
  /\ m' \in Mutations
  /\ lock' = Nobody
  /\ NextStatement(s)
  /\ UNCHANGED <<storageVars, dataChanged, main, terminate, stopped>>

(* ... unless it is a DELETE: TripleMap::remove flows off its end, where   *)
(* it owes its caller a bool, and that may end the process.                *)
RemoveEnds(s) ==
  /\ "write" \in Statements
  /\ io[s].at = "mutating"
  /\ Die("killed")

(* Mutant of LockToSave: the mutex is let go before syncSave.              *)
SaveUnlocked(s) ==
  /\ "save" \in Statements
  /\ HasStatement(s)
  /\ lock = Nobody
  /\ BeginSave(s)
  /\ Goto(s, "saving")
  /\ UNCHANGED <<m, dataChanged, lock, main, terminate, stopped>>

(* SAVE: TrisDb::save holds the mutex during the whole of syncSave and     *)
(* clears the dirty flag before it lets go.                                *)
LockToSave(s) ==
  /\ "save" \in Statements
  /\ HasStatement(s)
  /\ lock = Nobody
  /\ lock' = s
  /\ BeginSave(s)
  /\ Goto(s, "saving")
  /\ UNCHANGED <<m, dataChanged, main, terminate, stopped>>

(* Mutant of FinishSave: the mutex stays locked.                           *)
FinishSaveLocked(s) ==
  /\ io[s].at = "saving"
  /\ EndSave(s)
  /\ dataChanged' = FALSE
  /\ NextStatement(s)
  /\ UNCHANGED <<m, lock, main, terminate, stopped>>

FinishSave(s) ==
  /\ io[s].at = "saving"
  /\ EndSave(s)
  /\ dataChanged' = FALSE
  /\ lock' = Nobody
  /\ NextStatement(s)
  /\ UNCHANGED <<m, main, terminate, stopped>>

(* QUIT calls exit(0) in the IO thread.                                    *)
Quit(s) ==
  /\ "quit" \in Statements
  /\ HasStatement(s)
  /\ Die("killed")

(* A statement that does not parse throws in the handler, and nothing      *)
(* catches it: std::terminate.                                             *)
Reject(s) ==
  /\ "invalid" \in Statements
  /\ HasStatement(s)
  /\ Die("killed")

Reply(s) ==
  /\ io[s].at = "busy"
  /\ io[s].left = 0
  /\ Goto(s, "idle")
  /\ UNCHANGED <<storageVars, m, dataChanged, lock, main, terminate, stopped>>

IoEnds(s) ==
  /\ io[s].at = "idle"
  /\ s \in stopped
  /\ Goto(s, "stopped")
  /\ UNCHANGED <<storageVars, m, dataChanged, lock, main, terminate, stopped>>

-----------------------------------------------------------------------------
(* A saving thread reads a multimap that some other thread is changing:    *)
(* what it serialises may be anything, and it may follow a dangling link.  *)
Racing(c) == \E s \in Servers \ {c} : io[s].at = "mutating"

WorkerSerialises(c, i) ==
  /\ \/ Serialise(c, i, Whole(m[i]))
     \/ Racing(c) /\ \E data \in Damaged : Serialise(c, i, data)
  /\ UNCHANGED processVars

WorkerFaults(c, i) ==
  /\ workers[c][i].at = "started"
  /\ Racing(c)
  /\ Die("killed")

WorkerOpens(c, i) == OpenFile(c, i) /\ UNCHANGED processVars

WorkerWrites(c, i) == WriteFile(c, i) /\ UNCHANGED processVars

CallerCloses(c) == CloseManifest(c) /\ UNCHANGED processVars

-----------------------------------------------------------------------------
(* The operator, and the machine.                                          *)
Sigterm ==
  /\ Up
  /\ ~terminate
  /\ terminate' = TRUE
  /\ UNCHANGED <<storageVars, m, dataChanged, lock, main, stopped, io>>

Kill ==
  /\ "crash" \in Faults
  /\ Up
  /\ Die("killed")

Restart ==
  /\ ~Up
  /\ main' = "boot"
  /\ m' = emptyMap
  /\ UNCHANGED <<storageVars, dataChanged, lock, terminate, stopped, io>>

-----------------------------------------------------------------------------
MainThread ==
  \/ Load
  \/ LoadFails
  \/ StartServers
  \/ LeaveLoop
  \/ \E s \in Servers : StopServer(s)
  \/ FallAsleep
  \/ BeginLastSave
  \/ NoChanges
  \/ EndLastSave
  \/ Exit

(* What the IO thread does once a client has sent a request.  Whether that *)
(* ends the process is for the client to say.                              *)
IoThread(s) ==
  \/ Bind(s)
  \/ Read(s)
  \/ LockToWrite(s)
  \/ Write(s)
  \/ LockToSave(s)
  \/ FinishSave(s)
  \/ Reply(s)
  \/ IoEnds(s)

Client(s) == Receive(s) \/ Quit(s) \/ Reject(s)

Worker(c, i) ==
  \/ WorkerSerialises(c, i)
  \/ WorkerFaults(c, i)
  \/ WorkerOpens(c, i)
  \/ WorkerWrites(c, i)

Next ==
  \/ MainThread
  \/ \E s \in Servers : IoThread(s) \/ Client(s) \/ BindFails(s) \/ RemoveEnds(s)
  \/ \E c \in Callers : CallerCloses(c) \/ \E i \in Positions : Worker(c, i)
  \/ Sigterm
  \/ Kill
  \/ Restart

(* Every thread of the process is scheduled.  Clients, signals, crashes    *)
(* and restarts may or may not come.                                       *)
Fairness ==
  /\ WF_vars(MainThread)
  /\ \A s \in Servers : WF_vars(IoThread(s))
  /\ \A c \in Callers : WF_vars(CallerCloses(c))
  /\ \A c \in Callers, i \in Positions : WF_vars(Worker(c, i))

Spec == Init /\ [][Next]_vars

FairSpec == Spec /\ Fairness

-----------------------------------------------------------------------------
(* The mutex belongs to the IO thread that changes or saves the multimaps, *)
(* no request has more statements left than it brought, and the other      *)
(* variables are in their ranges.                                          *)
TypeOK ==
  /\ StorageTypeOK
  /\ m \in [Positions -> SmallBags]
  /\ dataChanged \in BOOLEAN
  /\ lock \in Servers \cup {Nobody}
  /\ main \in Phases \cup Ends
  /\ terminate \in BOOLEAN
  /\ stopped \subseteq Servers
  /\ io \in [Servers -> [at : IoStages, left : 0..MaxStatements]]

(* Whenever no thread writes to the multimaps or to the directory, a clean *)
(* dirty flag means that the directory restores exactly what is in memory: *)
(* the test "if (_dataChanged)" at shutdown may skip the save.             *)
CleanMeansSaved ==
  Up /\ main # "boot" /\ lock = Nobody /\ NoSave /\ ~dataChanged => Restores(m)

(* When syncSave returns, the directory restores the multimaps as they are *)
(* at that moment: three threads wrote one and the same state of them.     *)
SaveIsSnapshot ==
  [][\A c \in Callers :
        saves[c] # "idle" /\ saves'[c] = "idle" /\ main' \notin {"killed", "aborted"}
          => Restores(m)]_vars

(* A process that left through the end of main lost nothing: the next one  *)
(* starts with what it held.                                               *)
ExitKeepsData == main = "exited" => Restores(m)

(* SIGTERM ends the process, and unless something else ended it before, it *)
(* ends with its data on disk.                                             *)
ShutdownSaves ==
  terminate ~> main \in {"killed", "aborted"} \/ (main = "exited" /\ Restores(m))

(* SIGTERM ends the process, whatever else goes wrong.                     *)
ShutdownCompletes == terminate ~> ~Up

-----------------------------------------------------------------------------
(* The process as a store that is saved and loaded: what a new process     *)
(* would find, seen from outside.                                          *)
Status ==
  IF Up /\ main # "boot" THEN "up" ELSE IF main = "exited" THEN "exited" ELSE "down"

OnDisk ==
  IF ~checkManifest THEN {emptyMap} ELSE IF Loadable THEN {syncLoad} ELSE {}

Durable == INSTANCE Durability WITH
  Stores     <- [Positions -> SmallBags],
  EmptyStore <- emptyMap,
  memory     <- m,
  disk       <- OnDisk,
  saving     <- ~NoSave,
  status     <- Status

(* The process implements the promises of Durability: nothing but a save   *)
(* touches what the next process loads, and each save that returns, and    *)
(* each clean exit, leaves the multimaps there as they are.                *)
KeepsPromises == Durable!Spec

-----------------------------------------------------------------------------
(* What comments and log messages of the code say.                         *)

(* "No changes to dataset": a process that leaves without a last save has  *)
(* its data on disk.                                                       *)
NoChangesToDataset ==
  [][main = "leaving" /\ main' = "exited" /\ ~dataChanged => Restores(m)]_vars

(* "Check manifest file to see if db exists": where there is a Manifest    *)
(* when a process starts, there is a database to load.                     *)
ManifestMeansDatabase == main = "boot" /\ checkManifest => Loadable

(* "Database saved to disk in": once syncSave has returned and said so, a  *)
(* server can be started on the directory.                                 *)
DatabaseSavedToDisk ==
  [][\A s \in Servers : io[s].at = "saving" /\ io'[s].at = "busy" => Loadable']_vars
=============================================================================
