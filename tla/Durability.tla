------------------------------ MODULE Durability ------------------------------
(***************************************************************************)
(* What a store that is kept in memory promises about its directory: only  *)
(* a save changes what the directory holds, a save that returned has made  *)
(* it the store in memory, a clean exit leaves it so, and every start      *)
(* begins with it.  A save that is cut short promises nothing.             *)
(***************************************************************************)
CONSTANTS
  Stores,     \* the stores that there can be
  EmptyStore  \* the store of a new directory, one of them

VARIABLES
  memory,  \* the store in memory
  disk,    \* the store that a new process loads, as a set; {} if it cannot
  saving,  \* a save is under way
  status   \* "down" (not started, or crashed), "up", or "exited"

vars == <<memory, disk, saving, status>>

Disks == {{}} \cup {{store} : store \in Stores}

Init ==
  /\ memory = EmptyStore
  /\ disk = {EmptyStore}
  /\ saving = FALSE
  /\ status = "down"

Start ==
  /\ status = "down"
  /\ status' = "up"
  /\ memory' \in disk
  /\ UNCHANGED <<disk, saving>>

Change ==
  /\ status = "up"
  /\ ~saving
  /\ memory' \in Stores
  /\ UNCHANGED <<disk, saving, status>>

BeginSave ==
  /\ status = "up"
  /\ ~saving
  /\ saving' = TRUE
  /\ disk' \in Disks
  /\ UNCHANGED <<memory, status>>

Save ==
  /\ saving
  /\ disk' \in Disks
  /\ UNCHANGED <<memory, saving, status>>

EndSave ==
  /\ saving
  /\ disk = {memory}
  /\ saving' = FALSE
  /\ UNCHANGED <<memory, disk, status>>

Exit ==
  /\ status = "up"
  /\ ~saving
  /\ disk = {memory}
  /\ status' = "exited"
  /\ UNCHANGED <<memory, disk, saving>>

(* The process is gone, or the next one begins.                            *)
Crash ==
  /\ status' = "down"
  /\ memory' = EmptyStore
  /\ saving' = FALSE
  /\ disk' \in IF saving THEN Disks ELSE {disk}

Next == Start \/ Change \/ BeginSave \/ Save \/ EndSave \/ Exit \/ Crash

Spec == Init /\ [][Next]_vars
=============================================================================
