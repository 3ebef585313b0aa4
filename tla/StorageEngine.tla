---------------------------- MODULE StorageEngine ----------------------------
(***************************************************************************)
(* The database directory and the threads that write it: StorageEngine.    *)
(*                                                                         *)
(* A save truncates the Manifest, starts three threads that each serialise *)
(* one multimap and overwrite its data file in place, closes the Manifest  *)
(* and joins the threads.  Any thread of the server may call syncSave; the *)
(* engine itself takes no lock.                                            *)
(***************************************************************************)
EXTENDS TripleMap

CONSTANTS
  Callers,  \* the threads that may call syncSave
  Faults    \* the misfortunes a run allows, see FaultKinds

(* "crash": the process is killed.  "disk": a file cannot be opened or     *)
(* written.  "bind": a server cannot bind its address.  "slow": a request  *)
(* may outlast the second that shutdown waits for it.                      *)
FaultKinds == {"crash", "disk", "bind", "slow"}

ASSUME FaultsAssumption == Faults \subseteq FaultKinds

VARIABLES
  manifest,  \* the file Manifest
  files,     \* files[i] is data/data_<i>.tdb, with the content of multimap i
  saves,     \* the stage of each caller's syncSave
  workers    \* workers[c][i]: the thread that saves multimap i for c

storageVars == <<manifest, files, saves, workers>>

(* What a data file can hold, as far as a loader can tell: an empty file   *)
(* does not load, and a garbled one does not either.                       *)
Missing  == [kind |-> "missing", rows |-> EmptyBag]
Empty    == [kind |-> "empty", rows |-> EmptyBag]
Garbled  == [kind |-> "garbled", rows |-> EmptyBag]
Whole(b) == [kind |-> "whole", rows |-> b]

Contents == {Missing, Empty, Garbled} \cup {Whole(b) : b \in SmallBags}

(* A file of which a part was written.  loadDataFromFile does not look at  *)
(* the result of snappy::Uncompress and hands what came out to the archive,*)
(* which throws or takes it for some multimap: see Snapshot.tla.           *)
Damaged == {Garbled} \cup {Whole(b) : b \in SmallBags}

NoWorker == [at |-> "none", data |-> Missing]

StorageInit ==
  /\ manifest = "absent"
  /\ files = [i \in Positions |-> Missing]
  /\ saves = [c \in Callers |-> "idle"]
  /\ workers = [c \in Callers |-> [i \in Positions |-> NoWorker]]

-----------------------------------------------------------------------------
(* syncSave up to the loop: the Manifest is truncated, the three threads   *)
(* exist.  An error of create_directories or open is not looked at.        *)
BeginSave(c) ==
  /\ saves[c] = "idle"
  /\ saves' = [saves EXCEPT ![c] = "writing"]
  /\ workers' = [workers EXCEPT ![c] =
                   [i \in Positions |-> [at |-> "started", data |-> Missing]]]
  /\ \/ manifest' = "empty"
     \/ "disk" \in Faults /\ UNCHANGED manifest
  /\ UNCHANGED files

(* The three lines reach the Manifest when it is closed.                   *)
CloseManifest(c) ==
  /\ saves[c] = "writing"
  /\ saves' = [saves EXCEPT ![c] = "joining"]
  /\ \/ manifest' = "full"
     \/ "disk" \in Faults /\ UNCHANGED manifest
  /\ UNCHANGED <<files, workers>>

Advance(c, i, stage, data) ==
  workers' = [workers EXCEPT ![c][i] = [at |-> stage, data |-> data]]

(* saveDataToFile, before it opens the file: the multimap is serialised    *)
(* and compressed in memory, into data.                                    *)
Serialise(c, i, data) ==
  /\ workers[c][i].at = "started"
  /\ Advance(c, i, "serialised", data)
  /\ UNCHANGED <<manifest, files, saves>>

(* Opening the file truncates it; one that cannot be opened is left alone, *)
(* and the write that follows does nothing.                                *)
OpenFile(c, i) ==
  /\ workers[c][i].at = "serialised"
  /\ \/ /\ Advance(c, i, "opened", workers[c][i].data)
        /\ files' = [files EXCEPT ![i] = Empty]
     \/ /\ "disk" \in Faults
        /\ Advance(c, i, "done", Missing)
        /\ UNCHANGED files
  /\ UNCHANGED <<manifest, saves>>

(* What a file holds once data was written from its start over old.  When  *)
(* another caller wrote its own data meanwhile, a longer tail of that may  *)
(* stay behind.                                                            *)
Overwritten(old, data) ==
  IF old \in {Empty, data} THEN {data} ELSE {data} \cup Damaged

WriteFile(c, i) ==
  /\ workers[c][i].at = "opened"
  /\ Advance(c, i, "done", Missing)
  /\ \/ \E new \in Overwritten(files[i], workers[c][i].data) :
          files' = [files EXCEPT ![i] = new]
     \/ /\ "disk" \in Faults
        /\ \E part \in Damaged \cup {files[i]} :
             files' = [files EXCEPT ![i] = part]
  /\ UNCHANGED <<manifest, saves>>

(* Mutant of EndSave: the threads are not joined.                          *)
EndSaveUnjoined(c) ==
  /\ saves[c] = "joining"
  /\ saves' = [saves EXCEPT ![c] = "idle"]
  /\ UNCHANGED <<manifest, files, workers>>

(* The join of the three threads, and the return.                          *)
EndSave(c) ==
  /\ saves[c] = "joining"
  /\ \A i \in Positions : workers[c][i].at = "done"
  /\ saves' = [saves EXCEPT ![c] = "idle"]
  /\ workers' = [workers EXCEPT ![c] = [i \in Positions |-> NoWorker]]
  /\ UNCHANGED <<manifest, files>>

(* The files that some thread has opened and not yet written and closed.   *)
HalfWritten == {i \in Positions : \E c \in Callers : workers[c][i].at = "opened"}

(* The end of the process, however it comes, cuts every save short: of     *)
(* what a thread was writing, all, a part or nothing has reached the file. *)
CutSaves ==
  /\ saves' = [c \in Callers |-> "idle"]
  /\ workers' = [c \in Callers |-> [i \in Positions |-> NoWorker]]
  /\ \E torn \in SUBSET HalfWritten : \E part \in [torn -> Damaged] :
       files' = [i \in Positions |-> IF i \in torn THEN part[i] ELSE files[i]]
  /\ UNCHANGED manifest

-----------------------------------------------------------------------------
checkManifest == manifest # "absent"

(* syncLoad takes the names of the data files from the Manifest and reads  *)
(* each into its multimap.  A name it did not find, a missing file and one *)
(* that does not uncompress all end in an exception of the cereal archive, *)
(* which the loading thread does not catch.                                *)
Loadable == manifest = "full" /\ \A i \in Positions : files[i].kind = "whole"

syncLoad == [i \in Positions |-> files[i].rows]

(* A server started on this directory comes up, and with these multimaps.  *)
Restores(mm) ==
  IF checkManifest THEN Loadable /\ mm = syncLoad ELSE mm = emptyMap

NoSave == \A c \in Callers : saves[c] = "idle"

StorageTypeOK ==
  /\ manifest \in {"absent", "empty", "full"}
  /\ files \in [Positions -> Contents]
  /\ saves \in [Callers -> {"idle", "writing", "joining"}]
  /\ workers \in [Callers -> [Positions ->
        [at : {"none", "started", "serialised", "opened", "done"},
         data : Contents]]]
=============================================================================
