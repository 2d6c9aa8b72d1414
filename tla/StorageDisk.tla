---------------------------- MODULE StorageDisk ----------------------------
(***************************************************************************)
(* Persistence of StorageManager: the store in memory, its dirty flag, the *)
(* persistence thread, save() and the data file, through stop(), the       *)
(* destructor, a crash of the process and the next constructor.            *)
(*                                                                         *)
(* The contents of the store are a version number: every change makes the  *)
(* next version.  A change is made under storage_mutex_ and the flag is    *)
(* raised after the mutex is released; save() holds the mutex from the     *)
(* first write of the temporary file until the flag is cleared.            *)
(***************************************************************************)
EXTENDS Naturals

CONSTANTS
    Apps,        \* threads that call the store: application and reactor
    DiskCalls,       \* calls they make: "compact", "save", "stop", "destroy"
    Faults,      \* what may go wrong: "open", "disk_full", "rename", "crash"
    MaxVersion, MaxFaults  \* bounds

AllFaults == {"open", "disk_full", "rename", "crash"}
Disk == "disk"   \* the persistence thread
None == "none"
Threads == Apps \cup {Disk}

ASSUME DiskAssumption ==
    /\ Disk \notin Apps /\ None \notin Apps
    /\ Faults \subseteq AllFaults
    /\ {MaxVersion, MaxFaults} \subseteq Nat

VARIABLES
    mem,       \* version of entries_
    dirty,     \* dirty_
    running,   \* running_
    pc,        \* where each thread is
    saver,     \* the thread inside save(), which holds storage_mutex_
    stage,     \* how far that save() is
    file, tmp, \* the data file and the temporary file
    life,      \* the object: "up", in its destructor, "gone"
    faults     \* how often each fault has happened

diskVars == <<mem, dirty, running, pc, saver, stage, file, tmp, life, faults>>

Missing == [there |-> FALSE, whole |-> FALSE, v |-> 0]
Torn(v) == [there |-> TRUE, whole |-> FALSE, v |-> v]
Whole(v) == [there |-> TRUE, whole |-> TRUE, v |-> v]

Versions == 0..MaxVersion
Files == [there : BOOLEAN, whole : BOOLEAN, v : Versions]

DiskTypeOK ==
    /\ mem \in Versions
    /\ dirty \in BOOLEAN /\ running \in BOOLEAN
    /\ pc \in [Threads -> {"idle", "changed", "save", "join", "final", "loop", "off"}]
    /\ saver \in Threads \cup {None}
    /\ stage \in {"none", "write", "delete", "rename", "clear"}
    /\ file \in Files /\ tmp \in Files
    /\ life \in {"up", "ending", "gone"}
    /\ faults \in [AllFaults -> 0..MaxFaults]
    /\ (saver = None) <=> (stage = "none")
    /\ saver # None => pc[saver] \in {"save", "final"}

DiskInit ==
    /\ mem = 0
    /\ dirty = FALSE /\ running = TRUE
    /\ pc = [t \in Threads |-> IF t = Disk THEN "loop" ELSE "idle"]
    /\ saver = None /\ stage = "none"
    /\ file = Missing /\ tmp = Missing
    /\ life = "up"
    /\ faults = [kind \in AllFaults |-> 0]

store == <<file, tmp>>

Fault(kind) ==
    /\ kind \in Faults
    /\ faults.open + faults.disk_full + faults.rename + faults.crash < MaxFaults
    /\ faults' = [faults EXCEPT ![kind] = @ + 1]

-----------------------------------------------------------------------------
(* Changes.                                                                *)

(* put, remove or a remote entry that wins: the change, under the mutex.   *)
Change(t) ==
    /\ life = "up" /\ pc[t] = "idle" /\ saver = None
    /\ mem < MaxVersion
    /\ mem' = mem + 1
    /\ pc' = [pc EXCEPT ![t] = "changed"]
    /\ UNCHANGED <<dirty, running, saver, stage, store, life, faults>>

(* mark_dirty, after the mutex is released.                                *)
MarkDirty(t) ==
    /\ pc[t] = "changed"
    /\ dirty' = TRUE
    /\ pc' = [pc EXCEPT ![t] = "idle"]
    /\ UNCHANGED <<mem, running, saver, stage, store, life, faults>>

(* compact raises the flag inside the mutex.                               *)
CompactStore(t) ==
    /\ "compact" \in DiskCalls
    /\ life = "up" /\ pc[t] = "idle" /\ saver = None
    /\ mem < MaxVersion
    /\ mem' = mem + 1
    /\ dirty' = TRUE
    /\ UNCHANGED <<running, pc, saver, stage, store, life, faults>>

-----------------------------------------------------------------------------
(* save and write_data_file.                                               *)

CallSave(t) ==
    /\ "save" \in DiskCalls
    /\ life = "up" /\ pc[t] = "idle"
    /\ pc' = [pc EXCEPT ![t] = "save"]
    /\ UNCHANGED <<mem, dirty, running, saver, stage, store, life, faults>>

(* Where a thread goes when its save() returns: the persistence thread     *)
(* back to its loop, shutdown() to its end.                                *)
Resumed(t) == [pc EXCEPT ![t] = IF t = Disk THEN "loop" ELSE "idle"]
Ended(t) == IF pc[t] = "final" /\ life = "ending" THEN "gone" ELSE life

Return(t) ==
    /\ saver' = None /\ stage' = "none"
    /\ pc' = Resumed(t)
    /\ life' = Ended(t)

(* Mutant: the data file itself is opened for writing.                     *)
OpenInPlace(t) ==
    /\ pc[t] \in {"save", "final"} /\ saver = None
    /\ saver' = t /\ stage' = "write"
    /\ file' = Torn(mem)
    /\ UNCHANGED <<mem, dirty, running, pc, tmp, life, faults>>

(* The mutex is taken and the temporary file truncated.                    *)
OpenTemp(t) ==
    /\ pc[t] \in {"save", "final"} /\ saver = None
    /\ saver' = t /\ stage' = "write"
    /\ tmp' = Torn(mem)
    /\ UNCHANGED <<mem, dirty, running, pc, file, life, faults>>

OpenFails(t) ==
    /\ Fault("open")
    /\ pc[t] \in {"save", "final"} /\ saver = None
    /\ Return(t)
    /\ UNCHANGED <<mem, dirty, running, store>>

(* Nobody looks at what fwrite and fclose return.                          *)
WriteTemp ==
    /\ stage = "write"
    /\ \/ tmp' = Whole(mem) /\ faults' = faults
       \/ tmp' = tmp /\ Fault("disk_full")
    /\ stage' = "delete"
    /\ UNCHANGED <<mem, dirty, running, pc, saver, file, life>>

DeleteOld ==
    /\ stage = "delete"
    /\ file' = Missing
    /\ stage' = "rename"
    /\ UNCHANGED <<mem, dirty, running, pc, saver, tmp, life, faults>>

RenameTemp ==
    /\ stage = "rename"
    /\ file' = tmp
    /\ tmp' = Missing
    /\ stage' = "clear"
    /\ UNCHANGED <<mem, dirty, running, pc, saver, life, faults>>

RenameFails ==
    /\ stage = "rename"
    /\ Fault("rename")
    /\ tmp' = Missing
    /\ Return(saver)
    /\ UNCHANGED <<mem, dirty, running, file>>

ClearDirty ==
    /\ stage = "clear"
    /\ dirty' = FALSE
    /\ Return(saver)
    /\ UNCHANGED <<mem, running, file, tmp, faults>>

-----------------------------------------------------------------------------
(* persistence_thread_loop.                                                *)

(* Mutant: the wait has no predicate and no timeout besides shutdown.      *)
DiskWakesToStop ==
    /\ pc[Disk] = "loop"
    /\ ~running
    /\ pc' = [pc EXCEPT ![Disk] = "off"]
    /\ UNCHANGED <<mem, dirty, running, saver, stage, store, life, faults>>

DiskWakes ==
    /\ pc[Disk] = "loop"
    /\ ~running \/ dirty
    /\ pc' = [pc EXCEPT ![Disk] = IF running THEN "save" ELSE "off"]
    /\ UNCHANGED <<mem, dirty, running, saver, stage, store, life, faults>>

-----------------------------------------------------------------------------
(* shutdown, from stop() and from the destructor; the constructor.         *)

(* running_.exchange(false): only the first caller goes on.                *)
Stop(t) ==
    /\ "stop" \in DiskCalls
    /\ life = "up" /\ pc[t] = "idle"
    /\ running
    /\ running' = FALSE
    /\ pc' = [pc EXCEPT ![t] = "join"]
    /\ UNCHANGED <<mem, dirty, saver, stage, store, life, faults>>

(* The object's owner destroys it when no other call is in progress.       *)
Destroy(t) ==
    /\ "destroy" \in DiskCalls
    /\ life = "up" /\ \A u \in Apps : pc[u] = "idle"
    /\ running' = FALSE
    /\ IF running
       THEN pc' = [pc EXCEPT ![t] = "join"] /\ life' = "ending"
       ELSE pc' = pc /\ life' = "gone"
    /\ UNCHANGED <<mem, dirty, saver, stage, store, faults>>

Joined(t) ==
    /\ pc[t] = "join" /\ pc[Disk] = "off"
    /\ pc' = [pc EXCEPT ![t] = IF dirty THEN "final" ELSE "idle"]
    /\ life' = IF life = "ending" /\ ~dirty THEN "gone" ELSE life
    /\ UNCHANGED <<mem, dirty, running, saver, stage, store, faults>>

Crash ==
    /\ Fault("crash")
    /\ life # "gone"
    /\ life' = "gone"
    /\ mem' = 0 /\ dirty' = FALSE /\ running' = FALSE
    /\ pc' = [t \in Threads |-> IF t = Disk THEN "off" ELSE "idle"]
    /\ saver' = None /\ stage' = "none"
    /\ UNCHANGED store

(* load: a file cut short yields the entries before the cut.               *)
Loaded == IF file.whole \/ ~file.there THEN {file.v} ELSE 0..file.v

Construct ==
    /\ life = "gone"
    /\ life' = "up"
    /\ mem' \in Loaded
    /\ dirty' = FALSE /\ running' = TRUE
    /\ pc' = [pc EXCEPT ![Disk] = "loop"]
    /\ UNCHANGED <<saver, stage, file, tmp, faults>>

DiskNext ==
    \/ \E t \in Apps :
         \/ Change(t) \/ MarkDirty(t) \/ CompactStore(t) \/ CallSave(t)
         \/ Stop(t) \/ Destroy(t) \/ Joined(t)
    \/ \E t \in Threads : OpenTemp(t) \/ OpenFails(t)
    \/ WriteTemp \/ DeleteOld \/ RenameTemp \/ RenameFails \/ ClearDirty
    \/ DiskWakes
    \/ Crash \/ Construct

(* Threads keep running; a fault may be avoided.                           *)
DiskFairness ==
    /\ WF_diskVars(DiskWakes)
    /\ WF_diskVars(WriteTemp) /\ WF_diskVars(DeleteOld) /\ WF_diskVars(RenameTemp)
    /\ WF_diskVars(ClearDirty)
    /\ \A t \in Threads : WF_diskVars(OpenTemp(t))
    /\ \A t \in Apps : WF_diskVars(MarkDirty(t)) /\ WF_diskVars(Joined(t))

DiskSpec == DiskInit /\ [][DiskNext]_diskVars /\ DiskFairness

-----------------------------------------------------------------------------
(* Properties.                                                             *)

OnDisk == IF file.whole THEN file.v ELSE 0

(* write_data_file writes aside and renames: a crash at any step leaves    *)
(* the data file whole or absent, never half written, as long as every     *)
(* write succeeds (their results are not looked at).                       *)
FileNeverTorn == (file.there /\ faults.disk_full = 0) => file.whole

(* A change is on disk in the end, through failed attempts, unless the     *)
(* store is shut down or the process dies first.                           *)
DirtyIsSaved == dirty ~> (~dirty \/ ~running)

=============================================================================
