----------------------------- MODULE MCStorage -------------------------------
(* A put's way to the disk and to the other nodes, for TLC: the store's    *)
(* file (StorageDisk), two stores with skewed clocks (StorageSync) and     *)
(* three in a line (StorageSync again).  A behaviour is one part's.        *)
EXTENDS StorageDisk, StorageSync

CONSTANTS a1, a2

VARIABLE part

MCApps == {a1, a2}
Pair == {{1, 2}}
TwoNodes == {1, 2}
Skewed == [n \in Nodes |-> IF n = 1 THEN 1 ELSE 0]
AllCalls == {"put", "remove", "compact", "sync"}

(* The line: the stores at its ends know each other through the middle.    *)
Line == INSTANCE StorageSync WITH
          Nodes <- {1, 2, 3}, Topology <- {{1, 2}, {2, 3}},
          Ahead <- [n \in {1, 2, 3} |-> 0], Calls <- {"put", "remove"},
          Paced <- TRUE, MaxTime <- 2, MaxOps <- 2, MaxDrops <- 0

(* The links are up and the first snapshots, of empty stores, exchanged.   *)
LineInit ==
    /\ entries = [n \in {1, 2, 3} |-> [k \in Keys |-> Absent]]
    /\ op = [n \in {1, 2, 3} |-> Idle]
    /\ up = <<{2}, {1, 3}, {2}>>
    /\ link = {{1, 2}, {2, 3}}
    /\ fresh = <<{}, {}, {}>>
    /\ chan = [way \in {1, 2, 3} \X {1, 2, 3} |-> <<>>]
    /\ status = [n \in {1, 2, 3} |-> "COMPLETED"]
    /\ now = 1 /\ ops = 0 /\ drops = 0
    /\ written = {} /\ waived = {}

PartsInit ==
    /\ part \in {"disk", "pair", "line"}
    /\ DiskInit
    /\ IF part = "line" THEN LineInit ELSE Init

PartsNext ==
    /\ \/ part = "disk" /\ DiskNext /\ UNCHANGED vars
       \/ part = "pair" /\ Next /\ UNCHANGED diskVars
       \/ part = "line" /\ Line!Next /\ UNCHANGED diskVars
    /\ UNCHANGED part

On(p, A) == part = p /\ A

PartsSpec ==
    /\ PartsInit
    /\ [][PartsNext]_<<part, vars, diskVars>>
    /\ WF_diskVars(On("disk", DiskWakes))
    /\ WF_diskVars(On("disk", WriteTemp))
    /\ WF_diskVars(On("disk", DeleteOld))
    /\ WF_diskVars(On("disk", RenameTemp))
    /\ WF_diskVars(On("disk", ClearDirty))
    /\ \A t \in Threads : WF_diskVars(On("disk", OpenTemp(t)))
    /\ \A t \in Apps : WF_diskVars(On("disk", MarkDirty(t))) /\ WF_diskVars(On("disk", Joined(t)))

(* PutsArrive: a put reaches the disk (DirtyIsSaved) and, passed on by the *)
(* store in between (OP_ENTRY in on_storage_message, storage.cpp), the     *)
(* store at the other end of the line.                                     *)
PutsArrive ==
    /\ DirtyIsSaved
    /\ [](part = "line" => Line!StoresConverge)
=============================================================================
