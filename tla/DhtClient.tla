------------------------------ MODULE DhtClient -----------------------------
(***************************************************************************)
(* The DHT as the application holds it: the facade (DhtClient), the loop   *)
(* thread behind it (DhtRunner) with its task queue and wake-up byte, the  *)
(* routing table file, and the discovery thread that announces, searches   *)
(* and dials (DhtDiscovery).  Four threads take part: the loop, the        *)
(* discovery thread, the owner who starts and stops, and a reader who asks *)
(* a getter.  One address family; the second client is another instance.   *)
(***************************************************************************)
EXTENDS Naturals, FiniteSets

CONSTANTS
    DataDirs,          \* "" (none), "." or "dir"
    PeerAddrs,         \* addresses lookups may return
    MaxIds             \* bound: ids generated, so starts too

ASSUME DhtClientAssumption ==
    /\ DataDirs \subseteq {"", ".", "dir"}
    /\ MaxIds \in Nat

VARIABLES facade, runner, active, reader, owner, saved, disc, history

clientVars == <<facade, runner, active, reader, owner, saved, disc, history>>

NoFile == [whole |-> FALSE, id |-> 0]
NoDisc == [pc |-> "off", running |-> FALSE, recover |-> FALSE, due |-> TRUE, dialed |-> {}, unsignalled |-> FALSE]
NoRunner == [running |-> FALSE, pc |-> "none", tasks |-> {}, byte |-> FALSE]

ClientInit ==
    /\ facade \in {[running |-> FALSE, up |-> FALSE, engine |-> 0, self |-> 0, dir |-> d] : d \in DataDirs}
    /\ runner = NoRunner /\ active = {} /\ reader = "idle" /\ owner = "down"
    /\ saved = NoFile /\ disc = NoDisc
    /\ history = [ids |-> 0]

(* A random id is one nobody had before.                                   *)
FreshId == history.ids + 1

-----------------------------------------------------------------------------
(* Posting a task: it is queued under the mutex, then the byte is sent.    *)
(* Tasks commute, so the queue is a set of them.                           *)

Queued(r, task) == [r EXCEPT !.tasks = @ \cup {task}]
Signalled(r) == [r EXCEPT !.byte = TRUE]

(* The identity a client starts with: the saved one, or its random one.    *)
load_routing_table(self) == IF facade.dir # "" /\ saved.whole THEN saved.id ELSE self

(* start(): the socket is bound, the file is read, the loop thread starts; *)
(* make_client() then posts the bootstrap and start() spawns its thread.   *)
(* When the socket cannot be bound nothing is started: no step.            *)
bootstrapping == [running |-> TRUE, pc |-> "recv", tasks |-> {"bootstrap"}, byte |-> TRUE]
DiscStarts(d) == [d EXCEPT !.pc = "probe", !.running = TRUE, !.due = TRUE]

Start ==
    LET id == load_routing_table(FreshId)
    IN /\ owner = "down" /\ history.ids < MaxIds
       /\ facade' = [facade EXCEPT !.running = TRUE, !.up = TRUE, !.engine = id, !.self = id]
       /\ runner' = bootstrapping
       /\ owner' = "up" /\ active' = {}
       /\ disc' = DiscStarts(disc)
       /\ history' = [history EXCEPT !.ids = @ + 1]
       /\ UNCHANGED <<reader, saved>>

-----------------------------------------------------------------------------
(* The loop thread.                                                        *)

(* Mutant: the pipe is emptied after the queue was taken.                  *)
DrainAfterTasks(r) == IF r.pc = "tick" THEN [r EXCEPT !.byte = FALSE] ELSE r

(* wakeup_.drain(): as soon as recv() returns, before the queue is taken.  *)
DrainPipe(r) == IF r.pc = "recv" THEN [r EXCEPT !.byte = FALSE] ELSE r

(* on_peers: every usable address is dialled the first time it is seen.    *)
on_peers(d, peers) == [d EXCEPT !.dialed = @ \cup peers]

(* recv() returns with a datagram, the wake-up byte or the timeout; a      *)
(* datagram may end a lookup or let it deliver peers.                      *)
Recv ==
    /\ runner.pc = "recv" /\ runner.running
    /\ runner' = [DrainPipe(runner) EXCEPT !.pc = "queue"]
    /\ \E ended \in SUBSET active : active' = active \ ended
    /\ \E peers \in {{}} \cup (IF active = {} THEN {} ELSE {{a} : a \in PeerAddrs}) : disc' = on_peers(disc, peers)
    /\ UNCHANGED <<facade, reader, owner, saved, history>>

Quit ==
    /\ runner.pc = "recv" /\ ~runner.running
    /\ runner' = [runner EXCEPT !.pc = "exited"]
    /\ UNCHANGED <<facade, active, reader, owner, saved, disc, history>>

(* find_peers and announce_peer: a hash that is being looked up is not     *)
(* looked up twice.                                                        *)
Looking(tasks) == active \cup (tasks \cap {"find", "announce"})

(* drain_tasks(): the queue is swapped out under the mutex, then its tasks *)
(* run: an external address brings another id, a getter's answer is set.   *)
drain_tasks ==
    LET renamed == "extip" \in runner.tasks /\ history.ids < MaxIds
    IN /\ runner.pc = "queue"
       /\ runner' = [runner EXCEPT !.pc = "tick", !.tasks = {}]
       /\ active' = Looking(runner.tasks)
       /\ facade' = IF renamed THEN [facade EXCEPT !.engine = FreshId] ELSE facade
       /\ history' = IF renamed THEN [history EXCEPT !.ids = @ + 1] ELSE history
       /\ reader' = IF "get" \in runner.tasks THEN "idle" ELSE reader
       /\ UNCHANGED <<owner, saved, disc>>

(* tick(), and the periodic save when it is due: the file is truncated ... *)
Tick(due) ==
    /\ runner.pc = "tick"
    /\ due => facade.dir = "dir"
    /\ runner' = [DrainPipe(runner) EXCEPT !.pc = IF due THEN "saving" ELSE "recv"]
    /\ saved' = IF due THEN NoFile ELSE saved
    /\ UNCHANGED <<facade, active, reader, owner, disc, history>>

(* ... and written.                                                        *)
snapshot == [whole |-> TRUE, id |-> facade.engine]

AutosaveEnds ==
    /\ runner.pc = "saving"
    /\ runner' = [runner EXCEPT !.pc = "recv"]
    /\ saved' = snapshot
    /\ UNCHANGED <<facade, active, reader, owner, disc, history>>

-----------------------------------------------------------------------------
(* The discovery thread.                                                   *)

Posting == disc.unsignalled
DiscPosts(task, pc) ==
    /\ runner' = IF facade.running THEN Queued(runner, task) ELSE runner
    /\ disc' = [disc EXCEPT !.pc = pc, !.unsignalled = facade.running]

DiscSignals ==
    /\ Posting
    /\ disc' = [disc EXCEPT !.unsignalled = FALSE]
    /\ runner' = Signalled(runner)
    /\ UNCHANGED <<facade, active, reader, owner, saved, history>>

(* STUN: the reflexive address found is posted to the client.              *)
probe_external_ip ==
    /\ disc.pc = "probe" /\ ~Posting
    /\ \/ disc.running /\ DiscPosts("extip", "cycle")
       \/ disc' = [disc EXCEPT !.pc = "cycle"] /\ UNCHANGED runner
    /\ UNCHANGED <<facade, active, reader, owner, saved, history>>

(* The head of the loop: a network change is taken first.                  *)
Recover ==
    /\ disc.pc = "cycle" /\ ~Posting /\ disc.running /\ disc.recover
    /\ disc' = [disc EXCEPT !.recover = FALSE, !.due = TRUE, !.pc = "probe"]
    /\ UNCHANGED <<facade, runner, active, reader, owner, saved, history>>

Cycle ==
    /\ disc.pc = "cycle" /\ ~Posting /\ disc.running /\ ~disc.recover
    /\ runner' = Queued(runner, IF disc.due THEN "announce" ELSE "find")
    /\ disc' = [disc EXCEPT !.pc = "wait", !.due = FALSE, !.unsignalled = TRUE]
    /\ UNCHANGED <<facade, active, reader, owner, saved, history>>

(* The wait ends by its timeout, a network change or stop(); the announce  *)
(* interval may have passed meanwhile.                                     *)
WaitEnds ==
    /\ disc.pc = "wait" /\ ~Posting
    /\ \E due \in {disc.due, TRUE} : disc' = [disc EXCEPT !.pc = "cycle", !.due = due]
    /\ UNCHANGED <<facade, runner, active, reader, owner, saved, history>>

DiscExits ==
    /\ disc.pc = "cycle" /\ ~disc.running /\ ~Posting
    /\ disc' = [disc EXCEPT !.pc = "exited"]
    /\ UNCHANGED <<facade, runner, active, reader, owner, saved, history>>

NetworkChanged ==
    /\ disc' = [disc EXCEPT !.recover = TRUE]
    /\ UNCHANGED <<facade, runner, active, reader, owner, saved, history>>

-----------------------------------------------------------------------------
(* A getter of the facade on an application thread: check, post, wait.     *)

ReaderChecks ==
    /\ reader = "idle" /\ facade.running
    /\ reader' = "checked"
    /\ UNCHANGED <<facade, runner, active, owner, saved, disc, history>>

(* on_loop() goes through the runner, which stop() may have destroyed.     *)
ReaderPosts ==
    /\ reader = "checked"
    /\ IF facade.up THEN runner' = Queued(runner, "get") /\ reader' = "queued"
       ELSE reader' = "dangling" /\ UNCHANGED runner
    /\ UNCHANGED <<facade, active, owner, saved, disc, history>>

ReaderSignals ==
    /\ reader = "queued"
    /\ reader' = "waiting"
    /\ runner' = Signalled(runner)
    /\ UNCHANGED <<facade, active, owner, saved, disc, history>>

-----------------------------------------------------------------------------
(* DhtDiscovery::stop() joins its thread, then stops the client: the loop  *)
(* is told and joined, the table saved from the idle node, the engine      *)
(* destroyed.                                                              *)

Stop ==
    /\ owner = "up"
    /\ owner' = "join_disc"
    /\ disc' = [disc EXCEPT !.running = FALSE]
    /\ UNCHANGED <<facade, runner, active, reader, saved, history>>

StopClient ==
    /\ owner = "join_disc" /\ disc.pc = "exited"
    /\ owner' = "join_loop"
    /\ facade' = [facade EXCEPT !.running = FALSE]
    /\ runner' = [Signalled(runner) EXCEPT !.running = FALSE]
    /\ UNCHANGED <<active, reader, saved, disc, history>>

StopSaves ==
    /\ owner = "join_loop" /\ runner.pc = "exited"
    /\ owner' = "saving"
    /\ saved' = IF facade.dir # "" THEN NoFile ELSE saved
    /\ UNCHANGED <<facade, runner, active, reader, disc, history>>

(* The save may fail to write; then the file is left truncated.            *)
StopEnds ==
    /\ owner = "saving"
    /\ owner' = "down"
    /\ \E ok \in BOOLEAN : saved' = IF facade.dir # "" /\ ok THEN snapshot ELSE saved
    /\ facade' = [facade EXCEPT !.up = FALSE, !.engine = 0, !.self = 0]
    /\ runner' = NoRunner /\ active' = {}
    /\ disc' = [disc EXCEPT !.pc = "off"]
    /\ UNCHANGED <<reader, history>>

(* The process dies; the file stays as it is.                              *)
Crash ==
    /\ owner # "down"
    /\ facade' = [facade EXCEPT !.running = FALSE, !.up = FALSE, !.engine = 0, !.self = 0]
    /\ runner' = NoRunner /\ active' = {} /\ reader' = "idle" /\ owner' = "down" /\ disc' = NoDisc
    /\ UNCHANGED <<saved, history>>

ClientNext ==
    \/ Start
    \/ Recv \/ Quit \/ drain_tasks \/ AutosaveEnds
    \/ \E due \in BOOLEAN : Tick(due)
    \/ DiscSignals \/ probe_external_ip \/ Recover \/ Cycle \/ WaitEnds \/ DiscExits \/ NetworkChanged
    \/ ReaderChecks \/ ReaderPosts \/ ReaderSignals
    \/ Stop \/ StopClient \/ StopSaves \/ StopEnds \/ Crash

ClientSpec == ClientInit /\ [][ClientNext]_clientVars

-----------------------------------------------------------------------------
(* "the loop can never block past a pending task": while the loop waits in *)
(* recv() and tasks are queued, the byte is there or about to be sent.     *)
NoLostWakeup ==
    runner.pc = "recv" /\ runner.tasks # {} => runner.byte \/ Posting \/ reader = "queued"

=============================================================================
