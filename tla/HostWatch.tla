------------------------------ MODULE HostWatch ------------------------------
(***************************************************************************)
(* The host's addresses change: the operating system's notification, the   *)
(* monitor thread that debounces and compares, the maintenance thread that *)
(* tells the subsystems, and the port mapping service that starts again.   *)
(* The owner stops all of it in the order of Node::stop().                 *)
(***************************************************************************)
EXTENDS PortMapping

CONSTANT MaxTroubles    \* bound: changes of the address set and router faults together

VARIABLES watch, node

watchVars == <<watch, node, natVars>>

(* The address set is the number of the last change.                       *)
WatchInit ==
    /\ NatInit
    /\ watch = [addr |-> 0, event |-> FALSE, pc |-> "off", pending |-> FALSE, last |-> 0, current |-> 0]
    /\ node = [pc |-> "down", maint |-> "none", pending |-> FALSE, stop |-> FALSE]

-----------------------------------------------------------------------------
(* Node::start: the subsystems start, then the maintenance thread and the  *)
(* monitor, which takes its first snapshot.                                *)
NodeStarts ==
    /\ node.pc = "down" /\ watch.addr = 0
    /\ node' = [node EXCEPT !.pc = "up", !.maint = "wait"]
    /\ start(watch.addr)
    /\ watch' = [watch EXCEPT !.pc = "wait", !.last = watch.addr]
    /\ UNCHANGED router

(* The host moves; the operating system tells, or drops the message.       *)
HostMoves ==
    /\ watch.addr + router.faults < MaxTroubles /\ node.pc = "up"
    /\ \E told \in BOOLEAN : watch' = [watch EXCEPT !.addr = @ + 1, !.event = @ \/ told]
    /\ UNCHANGED <<node, natVars>>

(* The reader thread: check_now().                                         *)
check_now ==
    /\ watch.event /\ watch.pc # "off"
    /\ watch' = [watch EXCEPT !.event = FALSE, !.pending = TRUE]
    /\ UNCHANGED <<node, natVars>>

(* worker_loop: the wait ends by an event, which the quiet window follows, *)
(* or by the poll interval, without one.                                   *)
Stopped == node.pc # "up"
WaitsOut ==
    /\ watch.pc = "wait"
    /\ watch' = IF Stopped THEN [watch EXCEPT !.pc = "off"]
                ELSE [watch EXCEPT !.pc = IF watch.pending THEN "debounce" ELSE "snapshot", !.pending = FALSE]
    /\ UNCHANGED <<node, natVars>>

Debounces ==
    /\ watch.pc = "debounce"
    /\ watch' = IF Stopped THEN [watch EXCEPT !.pc = "off"] ELSE [watch EXCEPT !.pc = "snapshot", !.pending = FALSE]
    /\ UNCHANGED <<node, natVars>>

snapshot_addresses ==
    /\ watch.pc = "snapshot"
    /\ watch' = [watch EXCEPT !.pc = "compare", !.current = watch.addr]
    /\ UNCHANGED <<node, natVars>>

(* A set that differs is remembered and handed to the maintenance thread.  *)
Compares ==
    /\ watch.pc = "compare"
    /\ watch' = [watch EXCEPT !.pc = IF Stopped THEN "off" ELSE "wait", !.last = watch.current, !.current = 0]
    /\ node' = IF watch.current # watch.last THEN [node EXCEPT !.pending = TRUE] ELSE node
    /\ UNCHANGED natVars

-----------------------------------------------------------------------------
(* maintenance_loop: the flag and the addresses are taken together, then   *)
(* the event is emitted: the service stops and starts.                     *)

MaintTakes ==
    /\ node.maint = "wait" /\ (node.pending \/ node.stop)
    /\ node' = IF node.stop THEN [node EXCEPT !.maint = "gone"]
               ELSE [node EXCEPT !.maint = "emit", !.pending = FALSE]
    /\ UNCHANGED <<watch, natVars>>

MaintStops ==
    /\ node.maint = "emit"
    /\ StopBegins
    /\ node' = [node EXCEPT !.maint = "stopping"]
    /\ UNCHANGED watch

(* The clients ask the host for its address when they start.               *)
MaintStarts ==
    /\ node.maint = "stopping" /\ svc.stop = "no"
    /\ start(watch.addr)
    /\ node' = [node EXCEPT !.maint = "emitted"]
    /\ UNCHANGED <<watch, router>>

(* Mutant: the flag is cleared when the emit is over.                      *)
MaintReturnsClearing ==
    /\ node.maint = "emitted"
    /\ node' = [node EXCEPT !.maint = "wait", !.pending = FALSE]
    /\ UNCHANGED <<watch, natVars>>

(* The other subscribers have been told too.                               *)
MaintReturns ==
    /\ node.maint = "emitted"
    /\ node' = [node EXCEPT !.maint = "wait"]
    /\ UNCHANGED <<watch, natVars>>

-----------------------------------------------------------------------------
(* Node::stop: the monitor is joined, then the maintenance thread, then    *)
(* the subsystems stop.                                                    *)
NodeStops ==
    /\ node.pc = "up"
    /\ node' = [node EXCEPT !.pc = "join_monitor"]
    /\ UNCHANGED <<watch, natVars>>

MonitorJoined ==
    /\ node.pc = "join_monitor" /\ watch.pc = "off"
    /\ node' = [node EXCEPT !.pc = "join_maint", !.stop = TRUE]
    /\ UNCHANGED <<watch, natVars>>

MaintJoined ==
    /\ node.pc = "join_maint" /\ node.maint = "gone"
    /\ StopBegins
    /\ node' = [node EXCEPT !.pc = "stopping"]
    /\ UNCHANGED watch

NodeStopped ==
    /\ node.pc = "stopping" /\ svc.stop = "no"
    /\ node' = [node EXCEPT !.pc = "stopped"]
    /\ UNCHANGED <<watch, natVars>>

Monitor == WaitsOut \/ Debounces \/ snapshot_addresses \/ Compares
Maintenance == MaintTakes \/ MaintStops \/ MaintStarts \/ MaintReturns
NatStep == (\E b \in Backends : Worker(b)) \/ Stopping

WatchNext ==
    \/ NodeStarts \/ HostMoves \/ check_now
    \/ Monitor \/ Maintenance
    \/ NatStep /\ UNCHANGED <<watch, node>> /\ router'.faults + watch.addr <= MaxTroubles
    \/ NodeStops \/ MonitorJoined \/ MaintJoined \/ NodeStopped

WatchSpec == WatchInit /\ [][WatchNext]_watchVars

-----------------------------------------------------------------------------
(* A change of the host's addresses reaches the port mapping, however it   *)
(* falls among the threads: in the end the clients of a running node were  *)
(* started under the addresses the host has.                               *)
Remapped == node.pc # "up" \/ (svc.held = svc.config /\ svc.addr = watch.addr)

ChangeArrives == <>[]Remapped

(* "on stop() it removes the mapping": once the node has stopped no client *)
(* is left, not even one of a restart that was under way, and the router   *)
(* maps nothing for us but what it could not tell or would not delete,     *)
(* whatever ports it had offered before.                                   *)
NothingLeftBehind ==
    node.pc = "stopped" => /\ svc.held = {} /\ \A b \in Backends : client[b].pc = "none"
                           /\ \A b \in Backends : router.table[b] \subseteq router.unheard[b]

=============================================================================
