---------------------------- MODULE PortMapping ----------------------------
(***************************************************************************)
(* Automatic port forwarding: the service that owns a UPnP and a NAT-PMP   *)
(* client, the worker thread of each client, and the router it talks to.   *)
(* A client holds one mapping, the TCP listen port.  Time is left out: a   *)
(* mapping becomes due for a refresh and a wait times out at any moment.   *)
(* What the service publishes of the results is left out.                  *)
(* The service is restarted by the maintenance thread (module HostWatch)   *)
(* and stopped by the owner; stop() is the same code for both.             *)
(***************************************************************************)
EXTENDS Naturals, FiniteSets

CONSTANTS
    Configs,        \* sets of backends that are enabled: subsets of {"upnp", "natpmp"}
    Ports,          \* external ports the router may give
    ListenPort,     \* the one asked for
    MaxAttempts,    \* kMaxAttempts of one UPnP request
    MaxRouterFaults \* bound: lost replies, failed deletes, odd conflicts

Backends == {"upnp", "natpmp"}

ASSUME NatAssumption ==
    /\ Configs \subseteq SUBSET Backends
    /\ MaxAttempts \in Nat /\ MaxRouterFaults \in Nat

VARIABLES
    client,     \* the clients the service holds, by backend
    svc,        \* the service: configuration, clients held, a stop in progress
    router      \* what it maps for us, and what it never managed to tell

natVars == <<client, svc, router>>

(* A mapping as add_mapping registers it: not active, so due at once.      *)
Registered == [active |-> FALSE, due |-> TRUE, port |-> ListenPort]
NoClient == [pc |-> "none", running |-> FALSE, stopreq |-> FALSE, wake |-> FALSE, byte |-> FALSE,
             permanent |-> FALSE, m |-> Registered, local |-> ListenPort, attempt |-> 0]

NatInit ==
    /\ client = [b \in Backends |-> NoClient]
    /\ svc \in {[config |-> c, held |-> {}, addr |-> 0, stop |-> "no", leaving |-> {}] : c \in Configs}
    /\ router = [table |-> [b \in Backends |-> {}], unheard |-> [b \in Backends |-> {}], faults |-> 0]

-----------------------------------------------------------------------------
(* The service.                                                            *)

(* start(): one client per enabled backend, created, given the mapping and *)
(* started, unless there already are clients.                              *)
NewClient(b) == [NoClient EXCEPT !.pc = "find", !.running = TRUE]
start(addr) ==
    IF svc.held # {} THEN UNCHANGED <<client, svc>>
    ELSE /\ client' = [b \in Backends |-> IF b \in svc.config THEN NewClient(b) ELSE NoClient]
         /\ svc' = [svc EXCEPT !.held = svc.config, !.addr = addr]

(* stop(): the clients are moved out, then stopped one after the other,    *)
(* UPnP first: stop_requested_, the flag and the notification, the byte of *)
(* the pipe, the join, the destruction.                                    *)
Leaver == IF "upnp" \in svc.leaving THEN "upnp" ELSE "natpmp"

StopBegins ==
    /\ svc.stop = "no"
    /\ svc' = [svc EXCEPT !.leaving = svc.held, !.held = {}, !.stop = "request"]
    /\ UNCHANGED <<client, router>>

StopRequests ==
    /\ svc.stop = "request" /\ svc.leaving # {}
    /\ client' = [client EXCEPT ![Leaver].stopreq = TRUE]
    /\ svc' = [svc EXCEPT !.stop = "wake"]
    /\ UNCHANGED router

(* notify_all() ends the sleep of a worker that is in it.                  *)
Notified(c) == IF c.pc = "asleep" THEN "awake" ELSE c.pc

(* wake_worker_ is set under cv_mutex_, which the worker holds from the    *)
(* evaluation of its predicate until it sleeps.                            *)
StopWakes ==
    /\ svc.stop = "wake"
    /\ client[Leaver].pc # "checked"
    /\ client' = [client EXCEPT ![Leaver].wake = TRUE, ![Leaver].byte = TRUE, ![Leaver].pc = Notified(client[Leaver])]
    /\ svc' = [svc EXCEPT !.stop = "join"]
    /\ UNCHANGED router

(* The join, also of a worker that ended by itself and cleared running_.   *)
StopJoins ==
    /\ svc.stop = "join"
    /\ client[Leaver].pc = "done"
    /\ client' = [client EXCEPT ![Leaver] = NoClient]
    /\ svc' = [svc EXCEPT !.leaving = @ \ {Leaver}, !.stop = "request"]
    /\ UNCHANGED router

StopReturns ==
    /\ svc.stop = "request" /\ svc.leaving = {}
    /\ svc' = [svc EXCEPT !.stop = "no"]
    /\ UNCHANGED <<client, router>>

-----------------------------------------------------------------------------
(* A worker.  It blocks in receives that the byte interrupts, in HTTP      *)
(* exchanges that nothing interrupts, and in the sleep between refreshes.  *)

Becomes(b, rec) == client' = [client EXCEPT ![b] = rec]

(* The search may fail; then the worker ends and clears running_.          *)
GivesUp(c) == [c EXCEPT !.pc = "done", !.running = FALSE]

(* fetch_description: a device that answers the search is one of ours only *)
(* when its description names a WAN service with a usable control URL.     *)
fetch_description(c) == [c EXCEPT !.pc = "ip"]

(* discover_device: three bursts, until a device fits or stop() is called. *)
discover_device(c) == {fetch_description(c), GivesUp(c)}

(* ensure_gateway: a gateway that does not answer is tried all the same;   *)
(* there may be none, and stop() ends the probe.                           *)
ensure_gateway(c) == {GivesUp(c)} \cup (IF c.stopreq THEN {} ELSE {[c EXCEPT !.pc = "look"]})

Discover(b) ==
    /\ client[b].pc = "find"
    /\ \E c \in IF b = "upnp" THEN discover_device(client[b]) ELSE ensure_gateway(client[b]) : Becomes(b, c)
    /\ UNCHANGED <<svc, router>>

(* The external address: an answer, or none; only what the service         *)
(* publishes depends on it.  UPnP asks once before its loop, NAT-PMP on    *)
(* every turn.                                                             *)
query_external_ip(c) == [c EXCEPT !.pc = "look"]
request_external_ip(c) == [c EXCEPT !.pc = "due"]

AskIp(b) ==
    /\ client[b].pc = "ip"
    /\ Becomes(b, IF b = "upnp" THEN query_external_ip(client[b]) ELSE request_external_ip(client[b]))
    /\ UNCHANGED <<svc, router>>

(* The loop head.                                                          *)
ClientLoop(b) ==
    LET c == client[b] IN
    /\ c.pc = "look"
    /\ Becomes(b, [c EXCEPT !.pc = IF c.stopreq THEN "clear" ELSE IF b = "upnp" THEN "due" ELSE "ip"])
    /\ UNCHANGED <<svc, router>>

(* NAT-PMP opens a socket for every turn and leaves the loop without one.  *)
NoSocket(b) ==
    LET c == client[b] IN
    /\ b = "natpmp" /\ c.pc = "look" /\ ~c.stopreq /\ router.faults < MaxRouterFaults
    /\ Becomes(b, [c EXCEPT !.pc = "clear"])
    /\ router' = [router EXCEPT !.faults = @ + 1]
    /\ UNCHANGED svc

(* The mappings that are due are installed on a copy of theirs.            *)
Collect(b) ==
    LET c == client[b] IN
    /\ c.pc = "due"
    /\ Becomes(b, IF (~c.m.active \/ c.m.due) /\ ~c.stopreq
                  THEN [c EXCEPT !.pc = "map", !.local = c.m.port, !.attempt = 0]
                  ELSE [c EXCEPT !.pc = "sleep"])
    /\ UNCHANGED <<svc, router>>

(* The request is over; the copy is dropped.                               *)
Asked(c) == [c EXCEPT !.pc = "sleep", !.local = ListenPort, !.attempt = 0]

(* Mutant: the port the router agreed to in the end is not written back.   *)
WriteBackActive(c, port) == [Asked(c) EXCEPT !.m = [active |-> TRUE, due |-> FALSE, port |-> c.m.port]]

(* The granted mapping is written back to the registered one.              *)
WriteBack(c, port) == [Asked(c) EXCEPT !.m = [active |-> TRUE, due |-> FALSE, port |-> port]]

(* A NAT-PMP request goes by the internal port: the router answers with an *)
(* external one of its choice, in place of the one it had.  A UPnP request *)
(* asks for the external port and adds it.                                 *)
send_map_request == {<<port, {port}>> : port \in Ports}
add_port_mapping(c) == {<<c.local, router.table["upnp"] \cup {c.local}>>}
Offers(b) == IF b = "natpmp" THEN send_map_request ELSE add_port_mapping(client[b])

Granted(b) ==
    LET c == client[b] IN
    /\ c.pc = "map"
    /\ ~c.stopreq \/ b = "upnp"
    /\ \E offer \in Offers(b) :
          /\ router' = [router EXCEPT !.table[b] = offer[2], !.unheard[b] = @ \ {offer[1]}]
          /\ Becomes(b, WriteBack(c, offer[1]))
    /\ UNCHANGED svc

(* The router installs the mapping and the worker does not hear of it: the *)
(* reply is lost, or stop() interrupts the receive.                        *)
Unheard(b) ==
    LET c == client[b]
        interrupted == c.byte /\ b = "natpmp"
    IN /\ c.pc = "map"
       /\ interrupted \/ router.faults < MaxRouterFaults
       /\ \E offer \in Offers(b) :
             router' = [table |-> [router.table EXCEPT ![b] = offer[2]],
                        unheard |-> [router.unheard EXCEPT ![b] = @ \cup {offer[1]}],
                        faults |-> IF interrupted THEN router.faults ELSE router.faults + 1]
       /\ Becomes(b, Asked(c))
       /\ UNCHANGED svc

(* Refused, or no answer: the mapping stays as it was.                     *)
Refused(b) ==
    LET c == client[b] IN
    /\ c.pc = "map"
    /\ Becomes(b, Asked(c))
    /\ UNCHANGED <<svc, router>>

(* AddPortMapping: error 725 asks for a permanent lease, 718 and 501 for   *)
(* another port, and the request is made again, a few times and not once   *)
(* stop() was called.  A conflict with a mapping of our own is a fault.    *)
Retried(c) == IF c.attempt + 1 < MaxAttempts /\ ~c.stopreq THEN [c EXCEPT !.attempt = @ + 1] ELSE Asked(c)

PermanentOnly(b) ==
    LET c == client[b] IN
    /\ b = "upnp" /\ c.pc = "map" /\ ~c.permanent
    /\ Becomes(b, Retried([c EXCEPT !.permanent = TRUE]))
    /\ UNCHANGED <<svc, router>>

Conflict(b) ==
    LET c == client[b] IN
    /\ b = "upnp" /\ c.pc = "map"
    /\ \E port \in Ports : Becomes(b, Retried([c EXCEPT !.local = port]))
    /\ \/ c.local \notin router.table[b] /\ UNCHANGED router
       \/ /\ c.local \in router.table[b] /\ router.faults < MaxRouterFaults
          /\ router' = [router EXCEPT !.faults = @ + 1, !.unheard[b] = @ \cup {c.local}]
    /\ UNCHANGED svc

(* The sleep: the predicate is evaluated and the worker enrolled under     *)
(* cv_mutex_; it ends by a notification or the time of the next refresh.   *)
ToSleep(b) ==
    LET c == client[b] IN
    /\ c.pc \in {"sleep", "awake"}
    /\ Becomes(b, IF c.stopreq \/ c.wake THEN [c EXCEPT !.pc = "look", !.wake = FALSE] ELSE [c EXCEPT !.pc = "checked"])
    /\ UNCHANGED <<svc, router>>

Sleeps(b) ==
    LET c == client[b] IN
    /\ c.pc = "checked"
    /\ Becomes(b, [c EXCEPT !.pc = "asleep"])
    /\ UNCHANGED <<svc, router>>

TimesOut(b) ==
    LET c == client[b] IN
    /\ c.pc = "asleep"
    /\ Becomes(b, [c EXCEPT !.pc = "look", !.wake = FALSE, !.m.due = TRUE])
    /\ UNCHANGED <<svc, router>>

(* remove_all_mappings on the way out, for the mapping if it is active:    *)
(* NAT-PMP by the internal port, UPnP by the external one.  A delete may   *)
(* be lost or refused.                                                     *)
delete_port_mapping(c) == router.table["upnp"] \ {c.m.port}
delete_by_internal_port == {}

Clear(b) ==
    LET c == client[b] IN
    /\ c.pc = "clear"
    /\ router' = IF c.m.active THEN [router EXCEPT !.table[b] = IF b = "upnp" THEN delete_port_mapping(c) ELSE delete_by_internal_port] ELSE router
    /\ Becomes(b, [c EXCEPT !.pc = "done"])
    /\ UNCHANGED svc

ClearFails(b) ==
    LET c == client[b] IN
    /\ c.pc = "clear" /\ c.m.active /\ router.faults < MaxRouterFaults
    /\ router' = [router EXCEPT !.faults = @ + 1, !.unheard[b] = @ \cup router.table[b]]
    /\ Becomes(b, [c EXCEPT !.pc = "done"])
    /\ UNCHANGED svc

Worker(b) ==
    \/ Discover(b) \/ AskIp(b) \/ ClientLoop(b) \/ NoSocket(b) \/ Collect(b)
    \/ Granted(b) \/ Unheard(b) \/ Refused(b) \/ PermanentOnly(b) \/ Conflict(b)
    \/ ToSleep(b) \/ Sleeps(b) \/ TimesOut(b) \/ Clear(b) \/ ClearFails(b)

Stopping == StopRequests \/ StopWakes \/ StopJoins \/ StopReturns

=============================================================================
