---------------------------- MODULE PeerDirectory ----------------------------
(***************************************************************************)
(* One node's peer directory and the reactor threads that update it.       *)
(*                                                                         *)
(* Every reactor thread owns a disjoint set of connections and calls the   *)
(* node's delegate (Node::on_established, Node::on_closed) for them.  The  *)
(* only peer state the threads share is PeerTable, whose add and remove    *)
(* are critical sections; the capacity check before them and the           *)
(* application callbacks after them run outside the lock.  A delegate call *)
(* is therefore split at exactly those points: CheckLimit, TableAdd,       *)
(* CloseLoser, FireConnected on the way up; TableRemove, FireDisconnected  *)
(* on the way down.  With reactor_threads = 1 nothing interleaves inside a *)
(* call; with more it does.                                                *)
(*                                                                         *)
(* Sockets, handshakes and timers are in module Reactor; here a connection *)
(* is opening (its remote id is still zero), established or removed.       *)
(***************************************************************************)
EXTENDS Naturals, FiniteSets, PeerTable

CONSTANTS
    Peers,       \* ids of remote peers
    LocalId,     \* this node's own id (identity_.id)
    Larger,      \* the peers whose id is larger than LocalId (prefer_outbound)
    Conns,       \* connection handles, PeerRoute{reactor, conn}: never reused
    Reactors,    \* reactor threads of the pool
    Acceptor,    \* the reactor that owns the listening socket (index 0)
    MaxPeers,    \* NodeConfig::max_peers, 0 means unlimited
    None         \* no connection

ASSUME DirectoryAssumption ==
    /\ LocalId \notin Peers
    /\ Larger \subseteq Peers
    /\ Acceptor \in Reactors
    /\ MaxPeers \in Nat
    /\ None \notin Conns \cup Peers \cup {LocalId}

VARIABLES
    cstate,    \* life cycle of each connection
    role,      \* Connection::role()
    remote,    \* Connection::remote_id(), meaningful once established
    owner,     \* the reactor that adopted the connection
    route,     \* PeerTable::peers_: peer -> connection currently serving it
    marked,    \* Reactor::pending_close_, all reactors together
    batch,     \* the batch process_pending_close is working through
    tasks,     \* close tasks posted to a reactor by other threads
    call,      \* the delegate call each reactor thread is inside
    stopped,   \* reactors whose loop has been told to exit
    seen       \* last event the application received about each peer

vars == <<cstate, role, remote, owner, route, marked, batch, tasks, call,
          stopped, seen>>
connVars == <<cstate, role, remote, owner>>

Ids == Peers \cup {LocalId}
Steps == {"idle", "check", "add", "close", "connected", "closed", "disconnected"}

(* Thread at point s of the delegate call for connection c.                *)
Call(s, c) == [at |-> s, conn |-> c, loser |-> None, fresh |-> FALSE]
Idle == Call("idle", None)

(* A connection its reactor still holds in conns_ / id_to_socket_.         *)
Live(c) == cstate[c] \in {"opening", "established"}

(* PeerTable::size() *)
Known == {p \in Peers : route[p] # None}

TypeOK ==
    /\ cstate \in [Conns -> {"unused", "opening", "established", "removed"}]
    /\ role \in [Conns -> Roles]
    /\ remote \in [Conns -> Ids \cup {None}]
    /\ owner \in [Conns -> Reactors]
    /\ route \in [Peers -> Conns \cup {None}]
    /\ marked \in SUBSET Conns
    /\ batch \in SUBSET Conns
    /\ tasks \in [Reactors -> SUBSET Conns]
    /\ call \in [Reactors -> [at : Steps, conn : Conns \cup {None},
                              loser : Conns \cup {None}, fresh : BOOLEAN]]
    /\ stopped \in SUBSET Reactors
    /\ seen \in [Peers -> {"nothing", "connected", "disconnected"}]

-----------------------------------------------------------------------------
(* PeerTable::add.  AddResult is what it returns, AddRoute what it leaves  *)
(* in the table, AddLoser the connection the caller has to close.          *)

AddResult(p, c) ==
    IF route[p] = None THEN "NewPeer"
    ELSE IF route[p] = c THEN "Updated"
    ELSE IF KeepNew(role[route[p]], role[c], p \in Larger) THEN "Replaced"
    ELSE "Rejected"

AddRoute(p, c) == IF AddResult(p, c) = "Rejected" THEN route[p] ELSE c

AddLoser(p, c) ==
    IF AddResult(p, c) = "Replaced" THEN route[p]
    ELSE IF AddResult(p, c) = "Rejected" THEN c ELSE None

(* Mutant: remove() does not compare the route.                            *)
EvictsByPeer(p, c) == p \in Peers /\ route[p] # None

(* PeerTable::remove: only the connection that is routed evicts its peer.  *)
Evicts(p, c) == p \in Peers /\ route[p] = c

-----------------------------------------------------------------------------
(* Mutant: a close for another reactor's connection is dropped.            *)
CloseOnlyOwn(r, c) ==
    /\ marked' = IF owner[c] = r /\ Live(c) THEN marked \cup {c} ELSE marked
    /\ tasks' = tasks

(* Reactor::close executed on thread r: inline for its own connections     *)
(* (mark_for_close, if the id is still known), posted to the owner         *)
(* otherwise.                                                              *)
CloseFrom(r, c) ==
    IF owner[c] = r
      THEN /\ marked' = IF Live(c) THEN marked \cup {c} ELSE marked
           /\ tasks' = tasks
      ELSE /\ tasks' = [tasks EXCEPT ![owner[c]] = @ \cup {c}]
           /\ marked' = marked

(* Thread r is between delegate calls and may take up new work.            *)
Ready(r) == call[r].at = "idle"

(* ... and is not in the middle of process_pending_close, which tears the  *)
(* whole batch down before the loop comes round again.                     *)
Looping(r) == Ready(r) /\ r \notin stopped /\ \A c \in batch : owner[c] # r

Init ==
    /\ cstate = [c \in Conns |-> "unused"]
    /\ role = [c \in Conns |-> "Outbound"]
    /\ remote = [c \in Conns |-> None]
    /\ owner = [c \in Conns |-> Acceptor]
    /\ route = [p \in Peers |-> None]
    /\ marked = {}
    /\ batch = {}
    /\ tasks = [r \in Reactors |-> {}]
    /\ call = [r \in Reactors |-> Idle]
    /\ stopped = {}
    /\ seen = [p \in Peers |-> "nothing"]

-----------------------------------------------------------------------------
(* Connections come and go.                                                *)

(* Reactor::connect / ReactorPool::pick: an outbound dial is adopted.      *)
Dial(r, c) ==
    /\ Looping(r)
    /\ cstate[c] = "unused"
    /\ cstate' = [cstate EXCEPT ![c] = "opening"]
    /\ role' = [role EXCEPT ![c] = "Outbound"]
    /\ owner' = [owner EXCEPT ![c] = r]
    /\ UNCHANGED <<remote, route, marked, batch, tasks, call, stopped, seen>>

(* Node::admit_inbound, the coarse gate of Reactor::do_accept.             *)
AdmitInbound == MaxPeers = 0 \/ Cardinality(Known) < MaxPeers

Accept(c) ==
    /\ Looping(Acceptor)
    /\ cstate[c] = "unused"
    /\ AdmitInbound
    /\ cstate' = [cstate EXCEPT ![c] = "opening"]
    /\ role' = [role EXCEPT ![c] = "Inbound"]
    /\ owner' = [owner EXCEPT ![c] = Acceptor]
    /\ UNCHANGED <<remote, route, marked, batch, tasks, call, stopped, seen>>

(* The handshake proves the remote id: complete_established enters         *)
(* Node::on_established.                                                   *)
Establish(r, c, id) ==
    /\ Looping(r)
    /\ owner[c] = r
    /\ cstate[c] = "opening"
    /\ cstate' = [cstate EXCEPT ![c] = "established"]
    /\ remote' = [remote EXCEPT ![c] = id]
    /\ call' = [call EXCEPT ![r] = Call("check", c)]
    /\ UNCHANGED <<role, owner, route, marked, batch, tasks, stopped, seen>>

(* Mutant: the close is filed under the remote id, not the connection.     *)
LinkFailsWrongKey(r, c) ==
    /\ Looping(r)
    /\ owner[c] = r
    /\ Live(c)
    /\ marked' = marked \cup {remote[c]}
    /\ UNCHANGED <<connVars, route, batch, tasks, call, stopped, seen>>

(* A dial or handshake fails, a link breaks or the peer hangs up: the      *)
(* reactor marks its own connection for close.                             *)
LinkFails(r, c) ==
    /\ Looping(r)
    /\ owner[c] = r
    /\ Live(c)
    /\ c \notin marked
    /\ marked' = marked \cup {c}
    /\ UNCHANGED <<connVars, route, batch, tasks, call, stopped, seen>>

(* Node::route_close through a Peer handle held by any thread.             *)
CloseByHandle(c) ==
    /\ remote[c] # None
    /\ c \notin tasks[owner[c]]
    /\ tasks' = [tasks EXCEPT ![owner[c]] = @ \cup {c}]
    /\ UNCHANGED <<connVars, route, marked, batch, call, stopped, seen>>

(* Reactor::drain_tasks reaches a close task.                              *)
RunCloseTask(r, c) ==
    /\ Looping(r)
    /\ c \in tasks[r]
    /\ tasks' = [tasks EXCEPT ![r] = @ \ {c}]
    /\ marked' = IF Live(c) THEN marked \cup {c} ELSE marked
    /\ UNCHANGED <<connVars, route, batch, call, stopped, seen>>

-----------------------------------------------------------------------------
(* Node::on_established, on the thread of the connection.                  *)

(* Self-connection and peer-limit rejection.  The table is read here and   *)
(* written later: the lock is not held in between.                         *)
CheckLimit(r) ==
    LET c == call[r].conn
        refused == \/ remote[c] = LocalId
                   \/ /\ MaxPeers # 0
                      /\ role[c] = "Inbound"
                      /\ Cardinality(Known) >= MaxPeers
                      /\ remote[c] \notin Known
    IN /\ call[r].at = "check"
       /\ marked' = IF refused THEN marked \cup {c} ELSE marked
       /\ call' = [call EXCEPT ![r] = IF refused THEN Idle ELSE Call("add", c)]
       /\ UNCHANGED <<connVars, route, batch, tasks, stopped, seen>>

TableAdd(r) ==
    LET c == call[r].conn
        p == remote[c]
    IN /\ call[r].at = "add"
       /\ route' = [route EXCEPT ![p] = AddRoute(p, c)]
       /\ call' = [call EXCEPT ![r] =
                     [at |-> "close", conn |-> c, loser |-> AddLoser(p, c),
                      fresh |-> AddResult(p, c) = "NewPeer"]]
       /\ UNCHANGED <<connVars, marked, batch, tasks, stopped, seen>>

(* Tear down the loser of a duplicate, then decide whether to notify.      *)
CloseLoser(r) ==
    /\ call[r].at = "close"
    /\ IF call[r].loser = None THEN UNCHANGED <<marked, tasks>>
                               ELSE CloseFrom(r, call[r].loser)
    /\ call' = [call EXCEPT ![r] =
                  IF call[r].fresh THEN Call("connected", call[r].conn) ELSE Idle]
    /\ UNCHANGED <<connVars, route, batch, stopped, seen>>

(* peer_connected_ callbacks.                                              *)
FireConnected(r) ==
    /\ call[r].at = "connected"
    /\ seen' = [seen EXCEPT ![remote[call[r].conn]] = "connected"]
    /\ call' = [call EXCEPT ![r] = Idle]
    /\ UNCHANGED <<connVars, route, marked, batch, tasks, stopped>>

-----------------------------------------------------------------------------
(* Teardown.                                                               *)

(* Reactor::process_pending_close takes the marked connections as a batch. *)
StartTeardown(r) ==
    LET mine == {c \in marked : owner[c] = r}
    IN /\ Looping(r)
       /\ mine # {}
       /\ batch' = batch \cup mine
       /\ marked' = marked \ mine
       /\ UNCHANGED <<connVars, route, tasks, call, stopped, seen>>

(* Mutant: the connection goes away without telling the delegate.          *)
RemoveSilently(r, c) ==
    /\ Ready(r)
    /\ c \in batch
    /\ owner[c] = r
    /\ batch' = batch \ {c}
    /\ cstate' = IF Live(c) THEN [cstate EXCEPT ![c] = "removed"] ELSE cstate
    /\ UNCHANGED <<role, remote, owner, route, marked, tasks, call, stopped, seen>>

(* Reactor::remove: out of conns_ and id_to_socket_, then on_closed.  A    *)
(* connection that never established has a zero remote id and is in no     *)
(* table: on_closed only reports the failed dial.                          *)
Remove(r, c) ==
    /\ Ready(r)
    /\ c \in batch
    /\ owner[c] = r
    /\ batch' = batch \ {c}
    /\ IF Live(c)
         THEN /\ cstate' = [cstate EXCEPT ![c] = "removed"]
              /\ call' = IF remote[c] = None THEN call
                         ELSE [call EXCEPT ![r] = Call("closed", c)]
         ELSE UNCHANGED <<cstate, call>>
    /\ UNCHANGED <<role, remote, owner, route, marked, tasks, stopped, seen>>

(* Mutant: the disconnect event fires whether or not remove() succeeded.   *)
TableRemoveAlwaysFires(r) ==
    LET c == call[r].conn
        p == remote[c]
    IN /\ call[r].at = "closed"
       /\ route' = IF Evicts(p, c) THEN [route EXCEPT ![p] = None] ELSE route
       /\ call' = [call EXCEPT ![r] = IF p \in Peers THEN Call("disconnected", c)
                                                     ELSE Idle]
       /\ UNCHANGED <<connVars, marked, batch, tasks, stopped, seen>>

(* Node::on_closed: peers_.remove(id, route).                              *)
TableRemove(r) ==
    LET c == call[r].conn
        p == remote[c]
    IN /\ call[r].at = "closed"
       /\ route' = IF Evicts(p, c) THEN [route EXCEPT ![p] = None] ELSE route
       /\ call' = [call EXCEPT ![r] =
                     IF Evicts(p, c) THEN Call("disconnected", c) ELSE Idle]
       /\ UNCHANGED <<connVars, marked, batch, tasks, stopped, seen>>

(* peer_disconnected_ callbacks.                                           *)
FireDisconnected(r) ==
    /\ call[r].at = "disconnected"
    /\ seen' = [seen EXCEPT ![remote[call[r].conn]] = "disconnected"]
    /\ call' = [call EXCEPT ![r] = Idle]
    /\ UNCHANGED <<connVars, route, marked, batch, tasks, stopped>>

(* Reactor::stop as the loop sees it: the loop exits and every remaining   *)
(* connection is closed (drain, process_pending_close,                     *)
(* shutdown_connections).                                                  *)
Stop(r) ==
    /\ Looping(r)
    /\ stopped' = stopped \cup {r}
    /\ batch' = batch \cup {c \in Conns : owner[c] = r /\ Live(c)}
    /\ marked' = {c \in marked : owner[c] # r}
    /\ UNCHANGED <<connVars, route, tasks, call, seen>>

(* Node::start after a completed Node::stop relaunches the same reactors.  *)
Restart ==
    /\ stopped = Reactors
    /\ \A r \in Reactors : Ready(r)
    /\ batch = {}
    /\ stopped' = {}
    /\ UNCHANGED <<connVars, route, marked, batch, tasks, call, seen>>

-----------------------------------------------------------------------------
(* The delegate call thread r is inside, one step further.                 *)
DelegateStep(r) ==
    \/ CheckLimit(r)
    \/ TableAdd(r)
    \/ CloseLoser(r)
    \/ FireConnected(r)
    \/ TableRemove(r)
    \/ FireDisconnected(r)

Next ==
    \/ \E r \in Reactors : DelegateStep(r) \/ StartTeardown(r) \/ Stop(r)
    \/ \E r \in Reactors, c \in Conns :
         \/ Dial(r, c)
         \/ LinkFails(r, c)
         \/ RunCloseTask(r, c)
         \/ Remove(r, c)
         \/ \E id \in Ids : Establish(r, c, id)
    \/ \E c \in Conns : Accept(c) \/ CloseByHandle(c)
    \/ Restart

Spec == Init /\ [][Next]_vars

(* Reactor threads never stop taking steps: the loop polls with a 50 ms    *)
(* cap, so a delegate call finishes, a posted task is drained and a batch  *)
(* is torn down.  Nothing is assumed of dials, peers or the application.   *)
Fairness ==
    \A r \in Reactors :
        /\ WF_vars(DelegateStep(r))
        /\ WF_vars(StartTeardown(r))
        /\ \A c \in Conns : WF_vars(RunCloseTask(r, c)) /\ WF_vars(Remove(r, c))

FairSpec == Spec /\ Fairness

-----------------------------------------------------------------------------
(* Properties.                                                             *)

(* A peer is only ever routed to a connection that authenticated as that   *)
(* peer and that its reactor still holds, or whose on_closed call is about *)
(* to drop the route: Node::send never reaches the wrong peer, and no      *)
(* entry outlives its connection.                                          *)
RouteIsLive ==
    \A p \in Peers : route[p] # None =>
        /\ remote[route[p]] = p
        /\ \/ cstate[route[p]] = "established"
           \/ LET r == owner[route[p]]
              IN call[r].at = "closed" /\ call[r].conn = route[p]

(* The connection is on its way out (or still on its way in): it is marked *)
(* or posted for close, or a delegate call that will decide about it runs. *)
Pending(c) ==
    \/ c \in marked \cup batch \cup tasks[owner[c]]
    \/ call[owner[c]].conn = c /\ call[owner[c]].at \in {"check", "add"}
    \/ \E r \in Reactors : call[r].at = "close" /\ call[r].loser = c

(* "Tear down the loser of a duplicate/cross-connect race so it can't      *)
(* linger holding an fd" (Node::on_established): an established connection *)
(* that does not serve its peer is always already condemned, whichever     *)
(* reactors the two duplicates live on.                                    *)
NoLingeringLoser ==
    \A c \in Conns :
        (cstate[c] = "established" /\ \A p \in Peers : route[p] # c) => Pending(c)

(* PeerTable::remove: the teardown of a stale connection never evicts the  *)
(* newer one that replaced it; a peer loses its route only when the very   *)
(* connection that served it has been removed.                             *)
OnlyOwnTeardownEvicts ==
    [][\A p \in Peers :
          (route[p] # None /\ route'[p] = None) => cstate[route[p]] = "removed"]_vars

(* "Fire connected only on the 0 -> 1 transition ... must NOT surface a    *)
(* disconnect for a peer that is still connected" (Node::on_established,   *)
(* Node::on_closed): whenever no delegate call is in progress, the last    *)
(* event the application received about a peer agrees with the table.  The *)
(* callbacks run after the table's lock is released, so this is promised   *)
(* only of a peer all of whose connections live on one reactor: two        *)
(* threads may deliver their events in the opposite order of their table   *)
(* updates.                                                                *)
AppViewSettled ==
    (\A r \in Reactors : Ready(r)) =>
        \A p \in Peers :
            (\E r \in Reactors : \A c \in Conns : remote[c] = p => owner[c] = r)
                => ((seen[p] = "connected") <=> (route[p] # None))

=============================================================================
