---------------------------- MODULE StorageSync ----------------------------
(***************************************************************************)
(* Replication of StorageManager between nodes: put and remove broadcast   *)
(* an entry, a received entry is applied under Last-Write-Wins and flooded *)
(* on if it won, a new peer is asked for a snapshot.                       *)
(*                                                                         *)
(* put and remove read the clock, then take storage_mutex_, then broadcast *)
(* after releasing it: three steps of the application thread.  A message   *)
(* handler runs on the reactor thread and is one step.  A connection can   *)
(* die without an end noticing, and a new one may reach a node that still  *)
(* routes the peer over the dead one: Node then swaps the route and fires  *)
(* no peer-connected event (Node::on_established).                         *)
(***************************************************************************)
EXTENDS Naturals, Sequences

CONSTANTS
    Nodes,       \* node ids, numbers
    Topology,    \* the pairs {n, m} that ever connect
    Keys, Values,
    Ahead,       \* Ahead[n]: how far n's wall clock runs ahead
    Calls,       \* API calls the application makes: "put", "remove", "compact", "sync"
    Paced,       \* are calls apart: one at a time, on a clock past every stamp
    MaxTime, MaxOps, MaxDrops  \* bounds

-----------------------------------------------------------------------------
(* The Last-Write-Wins order of StorageEntry.  A node id is a number: the  *)
(* tie-breaker compares the hexadecimal ids, of which only the order       *)
(* matters.  A key without an entry is Absent, which every entry replaces. *)

Tombstone == "deleted"
Absent == [ts |-> 0, origin |-> 0, val |-> "absent"]

Entry(ts, n, v) == [ts |-> ts, origin |-> n, val |-> v]

(* StorageEntry::wins_over, on top of "no entry yet".                      *)
wins_over(e, f) ==
    f = Absent \/ e.ts > f.ts \/ (e.ts = f.ts /\ e.origin > f.origin)

(* apply_remote_entry: the entry kept when e meets f.                      *)
Merge(f, e) == IF wins_over(e, f) THEN e ELSE f

-----------------------------------------------------------------------------
ASSUME SyncAssumption ==
    /\ Nodes \subseteq Nat \ {0}
    /\ \A e \in Topology : \E n, m \in Nodes : n # m /\ e = {n, m}
    /\ Ahead \in [Nodes -> Nat]
    /\ Tombstone \notin Values /\ "absent" \notin Values
    /\ Paced \in BOOLEAN
    /\ {MaxTime, MaxOps, MaxDrops} \subseteq Nat

VARIABLES
    entries,   \* entries_ of each node
    op,        \* the application call in progress at each node
    up,        \* up[n]: the peers in n's peer table
    link,      \* pairs joined by a live connection
    fresh,     \* fresh[n]: live connections n has not yet established
    chan,      \* chan[<<n, m>>]: frames from n on their way to m
    status,    \* sync_status_
    now,       \* wall clock
    ops, drops,
    written,   \* history: every entry put or remove stored
    waived     \* history: what has happened that convergence is not promised after

vars == <<entries, op, up, link, fresh, chan, status, now, ops, drops, written,
          waived>>

Idle == [at |-> "idle"]
Write(k, e) == [key |-> k, new |-> e]
Stamps == 0..(MaxTime + 3)
Entries == [ts : Stamps, origin : Nodes \cup {0}, val : Values \cup {Tombstone, "absent"}]

TypeOK ==
    /\ entries \in [Nodes -> [Keys -> Entries]]
    /\ up \in [Nodes -> SUBSET Nodes]
    /\ \A n \in Nodes : \A m \in up[n] : {n, m} \in Topology
    /\ link \subseteq Topology
    /\ fresh \in [Nodes -> SUBSET Nodes]
    /\ waived \subseteq {"compact", "swap"}
    /\ status \in [Nodes -> {"NOT_STARTED", "IN_PROGRESS", "COMPLETED"}]

Init ==
    /\ entries = [n \in Nodes |-> [k \in Keys |-> Absent]]
    /\ op = [n \in Nodes |-> Idle]
    /\ up = [n \in Nodes |-> {}]
    /\ link = {}
    /\ fresh = [n \in Nodes |-> {}]
    /\ chan = [way \in Nodes \X Nodes |-> <<>>]
    /\ status = [n \in Nodes |-> "NOT_STARTED"]
    /\ now = 1
    /\ ops = 0
    /\ drops = 0
    /\ written = {}
    /\ waived = {}

netVars == <<up, link, fresh, drops, waived>>

(* A frame reaches m only over a live connection that n routes to.         *)
Reaches(n, m) == m \in up[n] /\ {n, m} \in link /\ m \notin fresh[n]

(* chan after n sends msg to every peer of S.                              *)
SentTo(c, n, S, msg) ==
    [way \in Nodes \X Nodes |->
        IF way[1] = n /\ way[2] \in S /\ Reaches(n, way[2]) THEN Append(c[way], msg) ELSE c[way]]

-----------------------------------------------------------------------------
(* put_internal and remove.                                                *)

(* The environment of a paced run.                                         *)
Apart(n) ==
    /\ \A m \in Nodes : op[m] = Idle
    /\ \A w \in written : w.new.ts < now + Ahead[n]

(* The clock is read before the lock is taken.                             *)
Stamp(n, call, k, v) ==
    /\ call \in Calls
    /\ Paced => Apart(n)
    /\ op[n] = Idle
    /\ ops < MaxOps
    /\ ops' = ops + 1
    /\ op' = [op EXCEPT ![n] = [at |-> "stamped", call |-> call,
                                w |-> Write(k, Entry(now + Ahead[n], n, v))]]
    /\ UNCHANGED <<entries, netVars, chan, status, now, written>>

(* The entry is stored; it still has to be broadcast.                      *)
Store(n) ==
    /\ entries' = [entries EXCEPT ![n][op[n].w.key] = op[n].w.new]
    /\ written' = written \cup {op[n].w}
    /\ op' = [op EXCEPT ![n].at = "stored"]

Refuse(n) ==
    /\ op' = [op EXCEPT ![n] = Idle]
    /\ UNCHANGED <<entries, written>>

(* put_internal under storage_mutex_: an entry that does not win is        *)
(* refused.                                                                *)
Put(n) ==
    /\ op[n].at = "stamped"
    /\ op[n].call = "put"
    /\ IF wins_over(op[n].w.new, entries[n][op[n].w.key]) THEN Store(n) ELSE Refuse(n)
    /\ UNCHANGED <<netVars, chan, status, now, ops>>

(* remove under storage_mutex_: the tombstone replaces the entry whatever  *)
(* its stamp.                                                              *)
Remove(n) ==
    /\ op[n].at = "stamped"
    /\ op[n].call = "remove"
    /\ IF entries[n][op[n].w.key].val \in Values THEN Store(n) ELSE Refuse(n)
    /\ UNCHANGED <<netVars, chan, status, now, ops>>

(* broadcast_entry, after the lock is released.                            *)
Broadcast(n) ==
    /\ op[n].at = "stored"
    /\ chan' = SentTo(chan, n, Nodes, [type |-> "ENTRY", w |-> op[n].w])
    /\ op' = [op EXCEPT ![n] = Idle]
    /\ UNCHANGED <<entries, netVars, status, now, ops, written>>

(* compact: every tombstone is forgotten.                                  *)
Compact(n) ==
    /\ "compact" \in Calls
    /\ ops < MaxOps
    /\ ops' = ops + 1
    /\ \E k \in Keys : entries[n][k].val = Tombstone
    /\ entries' = [entries EXCEPT ![n] =
                      [k \in Keys |-> IF @[k].val = Tombstone THEN Absent ELSE @[k]]]
    /\ waived' = waived \cup {"compact"}
    /\ UNCHANGED <<op, up, link, fresh, drops, chan, status, now, written>>

(* request_sync: a snapshot is asked of one connected peer.                *)
RequestSync(n, m) ==
    /\ "sync" \in Calls
    /\ ops < MaxOps
    /\ ops' = ops + 1
    /\ m \in up[n]
    /\ status' = [status EXCEPT ![n] = "IN_PROGRESS"]
    /\ chan' = SentTo(chan, n, {m}, [type |-> "SYNC_REQUEST"])
    /\ UNCHANGED <<entries, op, netVars, now, written>>

Tick ==
    /\ now < MaxTime
    /\ now' = now + 1
    /\ UNCHANGED <<entries, op, netVars, chan, status, ops, written>>

-----------------------------------------------------------------------------
(* Messages (on_storage_message).                                          *)

(* Mutant: the last entry to arrive wins.                                  *)
OnEntryOverwrites(n, from, msg) ==
    /\ msg.type = "ENTRY"
    /\ entries' = [entries EXCEPT ![n][msg.w.key] = msg.w.new]
    /\ chan' = SentTo([chan EXCEPT ![<<from, n>>] = Tail(@)], n, {}, msg)
    /\ UNCHANGED status

(* OP_ENTRY: apply, and forward to the other peers if it won.              *)
OnEntry(n, from, msg) ==
    LET won == wins_over(msg.w.new, entries[n][msg.w.key])
    IN /\ msg.type = "ENTRY"
       /\ entries' = [entries EXCEPT ![n][msg.w.key] = Merge(@, msg.w.new)]
       /\ chan' = SentTo([chan EXCEPT ![<<from, n>>] = Tail(@)], n,
                         IF won THEN Nodes \ {from} ELSE {}, msg)
       /\ UNCHANGED status

(* Mutant: the snapshot leaves tombstones out.                             *)
OnSyncRequestLiveOnly(n, from, msg) ==
    /\ msg.type = "SYNC_REQUEST"
    /\ chan' = SentTo([chan EXCEPT ![<<from, n>>] = Tail(@)], n, {from},
                      [type |-> "SYNC_RESPONSE",
                       all |-> [k \in Keys |-> IF entries[n][k].val = Tombstone THEN Absent
                                               ELSE entries[n][k]]])
    /\ UNCHANGED <<entries, status>>

(* OP_SYNC_REQUEST: answer with everything, tombstones included.           *)
OnSyncRequest(n, from, msg) ==
    /\ msg.type = "SYNC_REQUEST"
    /\ chan' = SentTo([chan EXCEPT ![<<from, n>>] = Tail(@)], n, {from},
                      [type |-> "SYNC_RESPONSE", all |-> entries[n]])
    /\ UNCHANGED <<entries, status>>

(* OP_SYNC_RESPONSE: each entry is applied; none is forwarded.             *)
OnSyncResponse(n, from, msg) ==
    /\ msg.type = "SYNC_RESPONSE"
    /\ entries' = [entries EXCEPT ![n] =
                      [k \in Keys |-> IF msg.all[k] = Absent THEN @[k] ELSE Merge(@[k], msg.all[k])]]
    /\ status' = [status EXCEPT ![n] = "COMPLETED"]
    /\ chan' = [chan EXCEPT ![<<from, n>>] = Tail(@)]

Deliver(from, n) ==
    /\ chan[<<from, n>>] # <<>>
    /\ from \notin fresh[n]
    /\ LET msg == Head(chan[<<from, n>>])
       IN OnEntry(n, from, msg) \/ OnSyncRequest(n, from, msg) \/ OnSyncResponse(n, from, msg)
    /\ UNCHANGED <<op, netVars, now, ops, written>>

-----------------------------------------------------------------------------
(* Connections.                                                            *)

(* A handshake is about to complete between n and m.                       *)
Connect(n, m) ==
    /\ {n, m} \in Topology \ link
    /\ link' = link \cup {{n, m}}
    /\ fresh' = [fresh EXCEPT ![n] = @ \cup {m}, ![m] = @ \cup {n}]
    /\ UNCHANGED <<entries, op, up, drops, waived, chan, status, now, ops, written>>

(* Node::on_established -> on_peer_connected on the 0 -> 1 transition only:*)
(* a swapped route leaves the peer connected, and no snapshot is asked.    *)
Establish(n, m) ==
    /\ m \in fresh[n]
    /\ fresh' = [fresh EXCEPT ![n] = @ \ {m}]
    /\ up' = [up EXCEPT ![n] = @ \cup {m}]
    /\ IF m \in up[n]
         THEN waived' = waived \cup {"swap"} /\ UNCHANGED <<chan, status>>
         ELSE /\ chan' = [chan EXCEPT ![<<n, m>>] = Append(@, [type |-> "SYNC_REQUEST"])]
              /\ status' = [status EXCEPT ![n] = IF @ = "NOT_STARTED" THEN "IN_PROGRESS" ELSE @]
              /\ UNCHANGED waived
    /\ UNCHANGED <<entries, op, link, drops, now, ops, written>>

(* The connection dies with whatever was in flight.                        *)
Drop(n, m) ==
    /\ {n, m} \in link
    /\ drops < MaxDrops
    /\ drops' = drops + 1
    /\ link' = link \ {{n, m}}
    /\ fresh' = [fresh EXCEPT ![n] = @ \ {m}, ![m] = @ \ {n}]
    /\ chan' = [chan EXCEPT ![<<n, m>>] = <<>>, ![<<m, n>>] = <<>>]
    /\ UNCHANGED <<entries, op, up, waived, status, now, ops, written>>

(* Node::on_closed: n's end of the dead connection is torn down.           *)
Notice(n, m) ==
    /\ m \in up[n]
    /\ {n, m} \notin link
    /\ up' = [up EXCEPT ![n] = @ \ {m}]
    /\ UNCHANGED <<entries, op, link, fresh, drops, waived, chan, status, now, ops, written>>

Next ==
    \/ \E n \in Nodes :
         \/ \E k \in Keys :
              \/ \E v \in Values : Stamp(n, "put", k, v)
              \/ Stamp(n, "remove", k, Tombstone)
         \/ Put(n) \/ Remove(n) \/ Broadcast(n) \/ Compact(n)
    \/ \E n, m \in Nodes :
         \/ RequestSync(n, m) \/ Deliver(n, m)
         \/ Connect(n, m) \/ Establish(n, m) \/ Drop(n, m) \/ Notice(n, m)
    \/ Tick

Spec == Init /\ [][Next]_vars

-----------------------------------------------------------------------------
(* Properties.                                                             *)

NoTraffic == \A way \in Nodes \X Nodes : chan[way] = <<>>

(* Everybody is connected as far as the topology goes and nothing is left  *)
(* to do.                                                                  *)
Quiet ==
    /\ link = Topology
    /\ NoTraffic
    /\ \A n \in Nodes : op[n] = Idle /\ fresh[n] = {}

(* "Both ends do this on connect, so the two databases converge via LWW"   *)
(* (on_peer_connected), "a late joiner catches up" (storage.h): once a     *)
(* connected network is quiet every node holds the same entries, and none  *)
(* of them is older than an entry some call stored.  Nothing is promised   *)
(* after a node compacted (tombstones others still need are gone) or after *)
(* a new connection swapped a half-open one out (no snapshot is asked).    *)
StoresConverge ==
    (Quiet /\ waived = {}) =>
        \A n \in Nodes :
            /\ \A m \in Nodes : entries[n] = entries[m]
            /\ \A w \in written : ~wins_over(w.new, entries[n][w.key])

(* LWW conflict resolution on one node: whichever thread, message or       *)
(* snapshot brings an entry, it replaces only one it wins over, and only a *)
(* tombstone is ever forgotten.                                            *)
OnlyNewerReplaces ==
    [][\A n \in Nodes, k \in Keys :
          entries'[n][k] # entries[n][k] =>
              \/ wins_over(entries'[n][k], entries[n][k])
              \/ entries'[n][k] = Absent /\ entries[n][k].val = Tombstone]_vars

=============================================================================
