------------------------------- MODULE PubSub -------------------------------
(***************************************************************************)
(* GossipSub for one topic: who subscribes, what each node believes of its *)
(* peers, the mesh (GRAFT, PRUNE), publishing along mesh or fanout, and    *)
(* recovery of a missed message through IHAVE and IWANT.                   *)
(*                                                                         *)
(* Every handler changes the state under a mutex and sends afterwards,     *)
(* outside it.  Three threads of a node do so: the application, a reactor  *)
(* (frames, peer events) and the heartbeat.  A thread's unsent frames are  *)
(* its outbox, and another thread may run, and send, before they leave.    *)
(***************************************************************************)
EXTENDS Naturals, FiniteSets, Sequences

CONSTANTS
    AllNodes,
    Setups,          \* deployments to explore, each a record as in SetupOK
    FanoutSize, GossipFactor,
    SeenLimit,
    MaxMessages      \* most messages any deployment publishes

(* A deployment: its nodes, those subscribed (and known to each other) and *)
(* meshed at the start, the options, what applications and validators do,  *)
(* whether frames arrive within a heartbeat, and bounds on calls,          *)
(* messages and connection changes.                                        *)
SetupOK(s) ==
    /\ s.nodes \subseteq AllNodes
    /\ s.subscribed \subseteq s.nodes /\ s.refusing \subseteq s.nodes
    /\ s.mesh \in [s.nodes -> SUBSET s.subscribed]
    /\ s.low <= s.target /\ s.target <= s.high
    /\ s.windows \in Nat \ {0} /\ s.offered <= s.windows
    /\ s.publishers \subseteq s.nodes /\ s.prompt \in BOOLEAN
    /\ s.calls \subseteq {"subscribe", "unsubscribe"}
    /\ s.maxCalls \in Nat /\ s.maxMessages \in 0..MaxMessages /\ s.maxDrops \in Nat

ASSUME PubSubAssumption ==
    /\ \A s \in Setups : SetupOK(s)
    /\ {MaxMessages, SeenLimit, FanoutSize, GossipFactor} \subseteq Nat

Threads == {"app", "react", "beat"}
Ids == 1..MaxMessages

VARIABLES
    setup,         \* the deployment, chosen once
    subscribed,    \* is the topic in subscriptions_
    subscribers,   \* Topic::subscribers, per node
    mesh,          \* Topic::mesh
    fanout,        \* Topic::fanout
    seen,          \* seen_order_ (seen_ is its range)
    history,       \* history_, newest window first; mcache_ holds the union
    out,           \* unsent frames of each thread
    beating,       \* is a heartbeat between its sends and its history shift
    up,            \* peers of each node (between connected and disconnected)
    link,          \* live connections
    chan,          \* frames under way
    published,     \* seqno_ counters, as one count of messages
    heard,         \* history: how often the handler of n got message i
    calls, drops

topicVars == <<subscribed, subscribers, mesh, fanout>>
cacheVars == <<seen, history>>
netVars == <<setup, up, link, drops>>
vars == <<topicVars, cacheVars, out, beating, netVars, chan, published, heard, calls>>

Nodes == setup.nodes
Subscribed == setup.subscribed
MeshLow == setup.low
MeshTarget == setup.target
MeshHigh == setup.high
HistoryLength == setup.windows
HistoryGossip == setup.offered

Others(n) == Nodes \ {n}
Ctrl(op) == [op |-> op, ids |-> {}]
Frame(op, S) == [op |-> op, ids |-> S]
To(S, msg) == IF S = {} THEN <<>> ELSE <<[to |-> S, msg |-> msg]>>
Cached(n) == UNION {history[n][i] : i \in DOMAIN history[n]}
Seen(n) == {seen[n][i] : i \in DOMAIN seen[n]}

TypeOK ==
    /\ setup \in Setups
    /\ subscribed \in [Nodes -> BOOLEAN]
    /\ \A n \in Nodes :
         /\ mesh[n] \subseteq subscribers[n] /\ fanout[n] \subseteq subscribers[n]
         /\ subscribers[n] \subseteq up[n] /\ up[n] \subseteq Others(n)
         /\ ~subscribed[n] => mesh[n] = {}
         /\ Len(history[n]) <= HistoryLength + 1 /\ Len(seen[n]) <= SeenLimit
    /\ \A n \in Nodes, t \in Threads : Len(out[n][t]) <= 3

Init ==
    /\ setup \in Setups
    /\ subscribed = [n \in Nodes |-> n \in Subscribed]
    /\ subscribers = [n \in Nodes |-> Subscribed \ {n}]
    /\ mesh = setup.mesh
    /\ fanout = [n \in Nodes |-> {}]
    /\ seen = [n \in Nodes |-> <<>>]
    /\ history = [n \in Nodes |-> <<{}>>]
    /\ out = [n \in Nodes |-> [t \in Threads |-> <<>>]]
    /\ beating = [n \in Nodes |-> FALSE]
    /\ up = [n \in Nodes |-> IF Subscribed = {} THEN {} ELSE Others(n)]
    /\ link = IF Subscribed = {} THEN {} ELSE {e \in SUBSET Nodes : Cardinality(e) = 2}
    /\ chan = [way \in Nodes \X Nodes |-> <<>>]
    /\ published = 0
    /\ heard = [n \in Nodes |-> [i \in Ids |-> 0]]
    /\ calls = 0 /\ drops = 0

-----------------------------------------------------------------------------
(* maintain_mesh_locked: the meshes it may leave n with.                   *)

Samples(S, k) ==
    LET size == IF Cardinality(S) < k THEN Cardinality(S) ELSE k
    IN  {T \in SUBSET S : Cardinality(T) = size}

Maintained(m, known) ==
    IF Cardinality(m) < MeshLow
    THEN {m \cup T : T \in Samples(known \ m, MeshTarget - Cardinality(m))}
    ELSE IF Cardinality(m) > MeshHigh
    THEN {m \ T : T \in Samples(m, Cardinality(m) - MeshTarget)}
    ELSE {m}

(* The control frames that take the mesh from old to new.                  *)
Changes(old, new) == To(new \ old, Ctrl("GRAFT")) \o To(old \ new, Ctrl("PRUNE"))

Idle(n, t) == out[n][t] = <<>>
Outbox(n, t, frames) == out' = [out EXCEPT ![n][t] = frames]

-----------------------------------------------------------------------------
(* The application.                                                        *)

Subscribe(n) ==
    /\ "subscribe" \in setup.calls /\ calls < setup.maxCalls
    /\ Idle(n, "app") /\ ~subscribed[n]
    /\ subscribed' = [subscribed EXCEPT ![n] = TRUE]
    /\ \E m \in Maintained(mesh[n], subscribers[n]) :
         /\ mesh' = [mesh EXCEPT ![n] = m]
         /\ Outbox(n, "app", To(Nodes, Ctrl("SUBSCRIBE")) \o Changes(mesh[n], m))
    /\ calls' = calls + 1
    /\ UNCHANGED <<subscribers, fanout, cacheVars, beating, netVars, chan, published, heard>>

Unsubscribe(n) ==
    /\ "unsubscribe" \in setup.calls /\ calls < setup.maxCalls
    /\ Idle(n, "app") /\ subscribed[n]
    /\ subscribed' = [subscribed EXCEPT ![n] = FALSE]
    /\ mesh' = [mesh EXCEPT ![n] = {}]
    /\ Outbox(n, "app", To(Nodes, Ctrl("UNSUBSCRIBE")) \o To(mesh[n], Ctrl("PRUNE")))
    /\ calls' = calls + 1
    /\ UNCHANGED <<subscribers, fanout, cacheVars, beating, netVars, chan, published, heard>>

(* mark_seen: the oldest id makes room.                                    *)
MarkSeen(s, i) ==
    LET t == Append(s, i) IN IF Len(t) > SeenLimit THEN Tail(t) ELSE t

(* mark_seen, cache_message and deliver_local of a message new to n.       *)
TakeIn(n, i) ==
    /\ seen' = [seen EXCEPT ![n] = MarkSeen(@, i)]
    /\ history' = IF i \in Cached(n) THEN history ELSE [history EXCEPT ![n][1] = @ \cup {i}]
    /\ heard' = [heard EXCEPT ![n][i] = @ + (IF subscribed[n] THEN 1 ELSE 0)]

Publish(n) ==
    LET i == published + 1 IN
    /\ n \in setup.publishers /\ published < setup.maxMessages
    /\ Idle(n, "app")
    /\ published' = i
    /\ \/ /\ subscribed[n]
          /\ UNCHANGED fanout
          /\ Outbox(n, "app", To(mesh[n], Frame("PUBLISH", {i})))
       \/ /\ ~subscribed[n]
          /\ \E T \in IF Cardinality(fanout[n]) < FanoutSize
                      THEN Samples(subscribers[n] \ fanout[n], FanoutSize - Cardinality(fanout[n]))
                      ELSE {{}} :
               /\ fanout' = [fanout EXCEPT ![n] = @ \cup T]
               /\ Outbox(n, "app", To(fanout[n] \cup T, Frame("PUBLISH", {i})))
    /\ TakeIn(n, i)
    /\ UNCHANGED <<subscribed, subscribers, mesh, beating, netVars, chan, calls>>

-----------------------------------------------------------------------------
(* Frames from peer m: the handlers of on_gossip.                          *)

RecvSubscribe(n, m) ==
    LET known == subscribers[n] \cup {m} IN
    /\ subscribers' = [subscribers EXCEPT ![n] = known]
    /\ \E new \in IF subscribed[n] THEN Maintained(mesh[n], known) ELSE {mesh[n]} :
         /\ mesh' = [mesh EXCEPT ![n] = new]
         /\ Outbox(n, "react", Changes(mesh[n], new))
    /\ UNCHANGED <<fanout, cacheVars, heard>>

RecvUnsubscribe(n, m) ==
    /\ subscribers' = [subscribers EXCEPT ![n] = @ \ {m}]
    /\ mesh' = [mesh EXCEPT ![n] = @ \ {m}]
    /\ fanout' = [fanout EXCEPT ![n] = @ \ {m}]
    /\ UNCHANGED <<out, cacheVars, heard>>

RecvGraft(n, m) ==
    /\ \/ /\ subscribed[n]
          /\ subscribers' = [subscribers EXCEPT ![n] = @ \cup {m}]
          /\ mesh' = [mesh EXCEPT ![n] = @ \cup {m}]
          /\ UNCHANGED out
       \/ /\ ~subscribed[n]
          /\ Outbox(n, "react", To({m}, Ctrl("PRUNE")))
          /\ UNCHANGED <<subscribers, mesh>>
    /\ UNCHANGED <<fanout, cacheVars, heard>>

RecvPrune(n, m) ==
    /\ mesh' = [mesh EXCEPT ![n] = @ \ {m}]
    /\ UNCHANGED <<subscribers, fanout, out, cacheVars, heard>>

(* Mutant: no dedup.                                                       *)
RecvPublishAlways(n, m, i) ==
    /\ TakeIn(n, i)
    /\ Outbox(n, "react",
              IF subscribed[n] THEN To(mesh[n] \ {m}, Frame("PUBLISH", {i})) ELSE <<>>)
    /\ UNCHANGED <<subscribers, mesh, fanout>>

(* A message already seen is dropped; one the validator does not accept is *)
(* seen and goes no further.                                               *)
RecvPublish(n, m, i) ==
    /\ \/ i \in Seen(n) /\ UNCHANGED <<out, cacheVars, heard>>
       \/ /\ i \notin Seen(n) /\ n \in setup.refusing
          /\ seen' = [seen EXCEPT ![n] = MarkSeen(@, i)]
          /\ UNCHANGED <<out, history, heard>>
       \/ /\ i \notin Seen(n) /\ n \notin setup.refusing
          /\ TakeIn(n, i)
          /\ Outbox(n, "react",
                    IF subscribed[n] THEN To(mesh[n] \ {m}, Frame("PUBLISH", {i})) ELSE <<>>)
    /\ UNCHANGED <<subscribers, mesh, fanout>>

RecvIhave(n, m, S) ==
    /\ Outbox(n, "react", IF S \subseteq Seen(n) THEN <<>>
                          ELSE To({m}, Frame("IWANT", S \ Seen(n))))
    /\ UNCHANGED <<subscribers, mesh, fanout, cacheVars, heard>>

RecvIwant(n, m, S) ==
    /\ Outbox(n, "react", IF S \cap Cached(n) = {} THEN <<>>
                          ELSE To({m}, Frame("RESEND", S \cap Cached(n))))
    /\ UNCHANGED <<subscribers, mesh, fanout, cacheVars, heard>>

(* One PUBLISH frame per message; IWANT is answered with several.          *)
Deliver(n, m) ==
    LET c == chan[<<m, n>>]
        msg == Head(c)
        i == CHOOSE j \in msg.ids : TRUE
    IN
    /\ m \in up[n] /\ c # <<>> /\ Idle(n, "react")
    /\ chan' = [chan EXCEPT ![<<m, n>>] =
                  IF msg.op = "RESEND" /\ msg.ids # {i}
                  THEN <<Frame("RESEND", msg.ids \ {i})>> \o Tail(c) ELSE Tail(c)]
    /\ \/ msg.op = "SUBSCRIBE" /\ RecvSubscribe(n, m)
       \/ msg.op = "UNSUBSCRIBE" /\ RecvUnsubscribe(n, m)
       \/ msg.op = "GRAFT" /\ RecvGraft(n, m)
       \/ msg.op = "PRUNE" /\ RecvPrune(n, m)
       \/ msg.op \in {"PUBLISH", "RESEND"} /\ RecvPublish(n, m, i)
       \/ msg.op = "IHAVE" /\ RecvIhave(n, m, msg.ids)
       \/ msg.op = "IWANT" /\ RecvIwant(n, m, msg.ids)
    /\ UNCHANGED <<subscribed, beating, netVars, published, calls>>

(* The next frames of a thread's outbox leave.                             *)
Dispatch(n, t) ==
    LET box == Head(out[n][t]) IN
    /\ ~Idle(n, t)
    /\ chan' = [way \in Nodes \X Nodes |->
                  IF way[1] = n /\ way[2] \in box.to \cap up[n] /\ {n, way[2]} \in link
                  THEN Append(chan[way], box.msg) ELSE chan[way]]
    /\ out' = [out EXCEPT ![n][t] = Tail(@)]
    /\ UNCHANGED <<topicVars, cacheVars, beating, netVars, published, heard, calls>>

-----------------------------------------------------------------------------
(* Heartbeat.                                                              *)

Offered(n) ==
    UNION {history[n][i] : i \in {j \in DOMAIN history[n] : j <= HistoryGossip}}

Quick == \A way \in Nodes \X Nodes : chan[way] = <<>>

(* Mesh maintenance and the IHAVE plan, or the expiry of the fanout set.   *)
Heartbeat(n) ==
    /\ ~beating[n] /\ Idle(n, "beat")
    /\ setup.prompt => Quick /\ \A p \in Nodes, t \in Threads : Idle(p, t)
    /\ beating' = [beating EXCEPT ![n] = TRUE]
    /\ \/ /\ subscribed[n]
          /\ \E new \in Maintained(mesh[n], subscribers[n]) :
             \E lazy \in Samples(subscribers[n] \ new, GossipFactor) :
               /\ mesh' = [mesh EXCEPT ![n] = new]
               /\ Outbox(n, "beat", Changes(mesh[n], new)
                            \o (IF Offered(n) = {} THEN <<>> ELSE To(lazy, Frame("IHAVE", Offered(n)))))
          /\ UNCHANGED fanout
       \/ /\ ~subscribed[n]
          /\ fanout' \in {fanout, [fanout EXCEPT ![n] = {}]}
          /\ UNCHANGED <<mesh, out>>
    /\ UNCHANGED <<subscribed, subscribers, cacheVars, netVars, chan, published, heard, calls>>

(* The history moves on and its last window is evicted.                    *)
ShiftHistory(n) ==
    /\ beating[n] /\ Idle(n, "beat")
    /\ beating' = [beating EXCEPT ![n] = FALSE]
    /\ history' = [history EXCEPT ![n] =
                     SubSeq(<<{}>> \o @, 1,
                            IF Len(@) < HistoryLength THEN Len(@) + 1 ELSE HistoryLength)]
    /\ UNCHANGED <<topicVars, seen, out, netVars, chan, published, heard, calls>>

-----------------------------------------------------------------------------
(* Peers come and go.                                                      *)

Connect(n, m) ==
    /\ {n, m} \notin link /\ m \notin up[n] /\ n \notin up[m]
    /\ drops < setup.maxDrops
    /\ drops' = drops + 1
    /\ link' = link \cup {{n, m}}
    /\ UNCHANGED <<topicVars, cacheVars, out, beating, setup, up, chan, published, heard, calls>>

(* Mutant: peers are greeted in silence.                                   *)
OnNewPeerSilent(n, m) ==
    /\ {n, m} \in link /\ m \notin up[n] /\ Idle(n, "react")
    /\ up' = [up EXCEPT ![n] = @ \cup {m}]
    /\ UNCHANGED <<topicVars, cacheVars, out, beating, setup, link, drops, chan, published, heard, calls>>

(* on_new_peer: the subscriptions are read, then announced.                *)
OnNewPeer(n, m) ==
    /\ {n, m} \in link /\ m \notin up[n] /\ Idle(n, "react")
    /\ up' = [up EXCEPT ![n] = @ \cup {m}]
    /\ Outbox(n, "react", IF subscribed[n] THEN To({m}, Ctrl("SUBSCRIBE")) ELSE <<>>)
    /\ UNCHANGED <<topicVars, cacheVars, beating, setup, link, drops, chan, published, heard, calls>>

(* A connection dies with the frames on it.                                *)
Drop(n, m) ==
    /\ {n, m} \in link /\ drops < setup.maxDrops
    /\ drops' = drops + 1
    /\ link' = link \ {{n, m}}
    /\ chan' = [chan EXCEPT ![<<n, m>>] = <<>>, ![<<m, n>>] = <<>>]
    /\ UNCHANGED <<topicVars, cacheVars, out, beating, setup, up, published, heard, calls>>

OnPeerGone(n, m) ==
    /\ m \in up[n] /\ {n, m} \notin link /\ Idle(n, "react")
    /\ up' = [up EXCEPT ![n] = @ \ {m}]
    /\ subscribers' = [subscribers EXCEPT ![n] = @ \ {m}]
    /\ mesh' = [mesh EXCEPT ![n] = @ \ {m}]
    /\ fanout' = [fanout EXCEPT ![n] = @ \ {m}]
    /\ UNCHANGED <<subscribed, cacheVars, out, beating, setup, link, drops, chan, published, heard, calls>>

Next ==
    \/ \E n \in Nodes :
         \/ Subscribe(n) \/ Unsubscribe(n) \/ Publish(n)
         \/ Heartbeat(n) \/ ShiftHistory(n)
         \/ \E t \in Threads : Dispatch(n, t)
         \/ \E m \in Others(n) :
              Deliver(n, m) \/ Connect(n, m) \/ OnNewPeer(n, m) \/ Drop(n, m) \/ OnPeerGone(n, m)

Spec == Init /\ [][Next]_vars

-----------------------------------------------------------------------------
(* Properties.                                                             *)

Quiet ==
    /\ Quick
    /\ \A n \in Nodes, t \in Threads : Idle(n, t)
    /\ \A n \in Nodes, m \in Nodes : {n, m} \in link <=> m \in up[n]

(* "Announce our interests so the new peer can route to (and mesh with)    *)
(* us" (on_new_peer): when nothing is under way, a node's subscribers are  *)
(* exactly its connected peers that subscribe, while nobody unsubscribes.  *)
ViewSettles ==
    Quiet /\ "unsubscribe" \notin setup.calls
        => \A n \in Nodes : subscribers[n] = {m \in up[n] : subscribed[m]}

(* "dedup key stops a message looping around the mesh": no handler gets a  *)
(* message twice, however often meshes, gossip and resends repeat it, while*)
(* no more messages exist than seen_ remembers (mark_seen forgets the      *)
(* oldest at seen_limit, and what was forgotten is new again).             *)
AtMostOnce == \A n \in Nodes, i \in Ids : heard[n][i] <= 1

=============================================================================
