------------------------------ MODULE BtClient ------------------------------
(***************************************************************************)
(* The BitTorrent session: one torrent that may be removed and added       *)
(* again, its list of peers, the sockets that dial and are dialled, the    *)
(* answers of trackers and of the DHT that are on the way, and the         *)
(* metadata fetches of the subsystem.                                      *)
(*                                                                         *)
(* A torrent object is a number, never used again: a pointer to it is that *)
(* number, and dangles once `torrent` is another.                          *)
(***************************************************************************)
EXTENDS Naturals, FiniteSets, Sequences

CONSTANTS
    Addrs,              \* peers that trackers and the DHT name
    Sockets,
    Fetches,            \* metadata fetches
    MaxTorrents,        \* bound: torrent objects made
    MaxMishaps,         \* bound: connects that fail, connections that drop
    kMaxConnections, kMaxPeers, kMaxFails

VARIABLE bt

None == "none"

ASSUME ClientAssumption == None \notin Addrs

Unknown == [known |-> FALSE, connected |-> FALSE, connecting |-> FALSE, fails |-> 0]
FreeSocket == [st |-> "free", out |-> FALSE, addr |-> None, obs |-> 0, done |-> FALSE]

ClientInit ==
    bt = [torrent |-> 0, made |-> 0, owner |-> None, paused |-> FALSE, metadata |-> FALSE, callback |-> None,
          list |-> [a \in Addrs |-> Unknown], members |-> {}, socks |-> [s \in Sockets |-> FreeSocket],
          announcing |-> {}, posted |-> {}, asked |-> {},
          fetch |-> [f \in Fetches |-> "idle"], told |-> [f \in Fetches |-> 0], stopping |-> FALSE, open |-> TRUE, mishaps |-> 0]

-----------------------------------------------------------------------------
(* PeerList.                                                               *)

eligible(p) == p.known /\ ~p.connected /\ ~p.connecting /\ p.fails < kMaxFails
add(b, a) == [b EXCEPT !.list[a].known = TRUE]
Listed(b, a) == a \in Addrs /\ b.list[a].known
set_connected(b, a, on) ==
    IF Listed(b, a) THEN [b EXCEPT !.list[a].connected = on, !.list[a].connecting = FALSE, !.list[a].fails = IF on THEN 0 ELSE @] ELSE b
on_connect_failed(b, a) ==
    IF Listed(b, a) THEN [b EXCEPT !.list[a].connecting = FALSE, !.list[a].fails = @ + 1] ELSE b

(* Those with the fewest past failures, ties broken in any way.            *)
connect_candidates(b, max) ==
    LET all == {a \in Addrs : eligible(b.list[a])}
    IN {C \in SUBSET all :
          /\ Cardinality(C) = IF max < Cardinality(all) THEN max ELSE Cardinality(all)
          /\ \A a \in C, x \in all \ C : b.list[a].fails <= b.list[x].fails}

-----------------------------------------------------------------------------
(* Connections.  A closed one keeps its place until it is reaped.          *)

Is(b, s, st) == b.socks[s].st = st
Connections(b) == {s \in Sockets : b.socks[s].st \in {"conn", "closed"}}
Live(b) == {s \in Sockets : Is(b, s, "conn")}
Free(b) == {s \in Sockets : Is(b, s, "free")}

on_closed(b, s) == set_connected([b EXCEPT !.members = @ \ {s}], b.socks[s].addr, FALSE)
close(b, s) ==
    LET c == [b EXCEPT !.socks[s].st = "closed"] IN IF b.socks[s].obs = 0 THEN c ELSE on_closed(c, s)

CloseAll(b, S) ==
    LET bound == {s \in S : b.socks[s].obs # 0}
        gone == {b.socks[s].addr : s \in bound}
    IN [b EXCEPT !.socks = [s \in Sockets |-> IF s \in S THEN [b.socks[s] EXCEPT !.st = "closed"] ELSE b.socks[s]],
                 !.members = @ \ bound,
                 !.list = [a \in Addrs |-> IF a \in gone /\ b.list[a].known
                                          THEN [b.list[a] EXCEPT !.connected = FALSE, !.connecting = FALSE] ELSE b.list[a]]]

(* connect_peer, for the candidates C: the cap counts connections, not     *)
(* dials under way, and the system may refuse any dial.                    *)
Dials(room, C) == {f \in UNION {[S -> C] : S \in SUBSET room} : \A s, r \in DOMAIN f : f[s] = f[r] => s = r}
Dialling(a) == [FreeSocket EXCEPT !.st = "pending", !.out = TRUE, !.addr = a]
Dialled(b, C, f) ==
    LET called == {f[s] : s \in DOMAIN f}
    IN [b EXCEPT !.socks = [s \in Sockets |-> IF s \in DOMAIN f THEN Dialling(f[s]) ELSE b.socks[s]],
                 !.list = [a \in Addrs |-> IF a \in called THEN [b.list[a] EXCEPT !.connecting = TRUE]
                                          ELSE IF a \in C THEN [b.list[a] EXCEPT !.fails = @ + 1] ELSE b.list[a]]]
connect_peers(b, C) ==
    {Dialled(b, C, f) : f \in Dials(IF Cardinality(Connections(b)) >= kMaxConnections THEN {} ELSE Free(b), C)}

try_connect(b) ==
    IF b.torrent = 0 \/ b.paused \/ Cardinality(b.members) >= kMaxPeers THEN {b}
    ELSE UNION {connect_peers(b, C) : C \in connect_candidates(b, kMaxPeers - Cardinality(b.members))}

-----------------------------------------------------------------------------
(* Torrents.                                                               *)

(* add_torrent_impl, add_magnet_impl: the one there is, or a new one,      *)
(* which announces itself when it starts.                                  *)
add_torrent(b, who, complete) ==
    IF b.torrent # 0 THEN b
    ELSE LET g == b.made + 1
         IN [b EXCEPT !.torrent = g, !.made = g, !.owner = who, !.paused = FALSE, !.metadata = complete, !.callback = None,
                      !.list = [a \in Addrs |-> Unknown], !.members = {}, !.announcing = @ \cup {g}]

(* stop() waits for announces under way, whose answers are then dropped,   *)
(* and closes the members.                                                 *)
TorrentStop(b) == [CloseAll([b EXCEPT !.announcing = @ \ {b.torrent}], b.members) EXCEPT !.members = {}]
Erased(b) == [b EXCEPT !.torrent = 0, !.owner = None, !.callback = None]

(* Mutant: only the members are closed.                                    *)
BoundMembers(b) == b.members
(* The connections bound to the torrent that stop() does not know.         *)
Bound(b) == {s \in Live(b) : b.socks[s].obs # 0}
remove_torrent(b) ==
    IF b.torrent = 0 THEN b ELSE LET t == TorrentStop(b) IN Erased(CloseAll(t, Bound(t)))

pause(b) == IF b.paused THEN b ELSE [CloseAll(b, b.members) EXCEPT !.paused = TRUE, !.members = {}]
resume(b) == IF b.paused THEN try_connect([b EXCEPT !.paused = FALSE, !.announcing = @ \cup {b.torrent}]) ELSE {b}

on_handshake(b, s) ==
    IF b.paused \/ Cardinality(b.members) >= kMaxPeers THEN close(b, s)
    ELSE set_connected([b EXCEPT !.members = @ \cup {s}], b.socks[s].addr, TRUE)

-----------------------------------------------------------------------------
(* What runs on the reactor.                                               *)

AddTorrent == bt.open /\ ~bt.stopping /\ bt.made < MaxTorrents /\ bt' = [add_torrent(bt, "app", TRUE) EXCEPT !.owner = "app"]
RemoveTorrent == bt.open /\ bt.torrent # 0 /\ bt.owner = "app" /\ bt' = remove_torrent(bt)
PauseTorrent == bt.torrent # 0 /\ ~bt.paused /\ bt.owner = "app" /\ bt.mishaps < MaxMishaps /\ bt' = [pause(bt) EXCEPT !.mishaps = @ + 1]
ResumeTorrent == bt.torrent # 0 /\ bt.paused /\ bt' \in resume(bt)

(* tick: ask the DHT, dial.                                                *)
Tick == bt.torrent # 0 /\ ~bt.paused /\ bt' \in try_connect([bt EXCEPT !.asked = @ \cup {bt.torrent}])

(* A tracker's answer is posted, and dropped when its torrent is gone.     *)
TrackerAnswers == \E g \in bt.announcing : bt' = [bt EXCEPT !.announcing = @ \ {g}, !.posted = @ \cup {g}]
RunAnswer(a) ==
    \E g \in bt.posted :
        LET b == [bt EXCEPT !.posted = @ \ {g}]
        IN bt' \in IF g = b.torrent /\ ~Listed(b, a) THEN try_connect(add(b, a)) ELSE {b}

(* The DHT's answer looks the torrent up by its info-hash, but fills the   *)
(* list of the object that asked: when that is gone and the torrent was    *)
(* added again, the answer goes to freed memory and reaches no live list.  *)
DhtAnswers(a) ==
    \E g \in bt.asked :
        LET b == [bt EXCEPT !.asked = @ \ {g}]
        IN bt' \in IF g = b.torrent /\ ~Listed(b, a) THEN try_connect(add(b, a)) ELSE {b}

(* The end of a dial.                                                      *)
(* Mutant: a failed dial is not reported.                                  *)
ConnectFailedQuiet(b, s) == [b EXCEPT !.socks[s] = FreeSocket]
ConnectFailed(b, s) ==
    LET c == [b EXCEPT !.socks[s] = FreeSocket] IN IF b.torrent = 0 THEN c ELSE on_connect_failed(c, b.socks[s].addr)
ConnectEnds(s, ok) ==
    /\ Is(bt, s, "pending") /\ bt.open
    /\ ok \/ bt.mishaps < MaxMishaps
    /\ LET b == IF ok THEN bt ELSE [bt EXCEPT !.mishaps = @ + 1]
       IN bt' = IF ok /\ b.torrent # 0 THEN [b EXCEPT !.socks[s].st = "conn", !.socks[s].obs = b.torrent] ELSE ConnectFailed(b, s)

AcceptPeer ==
    /\ bt.open /\ Free(bt) # {} /\ Cardinality(Connections(bt)) < kMaxConnections
    /\ bt' = [bt EXCEPT !.socks[CHOOSE s \in Free(bt) : TRUE] = [FreeSocket EXCEPT !.st = "conn"]]

(* parse_handshake: one that was dialled is bound already, one that came   *)
(* in is bound to the torrent it names, if there is one.                   *)
Handshake(s) ==
    /\ Is(bt, s, "conn") /\ ~bt.socks[s].done
    /\ LET b == [bt EXCEPT !.socks[s].done = TRUE]
       IN bt' = IF b.socks[s].out THEN on_handshake(b, s)
                ELSE IF b.torrent = 0 THEN close(b, s)
                ELSE on_handshake([b EXCEPT !.socks[s].obs = b.torrent], s)

Drops(s) == Is(bt, s, "conn") /\ bt.mishaps < MaxMishaps /\ bt' = [close(bt, s) EXCEPT !.mishaps = @ + 1]
reap_closed == (\E s \in Sockets : Is(bt, s, "closed")) /\ bt' = [bt EXCEPT !.socks = [s \in Sockets |-> IF Is(bt, s, "closed") THEN FreeSocket ELSE @[s]]]

-----------------------------------------------------------------------------
(* A metadata fetch: a magnet for as long as it takes.  Its watcher waits  *)
(* for the metadata, the timeout or stop(), then posts the removal.        *)

FetchStarts(f) == bt.open /\ ~bt.stopping /\ bt.fetch[f] = "idle" /\ bt' = [bt EXCEPT !.fetch[f] = "posted"]
(* The magnet, and the peer a direct fetch names.                          *)
AddMagnet(b, f, a) ==
    LET t == [add_torrent(b, "fetch", FALSE) EXCEPT !.callback = f]
    IN IF a = None \/ Listed(t, a) THEN {t} ELSE try_connect(add(t, a))
FetchTask(f, a) ==
    /\ bt.fetch[f] = "posted" /\ bt.open /\ (bt.torrent # 0 \/ bt.made < MaxTorrents)
    /\ \E b \in AddMagnet(bt, f, a) : bt' = [b EXCEPT !.fetch[f] = "waiting"]
MetadataArrives ==
    /\ bt.torrent # 0 /\ ~bt.metadata /\ bt.members # {}
    /\ bt' = [bt EXCEPT !.metadata = TRUE, !.fetch = [f \in Fetches |-> IF f = bt.callback /\ @[f] = "waiting" THEN "arrived" ELSE @[f]]]
(* The watcher ends; a fetch whose task has not run yet may time out too.  *)
FetchEnds(f) ==
    /\ bt.fetch[f] \in {"posted", "waiting", "arrived"}
    /\ bt' = [bt EXCEPT !.fetch[f] = IF @ = "posted" THEN "late" ELSE "removing", !.told[f] = @ + 1]
FetchLateTask(f, a) ==
    /\ bt.fetch[f] = "late" /\ bt.open /\ (bt.torrent # 0 \/ bt.made < MaxTorrents)
    /\ \E b \in AddMagnet(bt, f, a) : bt' = [b EXCEPT !.fetch[f] = "removing"]
FetchRemoves(f) == bt.fetch[f] = "removing" /\ bt.open /\ bt' = [remove_torrent(bt) EXCEPT !.fetch[f] = "over"]

(* Bittorrent::stop: no new fetch, wait for the watchers, stop the client. *)
StopBegins == bt.open /\ ~bt.stopping /\ bt' = [bt EXCEPT !.stopping = TRUE]
ClientStop ==
    /\ bt.open /\ bt.stopping /\ \A f \in Fetches : bt.fetch[f] \notin {"posted", "waiting", "arrived"}
    /\ LET t == IF bt.torrent = 0 THEN bt ELSE Erased(TorrentStop(bt))
       IN bt' = [t EXCEPT !.open = FALSE, !.socks = [s \in Sockets |-> FreeSocket], !.members = {}]

ClientNext ==
    \/ AddTorrent \/ RemoveTorrent \/ PauseTorrent \/ ResumeTorrent \/ Tick \/ TrackerAnswers \/ AcceptPeer \/ reap_closed
    \/ \E a \in Addrs : RunAnswer(a) \/ DhtAnswers(a)
    \/ \E s \in Sockets : ConnectEnds(s, TRUE) \/ ConnectEnds(s, FALSE) \/ Handshake(s) \/ Drops(s)
    \/ \E f \in Fetches : FetchStarts(f) \/ FetchEnds(f) \/ FetchRemoves(f)
    \/ \E f \in Fetches, a \in Addrs \cup {None} : FetchTask(f, a) \/ FetchLateTask(f, a)
    \/ MetadataArrives
    \/ StopBegins \/ ClientStop

ClientSpec == ClientInit /\ [][ClientNext]_bt

-----------------------------------------------------------------------------
(* Whatever is removed while dials and handshakes are under way: an open   *)
(* connection reports to the torrent object that exists, or to none; the   *)
(* members of a torrent are open; and a peer marked as being dialled or    *)
(* connected has a dial or a connection, or it would never be dialled      *)
(* again.                                                                  *)
NoDangling ==
    /\ \A s \in Live(bt) : bt.socks[s].obs \in {0, bt.torrent}
    /\ bt.members \subseteq {s \in Live(bt) : bt.socks[s].obs # 0}
    /\ bt.torrent # 0 => \A a \in Addrs :
          /\ bt.list[a].connecting => \E s \in Sockets : bt.socks[s].addr = a /\ (Is(bt, s, "pending") \/ (Is(bt, s, "conn") /\ ~bt.socks[s].done))
          /\ bt.list[a].connected => \E s \in bt.members : bt.socks[s].addr = a

=============================================================================
