------------------------------- MODULE DhtNode ------------------------------
(***************************************************************************)
(* The serving half of a DHT node: queries answered for others (write      *)
(* tokens, stored peers, the flood guard), liveness pings, the vote on our *)
(* external address, and the crawl of spider mode.  One datagram or one    *)
(* tick of the loop is one step; the routing table is DhtTable's.          *)
(***************************************************************************)
EXTENDS DhtTable

CONSTANTS
    kRotateInterval, kPeerTtl, kMaxPeersPerHash,
    kMaxPerWindow, kWindow, kBanDuration, kMaxTracked,
    kExternalIpVoteThreshold,
    kMaxSpiderNodes, kMaxSpiderVisited,
    Senders,          \* the claims that write to us
    Hashes,           \* info-hashes, which are ids
    OurIps,           \* the addresses others may say we have
    CompliantId,      \* address -> the id generate_node_id_from_ip derives
    Horizon, MaxServed \* bounds: clock and datagrams

ASSUME DhtNodeAssumption ==
    /\ {kRotateInterval, kPeerTtl, kMaxPeersPerHash, kMaxPerWindow, kWindow, kBanDuration,
        kExternalIpVoteThreshold, kMaxSpiderNodes, kMaxSpiderVisited} \subseteq Nat \ {0}
    /\ {kMaxTracked, Horizon, MaxServed} \subseteq Nat
    /\ Senders \subseteq Claims /\ OurIps \subseteq DOMAIN CompliantId

VARIABLES now, served, secrets, issued, store, dos, votes, voters, external, pings, spider

nodeVars == <<table, tableCalls, now, served, secrets, issued, store, dos, votes, voters, external, pings, spider>>
serverVars == <<secrets, issued, store>>
voteVars == <<votes, voters, external>>

NoIp == "unspecified"
Silent == [count |-> 0, start |-> 0, until |-> 0]

NodeInit ==
    /\ now = 0 /\ served = 0
    /\ secrets = [initialized |-> FALSE, secret |-> 0, prev |-> 0, at |-> 0]
    /\ issued = {}
    /\ store = [h \in Hashes |-> <<>>]
    /\ dos = [a \in {c.ip : c \in Senders} |-> [seen |-> FALSE, entry |-> Silent]]
    /\ votes = [a \in OurIps |-> 0] /\ voters = {} /\ external = NoIp
    /\ pings = {}
    /\ spider = [mode |-> FALSE, ignore |-> FALSE, pool |-> {}, visited |-> {}, contacted |-> {}]

-----------------------------------------------------------------------------
(* Write tokens.  A secret is the number of its generation, a token the    *)
(* secret, address and info-hash it is computed from.                      *)

(* Mutant: rotation forgets the previous secret.                           *)
rotate_abruptly(s) ==
    IF ~s.initialized THEN [initialized |-> TRUE, secret |-> 1, prev |-> 1, at |-> now]
    ELSE IF now - s.at >= kRotateInterval
    THEN [s EXCEPT !.prev = s.secret + 1, !.secret = @ + 1, !.at = now] ELSE s

maybe_rotate(s) ==
    IF ~s.initialized THEN [initialized |-> TRUE, secret |-> 1, prev |-> 1, at |-> now]
    ELSE IF now - s.at >= kRotateInterval
    THEN [initialized |-> TRUE, secret |-> s.secret + 1, prev |-> s.secret, at |-> now] ELSE s

compute(ip, hash, secret) == [ip |-> ip, hash |-> hash, secret |-> secret]

verify(s, ip, hash, token) ==
    token \in {compute(ip, hash, s.secret), compute(ip, hash, s.prev)}

(* The peers announced under an info-hash.                                 *)
store_peer(s, peer) ==
    LET i == SelectInSeq(s, LAMBDA e : e.peer = peer)
        longer == Append(s, [peer |-> peer, added |-> now])
    IN IF i # 0 THEN [s EXCEPT ![i].added = now]
       ELSE IF Len(longer) > kMaxPeersPerHash THEN Tail(longer) ELSE longer

expire(s, t) == SelectSeq(s, LAMBDA e : t - e.added <= kPeerTtl)

-----------------------------------------------------------------------------
(* The flood guard: what DosBlocker does with one packet of an address.    *)

counted(e) ==
    LET window == IF now - e.start >= kWindow THEN [e EXCEPT !.start = now, !.count = 0] ELSE e
        more == [window EXCEPT !.count = @ + 1]
    IN IF more.count > kMaxPerWindow THEN [more EXCEPT !.until = now + kBanDuration] ELSE more

Banned(e) == e.until > now

prune(d) ==
    [a \in DOMAIN d |->
        IF d[a].seen /\ d[a].entry.until <= now /\ now - d[a].entry.start >= kWindow
        THEN [seen |-> FALSE, entry |-> Silent] ELSE d[a]]

(* The guard after a packet, and whether the packet is let through.        *)
allow(ip) ==
    LET e == dos[ip].entry
        d == [dos EXCEPT ![ip] = [seen |-> TRUE, entry |-> IF Banned(e) THEN e ELSE counted(e)]]
        ok == ~Banned(e) /\ ~Banned(d[ip].entry)
        crowded == Cardinality({a \in DOMAIN d : d[a].seen}) > kMaxTracked
    IN [ok |-> ok, dos |-> IF ok /\ crowded THEN prune(d) ELSE d]

-----------------------------------------------------------------------------
(* on_datagram: the guard first; a packet it stops changes nothing else.   *)

Arrives(from) ==
    /\ served < MaxServed
    /\ served' = served + 1
    /\ dos' = allow(from.ip).dos
    /\ UNCHANGED now

DroppedByGuard(from) ==
    /\ Arrives(from) /\ ~allow(from.ip).ok
    /\ UNCHANGED <<tableVars, serverVars, voteVars, pings, spider>>

(* Crawled addresses see a neighbour's id and stay out of the table.       *)
UseNeighbor(from) == spider.mode /\ from.ip \in spider.contacted
learn(from) == IF UseNeighbor(from) THEN table ELSE add_node(table, Entry(from, kNeverPinged, kRttUnknown))

(* The crawl's pool; when it is full a random member gives way.            *)
Pooled(p, c) ==
    IF \E x \in p : x.id = c.id THEN {{c} \cup {x \in p : x.id # c.id}}
    ELSE IF Cardinality(p) < kMaxSpiderNodes THEN {p \cup {c}}
    ELSE {(p \ {x}) \cup {c} : x \in p}

Answered(from) ==
    /\ Arrives(from) /\ allow(from.ip).ok
    /\ \E p \in IF spider.mode THEN Pooled(spider.pool, from) ELSE {spider.pool} : spider' = [spider EXCEPT !.pool = p]
    /\ UNCHANGED <<tableCalls, voteVars, pings>>

(* While ignoring, a crawl takes announce_peer only.                       *)
Ignored(from) ==
    /\ spider.mode /\ spider.ignore
    /\ Arrives(from) /\ allow(from.ip).ok
    /\ UNCHANGED <<tableVars, serverVars, voteVars, pings, spider>>

(* ping and find_node: the sender is learned, the answer reads the table.  *)
PingOrFindNode(from) ==
    /\ ~(spider.mode /\ spider.ignore)
    /\ Answered(from)
    /\ table' = learn(from)
    /\ UNCHANGED serverVars

GetPeers(from, hash) ==
    LET s == maybe_rotate(secrets)
    IN /\ ~(spider.mode /\ spider.ignore)
       /\ Answered(from)
       /\ table' = learn(from)
       /\ secrets' = s
       /\ issued' = issued \cup {[token |-> compute(from.ip, hash, s.secret), at |-> now]}
       /\ UNCHANGED store

(* announce_peer with one of the tokens handed out so far.                 *)
AnnouncePeer(from, hash, token, port) ==
    LET s == maybe_rotate(secrets)
        good == spider.mode \/ verify(s, from.ip, hash, token)
    IN /\ Answered(from)
       /\ secrets' = IF spider.mode THEN secrets ELSE s
       /\ table' = IF good THEN learn(from) ELSE table
       /\ store' = IF good THEN [store EXCEPT ![hash] = store_peer(@, [ip |-> from.ip, port |-> port])] ELSE store
       /\ UNCHANGED issued

-----------------------------------------------------------------------------
(* Our external address, and the id that goes with it.                     *)

set_external_ip(ip) ==
    /\ external' = ip
    /\ table' = IF CompliantId[ip] = table.self THEN table ELSE rebuilt(CompliantId[ip], contacts(table))

maybe_update_external_ip(from, ip) ==
    /\ ip # external /\ from.ip \notin voters
    /\ IF votes[ip] + 1 >= kExternalIpVoteThreshold
       THEN votes' = [a \in OurIps |-> 0] /\ voters' = {} /\ set_external_ip(ip)
       ELSE /\ votes' = [votes EXCEPT ![ip] = @ + 1] /\ voters' = voters \cup {from.ip}
            /\ UNCHANGED <<external, table>>

(* A response that says which address it sees us at.                       *)
Told(from, ip) ==
    /\ Arrives(from) /\ allow(from.ip).ok
    /\ maybe_update_external_ip(from, ip)
    /\ UNCHANGED <<tableCalls, serverVars, pings, spider>>

(* The facade's call (STUN or the user).                                   *)
SetExternal(ip) ==
    /\ external # ip /\ served < MaxServed /\ served' = served + 1
    /\ set_external_ip(ip)
    /\ UNCHANGED <<tableCalls, now, serverVars, dos, votes, voters, pings, spider>>

-----------------------------------------------------------------------------
(* Liveness pings, and the periodic tick.                                  *)

PingReply(c, id, rtt) ==
    /\ c \in pings
    /\ Arrives(c) /\ allow(c.ip).ok
    /\ pings' = pings \ {c}
    /\ table' = add_node(table, record_success(Entry([c EXCEPT !.id = id], kNeverPinged, kRttUnknown), rtt))
    /\ UNCHANGED <<tableCalls, serverVars, voteVars, spider>>

PingTimeout(c) ==
    /\ c \in pings
    /\ pings' = pings \ {c}
    /\ table' = fail_node(table, c)
    /\ UNCHANGED <<tableCalls, now, served, serverVars, dos, voteVars, spider>>

(* One unit of time: peers expire, and next_to_refresh() names a contact   *)
(* (the one touched longest ago; any one here) that is pinged.             *)
tick ==
    /\ now < Horizon
    /\ now' = now + 1
    /\ store' = [h \in Hashes |-> expire(store[h], now')]
    /\ IF LiveSet(table) = {} THEN pings' = pings
       ELSE \E e \in LiveSet(table) : pings' = pings \cup {[id |-> e.id, ip |-> e.ip, port |-> e.port]}
    /\ UNCHANGED <<tableVars, served, secrets, issued, dos, voteVars, spider>>

-----------------------------------------------------------------------------
(* Spider mode.  The engine's tick drives spider_walk from the facade.     *)

SetSpider(mode, ignore) ==
    /\ <<mode, ignore>> # <<spider.mode, spider.ignore>>
    /\ served < MaxServed /\ served' = served + 1
    /\ spider' = [spider EXCEPT !.mode = mode, !.ignore = ignore]
    /\ UNCHANGED <<tableVars, now, serverVars, dos, voteVars, pings>>

(* One query of the crawl and its answer: the pool is seeded from the      *)
(* table when it is empty, one member is asked, and the node it names      *)
(* joins the pool.                                                         *)
spider_walk(reply) ==
    LET seeds == {[id |-> e.id, ip |-> e.ip, port |-> e.port] : e \in LiveSet(table)}
        pool == IF spider.pool = {} THEN {SetToSeq(seeds)[i] : i \in 1..Min({kMaxSpiderNodes, Cardinality(seeds)})}
                ELSE spider.pool
        visited == IF Cardinality(spider.visited) >= kMaxSpiderVisited THEN {} ELSE spider.visited
    IN /\ spider.mode /\ pool # {} /\ served < MaxServed /\ served' = served + 1
       /\ \E target \in pool, p \in Pooled(pool, reply) :
             spider' = [spider EXCEPT !.pool = p, !.visited = visited \cup {target.id},
                                      !.contacted = @ \cup {target.ip}]
       /\ UNCHANGED <<tableVars, now, serverVars, dos, voteVars, pings>>

NodeNext ==
    \/ \E c \in Senders :
          \/ DroppedByGuard(c) \/ Ignored(c) \/ PingOrFindNode(c) \/ PingTimeout(c)
          \/ \E h \in Hashes : GetPeers(c, h) \/ \E i \in issued : AnnouncePeer(c, h, i.token, c.port)
          \/ \E ip \in OurIps : Told(c, ip)
          \/ \E id \in {d.id : d \in Senders}, rtt \in RttSamples : PingReply(c, id, rtt)
          \/ spider_walk(c)
    \/ \E ip \in OurIps : SetExternal(ip)
    \/ \E mode, ignore \in BOOLEAN : SetSpider(mode, ignore)
    \/ tick

NodeSpec == TableInit /\ NodeInit /\ [][NodeNext]_nodeVars

-----------------------------------------------------------------------------
(* A token works for its holder at least kRotateInterval after it was      *)
(* handed out, through any rotation.                                       *)
TokensHonoured ==
    \A i \in issued :
        now - i.at <= kRotateInterval => verify(maybe_rotate(secrets), i.token.ip, i.token.hash, i.token)

=============================================================================
