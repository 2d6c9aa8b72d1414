-------------------------------- MODULE Krpc --------------------------------
(***************************************************************************)
(* The KRPC codec.  A message is encoded to a dictionary (a function of    *)
(* the keys present) and decoded from whatever dictionary another node     *)
(* sends; ids and addresses are sequences of bytes, because the decoder    *)
(* tells families and record boundaries apart by lengths alone.  Bencode   *)
(* below the dictionary is in module TorrentFile.                          *)
(***************************************************************************)
EXTENDS Naturals, Sequences, SequencesExt, FiniteSets

CONSTANTS
    WireIds, WireIps,   \* ids of 20 bytes; addresses of 0, 4 or 16 bytes
    WirePorts, Wants,
    MaxListed           \* bound on the nodes or peers of a response

ASSUME KrpcAssumption ==
    /\ \A id \in WireIds : Len(id) = 20
    /\ \A ip \in WireIps : Len(ip) \in {0, 4, 16}
    /\ WirePorts \subseteq 0..65535 /\ MaxListed \in Nat

VARIABLE krpc   \* what was sent, what is on the wire, what was understood

Unspecified == <<>>
ZeroId == [i \in 1..20 |-> 0]
Nothing == [type |-> "nothing"]

(* KrpcMessage as its constructor leaves it.                               *)
KrpcMessage ==
    [type |-> "q", t |-> 0, query |-> "ping", sender |-> ZeroId, target |-> ZeroId, info_hash |-> ZeroId,
     port |-> 0, implied |-> FALSE, token |-> "", want |-> <<>>, response |-> ZeroId, nodes |-> <<>>,
     peers |-> <<>>, ext |-> Unspecified, extPort |-> 0, code |-> 201, text |-> ""]

create_query(t, from, query) == [KrpcMessage EXCEPT !.t = t, !.sender = from, !.query = query]
create_find_node_query(t, from, id) == [create_query(t, from, "find_node") EXCEPT !.target = id]
create_get_peers_query(t, from, h) == [create_query(t, from, "get_peers") EXCEPT !.info_hash = h]
create_announce_peer_query(t, from, h, port, token, implied) ==
    [create_query(t, from, "announce_peer") EXCEPT !.info_hash = h, !.port = port, !.token = token, !.implied = implied]
create_response(t, from, nodes, peers, token) ==
    [KrpcMessage EXCEPT !.type = "r", !.t = t, !.response = from, !.nodes = nodes, !.peers = peers, !.token = token]
create_error(t, code, text) == [KrpcMessage EXCEPT !.type = "e", !.t = t, !.code = code, !.text = text]

-----------------------------------------------------------------------------
(* Compact forms.                                                          *)

PortBytes(port) == <<port \div 256, port % 256>>
compact_address(ip) == IF ip = Unspecified THEN <<0, 0, 0, 0>> ELSE ip
compact_peer_info(p) == compact_address(p.ip) \o PortBytes(p.port)
compact_node_info(n) == n.id \o compact_address(n.ip) \o PortBytes(n.port)

PortAt(s, i) == 256 * s[i] + s[i + 1]

(* Records of a fixed size, one after the other.                           *)
Records(s, size) == [k \in 1..(Len(s) \div size) |-> SubSeq(s, (k - 1) * size + 1, k * size)]

(* Mutant: the family of a peer is not told from the length.               *)
parse_as_ipv4(s) ==
    IF Len(s) % 6 # 0 THEN <<>>
    ELSE [k \in DOMAIN Records(s, 6) |->
            [ip |-> SubSeq(Records(s, 6)[k], 1, 4), port |-> PortAt(Records(s, 6)[k], 5)]]

(* 18 bytes are one IPv6 peer, else IPv4 peers in sixes.                   *)
parse_compact_peer_info(s) ==
    LET size == IF Len(s) = 18 THEN 18 ELSE 6
        Peer(r) == [ip |-> SubSeq(r, 1, size - 2), port |-> PortAt(r, size - 1)]
    IN IF Len(s) % size # 0 THEN <<>> ELSE [k \in DOMAIN Records(s, size) |-> Peer(Records(s, size)[k])]

parse_compact_node_info(s, ipv6) ==
    LET size == IF ipv6 THEN 38 ELSE 26
        Node(r) == [id |-> SubSeq(r, 1, 20), ip |-> SubSeq(r, 21, size - 2), port |-> PortAt(r, size - 1)]
    IN IF Len(s) % size # 0 THEN <<>> ELSE [k \in DOMAIN Records(s, size) |-> Node(Records(s, size)[k])]

(* Too long is cut, too short is padded with zeros.                        *)
string_to_node_id(s) == [i \in 1..20 |-> IF i <= Len(s) THEN s[i] ELSE 0]

-----------------------------------------------------------------------------
(* Encoding: a dictionary has only the keys that carry something.          *)

Dict(pairs) == [k \in {p[1] : p \in pairs} |-> (CHOOSE p \in pairs : p[1] = k)[2]]
If(c, pair) == IF c THEN {pair} ELSE {}

encode_query(m) ==
    LET args == {<<"id", m.sender>>}
          \cup If(m.query = "find_node", <<"target", m.target>>)
          \cup If(m.query \in {"get_peers", "announce_peer"}, <<"info_hash", m.info_hash>>)
          \cup If(m.query = "announce_peer", <<"port", m.port>>)
          \cup If(m.query = "announce_peer", <<"token", m.token>>)
          \cup If(m.query = "announce_peer" /\ m.implied, <<"implied_port", 1>>)
          \cup If(m.want # <<>>, <<"want", m.want>>)
    IN Dict({<<"t", m.t>>, <<"y", "q">>, <<"q", m.query>>, <<"a", Dict(args)>>})

V6(n) == Len(n.ip) = 16
V4(n) == ~V6(n)
Compacted(nodes) == FlattenSeq([i \in DOMAIN nodes |-> compact_node_info(nodes[i])])

encode_response(m) ==
    LET v4 == Compacted(SelectSeq(m.nodes, V4))
        v6 == Compacted(SelectSeq(m.nodes, V6))
        r == {<<"id", m.response>>}
          \cup If(v4 # <<>>, <<"nodes", v4>>) \cup If(v6 # <<>>, <<"nodes6", v6>>)
          \cup If(m.peers # <<>>, <<"values", [i \in DOMAIN m.peers |-> compact_peer_info(m.peers[i])]>>)
          \cup If(m.token # "", <<"token", m.token>>)
    IN Dict({<<"t", m.t>>, <<"y", "r">>, <<"r", Dict(r)>>}
            \cup If(m.ext # Unspecified, <<"ip", compact_peer_info([ip |-> m.ext, port |-> m.extPort])>>))

encode_error(m) == Dict({<<"t", m.t>>, <<"y", "e">>, <<"e", <<m.code, m.text>>>>})

encode_message(m) ==
    CASE m.type = "q" -> encode_query(m) [] m.type = "r" -> encode_response(m) [] OTHER -> encode_error(m)

-----------------------------------------------------------------------------
(* Decoding: a key that must be there and is not makes Nothing of all.     *)

Has(d, keys) == keys \subseteq DOMAIN d
Read(d, key, default) == IF key \in DOMAIN d THEN d[key] ELSE default
ReadId(d, key) == IF key \in DOMAIN d THEN string_to_node_id(d[key]) ELSE ZeroId

string_to_query_type(q) == IF q \in {"ping", "find_node", "get_peers", "announce_peer"} THEN q ELSE "ping"

decode_query(d) ==
    LET a == d["a"]
        query == string_to_query_type(d["q"])
        m == [create_query(d["t"], string_to_node_id(a["id"]), query) EXCEPT !.want = Read(a, "want", <<>>)]
    IN IF ~Has(d, {"q", "a"}) \/ ~Has(a, {"id"}) THEN Nothing
       ELSE CASE query = "ping" -> m
              [] query = "find_node" -> [m EXCEPT !.target = ReadId(a, "target")]
              [] query = "get_peers" -> [m EXCEPT !.info_hash = ReadId(a, "info_hash")]
              [] OTHER -> [m EXCEPT !.info_hash = ReadId(a, "info_hash"), !.port = Read(a, "port", 0) % 65536,
                                    !.token = Read(a, "token", ""), !.implied = Read(a, "implied_port", 0) # 0]

decode_response(d) ==
    LET r == d["r"]
        nodes == parse_compact_node_info(Read(r, "nodes", <<>>), FALSE)
                 \o parse_compact_node_info(Read(r, "nodes6", <<>>), TRUE)
        values == Read(r, "values", <<>>)
        peers == FlattenSeq([i \in DOMAIN values |-> parse_compact_peer_info(values[i])])
        ends == parse_compact_peer_info(Read(d, "ip", <<>>))
        m == create_response(d["t"], string_to_node_id(r["id"]), nodes, peers, Read(r, "token", ""))
    IN IF ~Has(d, {"r"}) \/ ~Has(r, {"id"}) THEN Nothing
       ELSE IF ends = <<>> THEN m ELSE [m EXCEPT !.ext = ends[1].ip, !.extPort = ends[1].port]

decode_error(d) ==
    IF ~Has(d, {"e"}) \/ Len(d["e"]) < 2 THEN Nothing ELSE create_error(d["t"], d["e"][1], d["e"][2])

decode_message(d) ==
    IF ~Has(d, {"t", "y"}) THEN Nothing
    ELSE CASE d["y"] = "q" -> decode_query(d) [] d["y"] = "r" -> decode_response(d)
           [] d["y"] = "e" -> decode_error(d) [] OTHER -> Nothing

-----------------------------------------------------------------------------
(* One message of each kind the node makes goes out; it may lose a key on  *)
(* the way, as other implementations leave some out.                       *)

Lists(S) == UNION {[1..n -> S] : n \in 0..MaxListed}
WirePeers == [ip : WireIps, port : WirePorts]
WireNodes == [id : WireIds, ip : WireIps, port : WirePorts]

Outgoing ==
    LET queries == {create_query(1, id, "ping") : id \in WireIds}
          \cup {create_find_node_query(1, a, b) : a, b \in WireIds}
          \cup {create_get_peers_query(1, a, b) : a, b \in WireIds}
          \cup {create_announce_peer_query(1, a, b, p, "tok", i) : a, b \in WireIds, p \in WirePorts, i \in BOOLEAN}
        responses == {create_response(1, id, nodes, <<>>, token) : id \in WireIds, nodes \in Lists(WireNodes), token \in {"", "tok"}}
          \cup {create_response(1, id, <<>>, peers, "tok") : id \in WireIds, peers \in Lists(WirePeers)}
    IN {[q EXCEPT !.want = w] : q \in queries, w \in Wants}
       \cup {[r EXCEPT !.ext = p.ip, !.extPort = p.port] : r \in responses, p \in WirePeers}
       \cup {create_error(1, c, "why") : c \in {201, 202, 203, 204}}

KrpcInit == krpc = [sent |-> Nothing, wire |-> <<>>, intact |-> TRUE, got |-> Nothing]

Encode ==
    /\ krpc.sent = Nothing
    /\ \E m \in Outgoing : krpc' = [krpc EXCEPT !.sent = m, !.wire = encode_message(m)]

LoseKey ==
    /\ krpc.sent # Nothing /\ krpc.intact /\ krpc.got = Nothing
    /\ \E k \in DOMAIN krpc.wire :
          krpc' = [krpc EXCEPT !.wire = [j \in DOMAIN krpc.wire \ {k} |-> krpc.wire[j]], !.intact = FALSE]

Decode ==
    /\ krpc.sent # Nothing /\ krpc.got = Nothing
    /\ krpc' = [krpc EXCEPT !.got = decode_message(krpc.wire)]

KrpcNext == Encode \/ LoseKey \/ Decode

-----------------------------------------------------------------------------
(* What is understood is what was said: IPv4 nodes come first, an unknown  *)
(* address reads as zeros, an address to vote on survives; a message that  *)
(* lost its "ip" loses nothing else, one that lost another key is refused. *)
Arrived(m) ==
    LET Sorted == SelectSeq(m.nodes, V4) \o SelectSeq(m.nodes, V6)
    IN [m EXCEPT !.nodes = [i \in DOMAIN Sorted |-> [Sorted[i] EXCEPT !.ip = compact_address(@)]],
                 !.peers = [i \in DOMAIN @ |-> [@[i] EXCEPT !.ip = compact_address(@)]],
                 !.extPort = IF m.ext = Unspecified THEN 0 ELSE @]

UnderstoodAsSaid ==
    krpc.got # Nothing =>
        IF krpc.intact THEN krpc.got = Arrived(krpc.sent)
        ELSE krpc.got = [Arrived(krpc.sent) EXCEPT !.ext = Unspecified, !.extPort = 0]

=============================================================================
