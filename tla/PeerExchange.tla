---------------------------- MODULE PeerExchange ----------------------------
(***************************************************************************)
(* How peers come to know each other's addresses: identify, which tells    *)
(* the other end of a new connection where we listen and where we see it,  *)
(* and peer exchange, which passes such addresses on and dials them.       *)
(*                                                                         *)
(* A connection comes up at both ends in one step, and of two between the  *)
(* same peers the table keeps one (module PeerTable has the races).  All   *)
(* nodes listen.                                                           *)
(***************************************************************************)
EXTENDS Naturals, Sequences, FiniteSets, SequencesExt

CONSTANTS
    Nodes,              \* peer ids, numbers from 1 on: their order breaks ties
    Homed,              \* nodes whose interface has an address of its own
    Worlds,             \* initial dials, whether source ports answer, calls of request_peers
    public_only, request_max, max_addresses_per_response, max_recent_dials,
    kMaxAddresses, kMaxAddressesPerPeer,
    MaxFailedDials      \* bound: dials of an address that answers, in vain

VARIABLE net

(* Addresses: where a node listens, its interface's own address with that  *)
(* port, and the source port of its connection to another node.            *)
Listen(m) == <<m, m>>
Local(m) == <<m, 0>>
Source(m, n) == <<m, n>>
IsPublic(a) == a[2] # 0
Answers(w, a) == a[2] \in {0, a[1]} \/ w.answers

Quiet(b) == b.dials = {} /\ \A n, m \in Nodes : b.wire[n][m] = <<>>
Linked(b, n, m) == <<n, m>> \in b.link \/ <<m, n>> \in b.link
connected_peers(b, n) == {m \in Nodes : Linked(b, n, m)}

ExchangeInit ==
    \E w \in Worlds :
        net = [answers |-> w.answers, dials |-> {<<d[1], Listen(d[2])>> : d \in w.start}, link |-> {},
               wire |-> [n \in Nodes |-> [m \in Nodes |-> <<>>]], addrs |-> [n \in Nodes |-> [m \in Nodes |-> <<>>]],
               recent |-> [n \in Nodes |-> {}], seen |-> [n \in Nodes |-> {}], failed |-> 0, pulls |-> w.pulls]

(* Nothing is sent to a peer that is not connected.                        *)
send(b, n, m, msg) == IF Linked(b, n, m) THEN [b EXCEPT !.wire[n][m] = Append(@, msg)] ELSE b

-----------------------------------------------------------------------------
(* Identify.                                                               *)

(* What is read back: all of the addresses, or no message at all.          *)
decode(as) == Len(as) <= kMaxAddresses
encode(as) == SubSeq(as, 1, IF Len(as) < kMaxAddresses THEN Len(as) ELSE kMaxAddresses)
advertised_addresses(n) == <<IF n \in Homed THEN Local(n) ELSE Listen(n)>>
remote_endpoint(b, n, m) == IF <<n, m>> \in b.link THEN b.addrs[n][m][1] ELSE Source(m, n)
send_identify(b, n, m) == send(b, n, m, <<"identify", encode(advertised_addresses(n)), remote_endpoint(b, n, m)>>)

(* on_established at the end of n: the table's entry starts with the       *)
(* address that was dialled, if any.  Only a new peer is asked for peers.  *)
Entered(b, n, m, known, new) ==
    LET c == [b EXCEPT !.addrs[n][m] = known, !.wire[n][m] = <<>>]
    IN send_identify(IF new THEN send(c, n, m, <<"request">>) ELSE c, n, m)
Established(b, n, a) ==
    LET m == a[1]
        old == {l \in b.link : l \in {<<n, m>>, <<m, n>>}}
        wins == old = {} \/ <<n, m>> \in old \/ n < m
        c == [b EXCEPT !.link = (@ \ old) \cup {<<n, m>>}]
    IN IF wins THEN Entered(Entered(c, n, m, <<a>>, old = {}), m, n, <<>>, old = {}) ELSE b

(* PeerTable::add_addresses, and those it really added.                    *)
NewAddresses(known, as) ==
    LET Add(acc, a) == IF a \in ToSet(known \o acc) \/ Len(known \o acc) >= kMaxAddressesPerPeer THEN acc ELSE Append(acc, a)
    IN FoldLeft(Add, <<>>, as)

(* The first address that may be shared.                                   *)
pick_shareable(as) == SelectSeq(as, LAMBDA a : ~public_only \/ IsPublic(a))

RECURSIVE PushAll(_, _, _, _)
PushAll(b, n, to, msg) ==
    IF to = {} THEN b ELSE LET m == CHOOSE x \in to : TRUE IN PushAll(send(b, n, m, msg), n, to \ {m}, msg)
on_peer_identified(b, n, m, added) ==
    LET as == pick_shareable(added)
    IN IF as = <<>> THEN b ELSE PushAll(b, n, connected_peers(b, n) \ {m}, <<"peers", <<<<m, as[1]>>>>>>)

(* Mutant: the addresses of a peer are filled in and nobody is told.       *)
handle_identify_quiet(b, n, m, as, observed) ==
    [b EXCEPT !.addrs[n][m] = @ \o NewAddresses(@, as), !.seen[n] = @ \cup {observed}]
(* The end it sees, that host with the port it listens on, and what it     *)
(* says itself, in this order.                                             *)
handle_identify(b, n, m, as, observed) ==
    LET ep == remote_endpoint(b, n, m)
        added == NewAddresses(b.addrs[n][m], <<ep, IF IsPublic(ep) THEN Listen(m) ELSE Local(m)>> \o as)
        c == [b EXCEPT !.addrs[n][m] = @ \o added]
    IN [(IF added = <<>> THEN c ELSE on_peer_identified(c, n, m, added)) EXCEPT !.seen[n] = @ \cup {observed}]

-----------------------------------------------------------------------------
(* Peer exchange.                                                          *)

(* Which of the peers are named when there are too many is up to the       *)
(* table's order.                                                          *)
Named(b, n, m) == {p \in connected_peers(b, n) \ {m} : pick_shareable(b.addrs[n][p]) # <<>>}
Limit(S) ==
    LET l == IF request_max < max_addresses_per_response THEN request_max ELSE max_addresses_per_response
    IN IF Cardinality(S) < l THEN Cardinality(S) ELSE l
handle_request(b, n, m) ==
    {IF S = {} THEN b ELSE send(b, n, m, <<"peers", SetToSeq({<<p, pick_shareable(b.addrs[n][p])[1]>> : p \in S})>>) :
        S \in {T \in SUBSET Named(b, n, m) : Cardinality(T) = Limit(Named(b, n, m))}}

should_dial(b, n, a) == Cardinality(b.recent[n]) < max_recent_dials /\ a \notin b.recent[n]
handle_response(b, n, list) ==
    LET before == connected_peers(b, n)
        Take(acc, e) ==
            IF acc.dialed >= max_addresses_per_response \/ e[1] = n \/ e[1] \in before \/ ~should_dial(acc.b, n, e[2]) THEN acc
            ELSE [b |-> [acc.b EXCEPT !.recent[n] = @ \cup {e[2]}, !.dials = @ \cup {<<n, e[2]>>}], dialed |-> acc.dialed + 1]
    IN FoldLeft(Take, [b |-> b, dialed |-> 0], list).b

-----------------------------------------------------------------------------
(* on_frame at n, of what m sent.                                          *)
Deliver(n, m) ==
    /\ net.wire[m][n] # <<>>
    /\ LET msg == Head(net.wire[m][n])
           b == [net EXCEPT !.wire[m][n] = Tail(@)]
       IN \/ msg[1] = "identify" /\ net' = IF decode(msg[2]) THEN handle_identify(b, n, m, msg[2], msg[3]) ELSE b
          \/ msg[1] = "request" /\ net' \in handle_request(b, n, m)
          \/ msg[1] = "peers" /\ net' = handle_response(b, n, msg[2])

DialSucceeds(d) == d \in net.dials /\ Answers(net, d[2]) /\ net' = Established([net EXCEPT !.dials = @ \ {d}], d[1], d[2])
DialFails(d) ==
    /\ d \in net.dials
    /\ Answers(net, d[2]) => net.failed < MaxFailedDials /\ net.link # {}
    /\ net' = [net EXCEPT !.dials = @ \ {d}, !.failed = IF Answers(net, d[2]) THEN @ + 1 ELSE @]

(* The cooldown of an address passes.                                      *)
CooldownPasses(n, a) == a \in net.recent[n] /\ net' = [net EXCEPT !.recent[n] = @ \ {a}]

request_peers(n) ==
    /\ net.pulls > 0
    /\ net' = PushAll([net EXCEPT !.pulls = @ - 1], n, connected_peers(net, n), <<"request">>)

ExchangeNext ==
    \/ \E n, m \in Nodes : Deliver(n, m)
    \/ \E d \in net.dials : DialSucceeds(d) \/ DialFails(d)
    \/ \E n \in Nodes : request_peers(n) \/ \E a \in net.recent[n] : CooldownPasses(n, a)

-----------------------------------------------------------------------------
(* When nothing is under way any more, two peers of one node are connected *)
(* with each other: the node told at least one of them of the other, in    *)
(* whatever order the connections, the requests and identify came, and at  *)
(* an address that answers.                                                *)
TrianglesClose ==
    Quiet(net) => \A h, n, m \in Nodes : n # m /\ Linked(net, n, h) /\ Linked(net, h, m) => Linked(net, n, m)

=============================================================================
