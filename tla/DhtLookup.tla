----------------------------- MODULE DhtLookup ------------------------------
(***************************************************************************)
(* One iterative get_peers lookup (or announce) over the routing table:    *)
(* the candidates ordered by distance, the queries in flight with their    *)
(* two timeouts, and the end of the search.  Everything runs on the DHT    *)
(* thread: a reply, a timeout or a call is one step, the calls it makes on *)
(* the table included.  The network answers a query late, early or never,  *)
(* and may name any contact.                                               *)
(***************************************************************************)
EXTENDS DhtTable

CONSTANTS
    kAlpha, kMaxResults,
    Routers,         \* bootstrap_nodes_: a sequence of claims with id NoId
    Targets,         \* ids a lookup may look for
    MaxNodesPerReply, MaxLookups

ASSUME DhtLookupAssumption ==
    /\ {kAlpha, kMaxResults, MaxNodesPerReply} \subseteq Nat \ {0} /\ MaxLookups \in Nat
    /\ Targets \subseteq 0..(2^IdBits - 1)

VARIABLES lk, lookups

lookupVars == <<table, tableCalls, lk, lookups>>

NoId == 0
NoLookup == [phase |-> "none"]

-----------------------------------------------------------------------------
(* Observers: what the traversal knows of one contact it asked or may ask. *)
(* key tells two observers apart, id is what the contact says it is.       *)

Observer(c, f) == [key |-> c, id |-> c.id, ip |-> c.ip, port |-> c.port, flags |-> f]

has(o, f) == f \in o.flags
InFlight(o) == has(o, "queried") /\ o.flags \cap {"alive", "failed", "done"} = {}
Stale(o) == InFlight(o) /\ has(o, "short")

Traversal(target, announce) ==
    [phase |-> "running", target |-> target, announce |-> announce, results |-> <<>>, sorted |-> 0,
     branch |-> kAlpha, invoked |-> 0, subnets |-> {}, pending |-> {}, tokens |-> {}, announced |-> <<>>]

(* Place of an id in the part of the candidates that is sorted.            *)
lower_bound(l, id) ==
    1 + Cardinality({i \in 1..l.sorted : closer_to(l.results[i].id, id, l.target)})

(* register_subnet refuses a second candidate of a public /24 or /64.      *)
subnet_known(l, c) == c.ip \in PublicIps /\ SubnetOf[c.ip] \in l.subnets

AtMostDown(n, by, floor) == Max({floor, n - by})

(* Candidates past the cutoff are abandoned with their queries.            *)
truncate(l) ==
    LET cut == SubSeq(l.results, kMaxResults + 1, Len(l.results))
        lost == {o \in ToSet(cut) : InFlight(o)}
    IN [l EXCEPT !.results = SubSeq(@, 1, Min({kMaxResults, Len(@)})), !.sorted = Min({@, kMaxResults}),
                 !.invoked = AtMostDown(@, Cardinality(lost), 0),
                 !.branch = AtMostDown(@, Cardinality({o \in lost : Stale(o)}), kAlpha),
                 !.pending = @ \ {o.key : o \in lost}]

add_seed(l, c) == [l EXCEPT !.results = Append(@, Observer(c, {"initial"}))]

add_entry(l, c) ==
    LET pos == lower_bound(l, c.id)
        known == pos <= l.sorted /\ l.results[pos].id = c.id
        placed == [l EXCEPT !.results = InsertAt(@, pos, Observer(c, {})), !.sorted = @ + 1,
                            !.subnets = IF c.ip \in PublicIps THEN @ \cup {SubnetOf[c.ip]} ELSE @]
    IN IF known \/ subnet_known(l, c) THEN l ELSE truncate(placed)

-----------------------------------------------------------------------------
(* Asking.  Ask looks at one candidate, nearest first; a carries the       *)
(* lookup, how many of the k nearest still owe an answer, and how many     *)
(* fresh queries the search waits for.                                     *)

invoke(l, i) ==
    [l EXCEPT !.results[i].flags = @ \cup {"queried"}, !.invoked = @ + 1,
              !.pending = @ \cup {l.results[i].key}]

(* Mutant: a contact that failed is waited for.                            *)
AskWaitsForFailed(a, i) ==
    LET o == a.l.results[i]
    IN CASE a.needed = 0 -> a
         [] a.needed > 0 /\ has(o, "alive") -> [a EXCEPT !.needed = @ - 1]
         [] a.needed > 0 /\ (InFlight(o) \/ has(o, "failed")) -> IF Stale(o) THEN a ELSE [a EXCEPT !.waiting = @ + 1]
         [] a.needed > 0 /\ o.flags \subseteq {"initial"} /\ a.l.invoked < a.l.branch ->
                [a EXCEPT !.l = invoke(@, i), !.waiting = @ + 1]
         [] OTHER -> a

Ask(a, i) ==
    LET o == a.l.results[i]
    IN CASE a.needed = 0 -> a
         [] a.needed > 0 /\ has(o, "alive") -> [a EXCEPT !.needed = @ - 1]
         [] a.needed > 0 /\ InFlight(o) -> IF Stale(o) THEN a ELSE [a EXCEPT !.waiting = @ + 1]
         [] a.needed > 0 /\ o.flags \subseteq {"initial"} /\ a.l.invoked < a.l.branch ->
                [a EXCEPT !.l = invoke(@, i), !.waiting = @ + 1]
         [] OTHER -> a

add_requests(l) ==
    FoldLeft(Ask, [l |-> l, needed |-> kBucketSize, waiting |-> 0], [i \in DOMAIN l.results |-> i])

(* An announce is sent to the nearest k that answered and gave a token.    *)
on_complete(l) ==
    LET Willing(o) == has(o, "alive") /\ o.id \in l.tokens
        to == SelectSeq(l.results, Willing)
    IN IF l.announce THEN [l EXCEPT !.announced = SubSeq(to, 1, Min({kBucketSize, Len(to)}))] ELSE l

finish(l) ==
    on_complete([l EXCEPT !.phase = "done", !.pending = {},
                          !.results = [i \in DOMAIN @ |-> IF InFlight(@[i]) THEN [@[i] EXCEPT !.flags = @ \cup {"done"}]
                                                          ELSE @[i]]])

(* if (add_requests(now)) finish();                                        *)
proceed(l) == LET a == add_requests(l) IN IF a.waiting = 0 THEN finish(a.l) ELSE a.l

-----------------------------------------------------------------------------
(* What resolves a query.                                                  *)

At_(l, k) == CHOOSE i \in DOMAIN l.results : l.results[i].key = k

(* The slot a resolved query held, and the one its short timeout added.    *)
release(l, o) ==
    [l EXCEPT !.invoked = AtMostDown(@, 1, 0),
              !.branch = IF has(o, "short") THEN AtMostDown(@, 1, kAlpha) ELSE @]

(* A seed told its id: it moves from the tail to its place.                *)
resort_result(l, i, id) ==
    LET o == [l.results[i] EXCEPT !.id = id]
        out == [l EXCEPT !.results = RemoveAt(@, i), !.sorted = IF i <= @ THEN @ - 1 ELSE @]
    IN [out EXCEPT !.results = InsertAt(@, lower_bound(out, id), o), !.sorted = @ + 1]

got_token(l, id) == [l EXCEPT !.tokens = @ \cup {id}]

(* The reply of query k: id it gives, contacts it names, whether a token.  *)
on_response(l, k, id, nodes, token) ==
    LET i == At_(l, k)
        alive == [l EXCEPT !.results[i].flags = @ \cup {"alive"}, !.pending = @ \ {k}]
        placed == IF has(l.results[i], "initial") /\ id # NoId THEN resort_result(alive, i, id) ELSE alive
        read == IF token THEN got_token(placed, id) ELSE placed
    IN FoldLeft(add_entry, read, nodes)

on_failed(l, k) ==
    LET i == At_(l, k)
    IN release([l EXCEPT !.results[i].flags = @ \cup {"failed"}, !.pending = @ \ {k}], l.results[i])

on_short(l, k) == [l EXCEPT !.results[At_(l, k)].flags = @ \cup {"short"}, !.branch = @ + 1]

(* The table is told of every contact named, then of the one that answered. *)
hears(t, nodes) ==
    FoldLeft(LAMBDA u, c : add_node(u, Entry(c, kNeverPinged, kRttUnknown)), t, nodes)
sees(t, c, rtt) == add_node(t, record_success(Entry(c, kNeverPinged, kRttUnknown), rtt))

-----------------------------------------------------------------------------
LookupInit == lk = NoLookup /\ lookups = 0

Running == lk.phase = "running"

SeqOfClaims == UNION {[1..n -> Claims] : n \in 0..MaxNodesPerReply}
(* Who may answer at an endpoint: the ids the network shows there.         *)
IdsAt(k) == {c.id : c \in {d \in Claims : d.ip = k.ip /\ d.port = k.port}}

(* Node::start_lookup, and bootstrap() which seeds the routers always.     *)
start_lookup(target, announce, boot) ==
    LET fresh == Traversal(target, announce)
        seeded == IF boot \/ Cardinality(LiveSet(table)) < kAlpha THEN FoldLeft(add_seed, fresh, Routers) ELSE fresh
        near == find_closest(table, target, kBucketSize, TRUE)
        claims == [i \in DOMAIN near |-> [id |-> near[i].id, ip |-> near[i].ip, port |-> near[i].port]]
    IN /\ ~Running /\ lookups < MaxLookups
       /\ lookups' = lookups + 1
       /\ lk' = proceed(FoldLeft(add_entry, seeded, claims))
       /\ UNCHANGED tableVars

Reply(k, id, nodes, token, rtt) ==
    LET l == on_response(lk, k, id, nodes, token)
        o == lk.results[At_(lk, k)]
        from == [id |-> IF has(o, "initial") /\ id # NoId THEN id ELSE o.id, ip |-> o.ip, port |-> o.port]
    IN /\ Running /\ k \in lk.pending
       /\ lk' = proceed(release(l, o))
       /\ table' = sees(hears(table, nodes), from, rtt)
       /\ UNCHANGED <<tableCalls, lookups>>

(* kFullTimeout passed, or the contact answered with an error.             *)
Timeout(k) ==
    LET o == lk.results[At_(lk, k)]
    IN /\ Running /\ k \in lk.pending
       /\ lk' = proceed(on_failed(lk, k))
       /\ table' = IF has(o, "initial") THEN table ELSE fail_node(table, o)
       /\ UNCHANGED <<tableCalls, lookups>>

ShortTimeout(k) ==
    /\ Running /\ k \in lk.pending /\ ~has(lk.results[At_(lk, k)], "short")
    /\ lk' = proceed(on_short(lk, k))
    /\ UNCHANGED <<tableVars, lookups>>

(* cancel_lookup erases a running lookup, reap_finished a finished one;    *)
(* the destructor cancels what is in flight.                               *)
erase_lookup == lk # NoLookup /\ lk' = NoLookup /\ UNCHANGED <<tableVars, lookups>>

LookupNext ==
    \/ \E target \in Targets, announce, boot \in BOOLEAN : start_lookup(target, announce, boot)
    \/ \E k \in (IF Running THEN lk.pending ELSE {}) :
          \/ \E id \in IdsAt(k), nodes \in SeqOfClaims, token \in BOOLEAN, rtt \in RttSamples :
                Reply(k, id, nodes, token, rtt)
          \/ Timeout(k) \/ ShortTimeout(k)
    \/ erase_lookup

(* RpcManager::tick runs every iteration of the loop: a query that stays   *)
(* silent times out in the end.  Weak fairness of Timeout, with its        *)
(* ENABLED spelled out: a query is open.                                   *)
TicksGoOn == []<>(~Running \/ lk.pending = {}) \/ []<><<\E k \in lk.pending : Timeout(k)>>_lookupVars

-----------------------------------------------------------------------------
Flying == {i \in DOMAIN lk.results : InFlight(lk.results[i])}

(* Candidates nearer than the k-th contact that answered.                  *)
Nearest(l) ==
    {i \in DOMAIN l.results :
        Cardinality({j \in 1..(i - 1) : has(l.results[j], "alive")}) < kBucketSize}

(* What the comment at the end of add_requests() says: when a search ends, *)
(* every candidate that could be asked has been.                           *)
NothingLeftToTry ==
    lk.phase = "done" => \A i \in Nearest(lk) : has(lk.results[i], "queried")

(* A search ends: silence, errors and useless answers only delay it.       *)
LookupEnds == []<>~Running

=============================================================================
