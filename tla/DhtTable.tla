------------------------------ MODULE DhtTable ------------------------------
(***************************************************************************)
(* The Kademlia routing table: buckets that split, a live set and standbys *)
(* in each, the index of public addresses, and the rules that decide who   *)
(* is kept.  The DHT thread owns the table, so a call is one step.  What   *)
(* lookups, pings and queries report to it may come in any order: any      *)
(* claim (a node id at an endpoint) may be heard of, answer or fail at any *)
(* time.  Ids are numbers of IdBits bits.                                  *)
(***************************************************************************)
EXTENDS Naturals, Sequences, FiniteSets, SequencesExt, FiniteSetsExt

CONSTANTS
    IdBits,          \* 160 in the code
    kBucketSize,
    TopMult,         \* bucket_limit's kMult, <<>> for a table that is not extended
    kMaxFailCount,
    Claims,          \* the contacts the network may show: records [id, ip, port]
    PublicIps, SubnetOf,   \* is_public_address and the /24 (or /64) of an address
    Verified,        \* verify_node_id_for_ip, the set of claims that pass
    Selves,          \* ids our node may have
    RttSamples,
    MaxTableCalls    \* bound on calls

ASSUME DhtTableAssumption ==
    /\ {IdBits, kBucketSize, kMaxFailCount} \subseteq Nat \ {0}
    /\ Claims \subseteq [id : 0..(2^IdBits - 1), ip : DOMAIN SubnetOf, port : Nat]
    /\ PublicIps \subseteq DOMAIN SubnetOf /\ Selves \subseteq 0..(2^IdBits - 1)
    /\ RttSamples \subseteq 0..65534 /\ Verified \subseteq Claims

VARIABLES table, tableCalls

tableVars == <<table, tableCalls>>

kNeverPinged == 255
kRttUnknown == 65535

-----------------------------------------------------------------------------
(* Ids and the XOR metric.                                                 *)

Bit(id, i) == (id \div 2^(IdBits - 1 - i)) % 2

NodeIds == 0..(2^IdBits - 1)

(* Tables over pairs of ids: XOR, and the number of leading bits shared.   *)
XorOf == [p \in NodeIds \X NodeIds |->
    MapThenSumSet(LAMBDA i : IF Bit(p[1], i) # Bit(p[2], i) THEN 2^(IdBits - 1 - i) ELSE 0, 0..(IdBits - 1))]
PrefixOf == [p \in NodeIds \X NodeIds |->
    Min({i \in 0..(IdBits - 1) : Bit(p[1], i) # Bit(p[2], i)} \cup {IdBits})]

distance(a, b) == XorOf[<<a, b>>]
closer_to(a, b, target) == distance(a, target) < distance(b, target)
shared_prefix_bits(a, b) == PrefixOf[<<a, b>>]

(* n bits of an id from position i on; past the end they read as zero.     *)
bits_at(id, i, n) ==
    MapThenSumSet(LAMBDA k : IF i + k < IdBits THEN Bit(id, i + k) * 2^(n - 1 - k) ELSE 0, 0..(n - 1))

-----------------------------------------------------------------------------
(* Contacts and their quality.                                             *)

Entry(c, fails, rtt) ==
    [id |-> c.id, ip |-> c.ip, port |-> c.port, fails |-> fails, rtt |-> rtt,
     verified |-> c.ip \notin PublicIps \/ c \in Verified]

pinged(e) == e.fails # kNeverPinged
confirmed(e) == e.fails = 0

update_rtt(old, sample) ==
    CASE sample = kRttUnknown -> old
      [] old = kRttUnknown -> sample
      [] OTHER -> (old * 2) \div 3 + sample \div 3

record_success(e, sample) == [e EXCEPT !.fails = 0, !.rtt = update_rtt(@, sample)]

record_failure(e) ==
    IF pinged(e) /\ e.fails < kNeverPinged - 1 THEN [e EXCEPT !.fails = @ + 1] ELSE e

is_worse_than(a, b) ==
    IF a.fails # b.fails THEN a.fails > b.fails
    ELSE IF a.verified # b.verified THEN ~a.verified ELSE a.rtt > b.rtt

find_by_id(s, id) == SelectInSeq(s, LAMBDA e : e.id = id)

worst_of(s) == Min({i \in DOMAIN s : \A j \in DOMAIN s : ~is_worse_than(s[j], s[i])})
best_of(s) == Min({i \in DOMAIN s : \A j \in DOMAIN s : ~is_worse_than(s[i], s[j])})

-----------------------------------------------------------------------------
(* Buckets: b counts from 0 as in the code.  A table t is a value; the     *)
(* operators below return the table after the call.                        *)

EmptyBucket == [live |-> <<>>, repl |-> <<>>]
EmptyTable(me) == [self |-> me, buckets |-> <<EmptyBucket>>, ips |-> [a \in PublicIps |-> 0]]

LastBucket(t) == Len(t.buckets) - 1
At(t, b) == t.buckets[b + 1]
Set(t, b, bucket) == [t EXCEPT !.buckets[b + 1] = bucket]

bucket_index(t, id) == Min({shared_prefix_bits(t.self, id), LastBucket(t)})

bucket_limit(b) == kBucketSize * (IF b + 1 \in DOMAIN TopMult THEN TopMult[b + 1] ELSE 1)

ip_track(t, a) == IF a \in PublicIps THEN [t EXCEPT !.ips[a] = @ + 1] ELSE t
ip_untrack(t, a) ==
    IF a \in PublicIps /\ t.ips[a] > 0 THEN [t EXCEPT !.ips[a] = @ - 1] ELSE t

(* Overwrite slot i of the live set or the standbys.                       *)
assign(t, b, set, i, e) ==
    LET old == At(t, b)[set][i]
    IN ip_track(Set(ip_untrack(t, old.ip), b, [At(t, b) EXCEPT ![set][i] = e]), e.ip)

push(t, b, set, e) == ip_track(Set(t, b, [At(t, b) EXCEPT ![set] = Append(@, e)]), e.ip)

drop(t, b, set, i) ==
    Set(ip_untrack(t, At(t, b)[set][i].ip), b, [At(t, b) EXCEPT ![set] = RemoveAt(@, i)])

(* Promote the best standbys into free live slots.  After a split insert() *)
(* asks for bucket b + 1, which the insertion may just have pruned: the    *)
(* pruned bucket was empty, and nothing is promoted.                       *)
Promoted(t, b) ==
    LET k == At(t, b)
        i == best_of(k.repl)
    IN IF Len(k.live) >= bucket_limit(b) THEN t
       ELSE Set(t, b, [live |-> Append(k.live, k.repl[i]), repl |-> RemoveAt(k.repl, i)])
fill_from_replacements(t, b) ==
    LET standbys == IF b <= LastBucket(t) THEN Len(At(t, b).repl) ELSE 0
        After[n \in 0..standbys] == IF n = 0 THEN t ELSE Promoted(After[n - 1], b)
    IN After[standbys]

(* Mutant: a contact spilled into the standbys is counted as gone.         *)
SpillUntracked(t, b) ==
    LET k == At(t, b)
        i == worst_of(k.live)
    IN ip_untrack(Set(t, b, [live |-> RemoveAt(k.live, i), repl |-> Append(k.repl, k.live[i])]), k.live[i].ip)

(* The worst live contact becomes a standby; it stays in the table.        *)
Spill(t, b) ==
    LET k == At(t, b)
        i == worst_of(k.live)
    IN Set(t, b, [live |-> RemoveAt(k.live, i), repl |-> Append(k.repl, k.live[i])])

(* Spill live overflow into the standbys, and drop what they cannot hold.  *)
Excess(s, limit) == IF Len(s) > limit THEN Len(s) - limit ELSE 0
SpillExcess(t, b) ==
    LET After[n \in 0..Excess(At(t, b).live, bucket_limit(b))] == IF n = 0 THEN t ELSE Spill(After[n - 1], b)
    IN After[Excess(At(t, b).live, bucket_limit(b))]
DropExcess(t, b) ==
    LET DropWorst(u) == drop(u, b, "repl", worst_of(At(u, b).repl))
        After[n \in 0..Excess(At(t, b).repl, kBucketSize)] == IF n = 0 THEN t ELSE DropWorst(After[n - 1])
    IN After[Excess(At(t, b).repl, kBucketSize)]
trim_to_limit(t, b) == DropExcess(SpillExcess(t, b), b)

prune_empty_back(t) ==
    [t EXCEPT !.buckets = SubSeq(@, 1, Max({1} \cup {i \in DOMAIN @ : @[i] # EmptyBucket}))]

split_bucket(t) ==
    LET last == LastBucket(t)
        Stays(e) == shared_prefix_bits(t.self, e.id) <= last
        Moves(e) == ~Stays(e)
        k == At(t, last)
        near == [live |-> SelectSeq(k.live, Stays), repl |-> SelectSeq(k.repl, Stays)]
        deep == [live |-> SelectSeq(k.live, Moves), repl |-> SelectSeq(k.repl, Moves)]
        split == [t EXCEPT !.buckets = Append(Front(@), near) \o <<deep>>]
    IN trim_to_limit(trim_to_limit(split, last), last + 1)

all_on_same_side(s, id, b) == \A i \in DOMAIN s : Bit(s[i].id, b) = Bit(id, b)

can_split(t, b, e) ==
    /\ b = LastBucket(t) /\ Len(t.buckets) < IdBits - 1
    /\ confirmed(e)
    /\ b = 0 \/ Len(At(t, b - 1).live) > 1
    /\ ~all_on_same_side(At(t, b).live, e.id, b)

-----------------------------------------------------------------------------
(* Admission and eviction.                                                 *)

SpreadBits(limit) == Min({n \in 0..limit : 2^n >= limit})
classify_prefix(t, b, id) ==
    bits_at(id, b + (IF b = LastBucket(t) THEN 0 ELSE 1), SpreadBits(bucket_limit(b)))

(* The live slot a confirmed contact may take in a full bucket, or 0.      *)
SlotFor(t, b, e) ==
    LET s == At(t, b).live
        Slot(i) == classify_prefix(t, b, s[i].id)
        failed == {i \in DOMAIN s : pinged(s[i]) /\ s[i].fails > 0}
        mine == {i \in DOMAIN s : Slot(i) = classify_prefix(t, b, e.id)}
        shared == {i \in DOMAIN s : \E j \in DOMAIN s : i # j /\ Slot(i) = Slot(j)}
        Worst(I) == {i \in I : \A j \in I : ~is_worse_than(s[j], s[i])}
        (* candidates are met slot by slot, and in order within a slot     *)
        Before(i, j) == Slot(i) < Slot(j) \/ (Slot(i) = Slot(j) /\ i <= j)
    IN CASE failed # {} -> Min({i \in failed : \A j \in failed : s[i].fails >= s[j].fails})
         [] failed = {} /\ mine # {} -> IF is_worse_than(s[Min(Worst(mine))], e) THEN Min(Worst(mine)) ELSE 0
         [] failed = {} /\ mine = {} /\ shared # {} ->
                CHOOSE i \in Worst(shared) : \A j \in Worst(shared) : Before(i, j)
         [] OTHER -> 0

stash_replacement(t, b, e) ==
    LET r == At(t, b).repl
        i == find_by_id(r, e.id)
    IN IF i # 0 THEN assign(t, b, "repl", i, e)
       ELSE IF Len(r) < kBucketSize THEN push(t, b, "repl", e)
       ELSE IF is_worse_than(r[worst_of(r)], e) THEN assign(t, b, "repl", worst_of(r), e) ELSE t

(* find_by_endpoint: every place that holds an endpoint, first one first.  *)
Holders(t, e) ==
    LET In(b, set) == {i \in DOMAIN At(t, b)[set] : At(t, b)[set][i].ip = e.ip /\ At(t, b)[set][i].port = e.port}
    IN UNION {{<<b, set, i>> : i \in In(b, set)} : b \in 0..LastBucket(t), set \in {"live", "repl"}}

(* Rule 1, one contact per public address: another id at a known endpoint  *)
(* that really answered takes the old contact out, and is not let in.      *)
evict_changed_id(t, e) ==
    IF Holders(t, e) = {} \/ ~pinged(e) THEN t
    ELSE LET b == Min({h[1] : h \in Holders(t, e)})
             set == IF \E h \in Holders(t, e) : h[1] = b /\ h[2] = "live" THEN "live" ELSE "repl"
             i == Min({h[3] : h \in {g \in Holders(t, e) : g[1] = b /\ g[2] = set}})
             gone == drop(t, b, set, i)
         IN prune_empty_back(IF set = "live" THEN fill_from_replacements(gone, b) ELSE gone)

ip_known(t, e) == e.ip \in PublicIps /\ t.ips[e.ip] > 0

(* Rule 2, one contact per subnet in a bucket.                             *)
subnet_taken(t, b, e) ==
    /\ e.ip \in PublicIps
    /\ \E n \in ToSet(At(t, b).live) \cup ToSet(At(t, b).repl) : SubnetOf[n.ip] = SubnetOf[e.ip]

(* The live contact is refreshed where it is; only an answer counts.       *)
refresh(t, b, i, e) ==
    LET old == At(t, b).live[i]
        merged == [old EXCEPT !.verified = @ \/ e.verified]
        moved == record_success([merged EXCEPT !.ip = e.ip, !.port = e.port], e.rtt)
    IN IF pinged(e) THEN assign(t, b, "live", i, moved)
       ELSE Set(t, b, [At(t, b) EXCEPT !.live[i] = merged])

passes_ip_diversity(t, b, e) == ~ip_known(t, e) /\ ~subnet_taken(t, b, e)

(* The table after as many splits as the contact brings about.             *)
SplitFor(t, e, promoted) ==
    LET Split(u, b) ==
            IF /\ (promoted /\ u = t) \/ passes_ip_diversity(u, b, e)
               /\ Len(At(u, b).live) >= bucket_limit(b)
               /\ can_split(u, b, e) THEN split_bucket(u) ELSE u
        Again(u) == Split(u, bucket_index(u, e.id))
        After[n \in 0..IdBits] == IF n = 0 THEN t ELSE Again(After[n - 1])
    IN After[IdBits]

(* The contact in its place of a table that is split no more.              *)
Placed(t, e, promoted, b) ==
    LET TakesSlot(i) == IF i # 0 THEN assign(t, b, "live", i, e) ELSE stash_replacement(t, b, e)
    IN IF ~promoted /\ ip_known(t, e) THEN evict_changed_id(t, e)
       ELSE IF ~promoted /\ subnet_taken(t, b, e) THEN t
       ELSE IF Len(At(t, b).live) < bucket_limit(b) THEN push(t, b, "live", e)
       ELSE TakesSlot(IF confirmed(e) THEN SlotFor(t, b, e) ELSE 0)

(* Both halves of every split are filled up, the last split first.         *)
InsertSplit(t, e, promoted, last) ==
    LET splits == LastBucket(t) - last
        Fill(u, b) == fill_from_replacements(fill_from_replacements(u, b), b + 1)
        After[n \in 0..splits] ==
            IF n = 0 THEN Placed(t, e, promoted /\ splits = 0, bucket_index(t, e.id))
            ELSE Fill(After[n - 1], LastBucket(t) - n)
    IN After[splits]
insert(t, e, promoted) == InsertSplit(SplitFor(t, e, promoted), e, promoted, LastBucket(t))

add_node(t, e) ==
    LET b == bucket_index(t, e.id)
        l == find_by_id(At(t, b).live, e.id)
        r == find_by_id(At(t, b).repl, e.id)
        kept == At(t, b).repl[r]
        carried == record_success([kept EXCEPT !.ip = e.ip, !.port = e.port,
                                               !.verified = @ \/ e.verified], e.rtt)
    IN IF e.id = t.self THEN t
       ELSE IF l # 0 THEN refresh(t, b, l, e)
       ELSE IF r # 0 /\ ~pinged(e) THEN t
       ELSE insert(IF r # 0 THEN drop(t, b, "repl", r) ELSE t, IF r # 0 THEN carried ELSE e, r # 0)

fail_node(t, c) ==
    LET b == bucket_index(t, c.id)
        l == find_by_id(At(t, b).live, c.id)
        r == find_by_id(At(t, b).repl, c.id)
        Same(e) == e.ip = c.ip /\ e.port = c.port
        Spent(e) == ~pinged(e) \/ e.fails >= kMaxFailCount
        failed == [At(t, b) EXCEPT !.live[l] = record_failure(@)]
        failedR == [At(t, b) EXCEPT !.repl[r] = record_failure(@)]
    IN CASE l = 0 /\ r # 0 /\ Same(At(t, b).repl[r]) ->
                IF Spent(failedR.repl[r]) THEN drop(t, b, "repl", r) ELSE Set(t, b, failedR)
         [] l # 0 /\ Same(At(t, b).live[l]) ->
                prune_empty_back(
                    IF At(t, b).repl # <<>> THEN fill_from_replacements(drop(t, b, "live", l), b)
                    ELSE IF Spent(failed.live[l]) THEN drop(t, b, "live", l)
                    ELSE Set(t, b, failed))
         [] OTHER -> t

(* Every contact in table order, and the table rebuilt from a list.        *)
contacts(t) == FlattenSeq([i \in DOMAIN t.buckets |-> t.buckets[i].live \o t.buckets[i].repl])
rebuilt(me, s) == FoldLeft(add_node, EmptyTable(me), s)

LiveSet(t) == UNION {ToSet(t.buckets[i].live) : i \in DOMAIN t.buckets}

(* Mutant: the deeper buckets are left out when the target's own is short. *)
find_closest_upwards(t, target, n, unconfirmed) ==
    LET Usable(e) == unconfirmed \/ confirmed(e)
        In(B) == {e \in UNION {ToSet(At(t, b).live) : b \in B} : Usable(e)}
        start == bucket_index(t, target)
        tiers == {b..start : b \in 0..start}
        enough == {B \in tiers : Cardinality(In(B)) >= n}
        Smallest(T) == CHOOSE B \in T : \A C \in T : B \subseteq C
        found == IF enough = {} THEN In(0..start) ELSE In(Smallest(enough))
        sorted == SetToSortSeq(found, LAMBDA x, y : closer_to(x.id, y.id, target))
    IN SubSeq(sorted, 1, Min({n, Len(sorted)}))

(* Up to n contacts near a target, by whole tiers of buckets.              *)
find_closest(t, target, n, unconfirmed) ==
    LET Usable(e) == unconfirmed \/ confirmed(e)
        In(B) == {e \in UNION {ToSet(At(t, b).live) : b \in B} : Usable(e)}
        start == bucket_index(t, target)
        deeper == IF Cardinality(In({start})) < n THEN start..LastBucket(t) ELSE {start}
        tiers == {deeper \cup (b..(start - 1)) : b \in 0..start}
        enough == {B \in tiers : Cardinality(In(B)) >= n}
        Smallest(T) == CHOOSE B \in T : \A C \in T : B \subseteq C
        found == IF enough = {} THEN In(deeper \cup 0..start) ELSE In(Smallest(enough))
        sorted == SetToSortSeq(found, LAMBDA x, y : closer_to(x.id, y.id, target))
    IN SubSeq(sorted, 1, Min({n, Len(sorted)}))

-----------------------------------------------------------------------------
(* The calls.                                                              *)

TableInit == table \in {EmptyTable(me) : me \in Selves} /\ tableCalls = 0

TableCall(t) ==
    /\ tableCalls < MaxTableCalls
    /\ tableCalls' = tableCalls + 1
    /\ table' = t

heard_about(c) == TableCall(add_node(table, Entry(c, kNeverPinged, kRttUnknown)))

node_seen(c, rtt) == TableCall(add_node(table, record_success(Entry(c, kNeverPinged, kRttUnknown), rtt)))

node_failed(c) == TableCall(fail_node(table, c))

set_self(me) ==
    /\ me # table.self
    /\ TableCall(rebuilt(me, contacts(table)))

(* stop() saves the confirmed live contacts, start() loads them.           *)
good_contacts == SelectSeq(contacts(table), LAMBDA e : e \in LiveSet(table) /\ confirmed(e))
reload == TableCall(rebuilt(table.self, [i \in DOMAIN good_contacts |->
                    record_success([good_contacts[i] EXCEPT !.verified = FALSE, !.rtt = kRttUnknown],
                                   good_contacts[i].rtt)]))

TableNext ==
    \/ \E c \in Claims : heard_about(c) \/ node_failed(c)
    \/ \E c \in Claims, rtt \in RttSamples : node_seen(c, rtt)
    \/ \E me \in Selves : set_self(me)
    \/ reload

-----------------------------------------------------------------------------
(* The address index counts the contacts, live and standby, of every       *)
(* public address (what ip_index_consistent() recomputes for the tests).   *)
IpIndexConsistent ==
    LET all == contacts(table)
    IN \A a \in PublicIps : table.ips[a] = Cardinality({i \in DOMAIN all : all[i].ip = a})

(* Every contact is in the bucket bucket_index() finds it in, once, and    *)
(* limits hold: no call on an id misses or duplicates a contact.           *)
EveryoneHome ==
    /\ \A b \in 0..LastBucket(table) :
          /\ Len(At(table, b).live) <= bucket_limit(b) /\ Len(At(table, b).repl) <= kBucketSize
          /\ \A e \in ToSet(At(table, b).live) \cup ToSet(At(table, b).repl) :
                bucket_index(table, e.id) = b /\ e.id # table.self
    /\ LET all == contacts(table) IN \A i, j \in DOMAIN all : all[i].id = all[j].id => i = j

(* find_closest() takes a prefix of the bucket tiers, and still returns    *)
(* exactly the nearest contacts of the whole table.                        *)
FindsClosest ==
    LET all == {e.id : e \in LiveSet(table)}
    IN \A target \in {c.id : c \in Claims}, n \in 1..2 :
          LET found == {e.id : e \in ToSet(find_closest(table, target, n, TRUE))}
          IN /\ Cardinality(found) = Min({n, Cardinality(all)})
             /\ \A x \in found, y \in all \ found : closer_to(x, y, target)

(* Through splits, spills, promotions, evictions and id changes the table  *)
(* stays one: every contact is where it is looked for, and the address     *)
(* index knows exactly who is there, and find_closest() returns the        *)
(* nearest contacts of the whole table.                                    *)
TableSound == IpIndexConsistent /\ EveryoneHome /\ FindsClosest

=============================================================================
