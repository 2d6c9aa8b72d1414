--------------------------- MODULE Storage_proofs ---------------------------
(***************************************************************************)
(* Proofs about the Last-Write-Wins merge, about the replicated store,     *)
(* whose entries only grow newer and which agrees with its peers at rest,  *)
(* and about the file the persistence thread and the application write.    *)
(***************************************************************************)
EXTENDS StorageSync, StorageDisk, TLAPS

(* The merge.                                                              *)

Stored == [ts : Nat, origin : Nat, val : Values \cup {Tombstone}]

(* Entries that bear the same stamp are the same entry: what a call that   *)
(* stamps its entries once, on a clock that moved, guarantees.             *)
OneStampOneEntry(S) ==
    \A e, f \in S : e.ts = f.ts /\ e.origin = f.origin => e = f

(* "LWW makes the merge order-independent" (storage.h): among entries with *)
(* distinct stamps apply_remote_entry yields the same result in whatever   *)
(* order, however often and from whatever state entries arrive.            *)
THEOREM MergeOrderIndependent ==
    ASSUME NEW S \in SUBSET Stored, OneStampOneEntry(S),
           NEW e \in S, NEW f \in S, NEW g \in S \cup {Absent}
    PROVE  /\ Merge(Merge(g, e), f) = Merge(Merge(g, f), e)
           /\ Merge(Merge(g, e), e) = Merge(g, e)
           /\ Merge(Absent, e) = e
<1>1. /\ e.ts \in Nat /\ f.ts \in Nat /\ e.origin \in Nat /\ f.origin \in Nat
      /\ e # Absent /\ f # Absent
  BY SyncAssumption DEF Stored, Absent, Tombstone
<1>2. e.ts = f.ts /\ e.origin = f.origin => e = f
  BY DEF OneStampOneEntry
<1>3. CASE g = Absent
  BY <1>1, <1>2, <1>3 DEF Merge, wins_over
<1>4. CASE g # Absent
  <2>1. g \in S /\ g.ts \in Nat /\ g.origin \in Nat
    BY <1>4 DEF Stored
  <2>2. /\ e.ts = g.ts /\ e.origin = g.origin => e = g
        /\ f.ts = g.ts /\ f.origin = g.origin => f = g
    BY <2>1 DEF OneStampOneEntry
  <2> QED BY <1>1, <1>2, <1>4, <2>1, <2>2 DEF Merge, wins_over
<1> QED BY <1>3, <1>4

-----------------------------------------------------------------------------
(* The store.                                                              *)

AnyEntry == [ts : Nat, origin : Nat, val : Values \cup {Tombstone, "absent"}]
Writes == [key : Keys, new : AnyEntry]

(* Snapshots and messages made of entries in W only.                       *)
Snapshots(W) ==
    {f \in [Keys -> AnyEntry] : \A k \in Keys : f[k] = Absent \/ Write(k, f[k]) \in W}
Messages(W) ==
    [type : {"ENTRY"}, w : W] \cup [type : {"SYNC_REQUEST"}]
      \cup [type : {"SYNC_RESPONSE"}, all : Snapshots(W)]
Ops == {Idle} \cup [at : {"stamped", "stored"}, call : {"put", "remove"}, w : Writes]

(* Everything in a table or in flight was stored by some call, and a call  *)
(* of a paced run carries a stamp past all of them.                        *)
Inv ==
    /\ written \subseteq Writes
    /\ now \in Nat
    /\ entries \in [Nodes -> Snapshots(written)]
    /\ op \in [Nodes -> Ops]
    /\ chan \in [Nodes \X Nodes -> Seq(Messages(written))]
    /\ \A n \in Nodes : op[n].at = "stored" => op[n].w \in written
    /\ \A n \in Nodes : op[n].at = "stamped" =>
          /\ \A m \in Nodes \ {n} : op[m] = Idle
          /\ \A w \in written : w.new.ts < op[n].w.new.ts

LEMMA SentToType ==
    ASSUME NEW M, NEW c \in [Nodes \X Nodes -> Seq(M)], NEW n, NEW S, NEW msg \in M
    PROVE  SentTo(c, n, S, msg) \in [Nodes \X Nodes -> Seq(M)]
BY DEF SentTo

LEMMA MergeSnapshot ==
    ASSUME NEW W \in SUBSET Writes, NEW t \in Snapshots(W), NEW w \in W
    PROVE  [t EXCEPT ![w.key] = Merge(@, w.new)] \in Snapshots(W)
<1>1. w.key \in Keys /\ w.new \in AnyEntry /\ w = Write(w.key, w.new)
  BY DEF Writes, Write
<1>2. t \in [Keys -> AnyEntry]
  BY DEF Snapshots
<1> QED BY <1>1, <1>2 DEF Snapshots, Merge

LEMMA StoreKeepsInv ==
    ASSUME Inv, NEW n \in Nodes, op[n].at = "stamped", Store(n),
           UNCHANGED <<chan, now>>
    PROVE  Inv'
<1>1. /\ op[n] \in Ops /\ op[n] # Idle
      /\ op[n].w \in Writes
  BY DEF Inv, Ops, Idle
<1> DEFINE w == op[n].w
<1>2. /\ w.key \in Keys /\ w.new \in AnyEntry /\ w = Write(w.key, w.new)
      /\ op[n] = [at |-> "stamped", call |-> op[n].call, w |-> w]
      /\ op[n].call \in {"put", "remove"}
  BY <1>1 DEF Writes, Write, Ops
<1>3. written' = written \cup {w} /\ written \subseteq written' /\ written' \subseteq Writes
  BY <1>1 DEF Inv, Store
<1>4. /\ Snapshots(written) \subseteq Snapshots(written')
      /\ Seq(Messages(written)) \subseteq Seq(Messages(written'))
  <2>1. Snapshots(written) \subseteq Snapshots(written')
    BY <1>3 DEF Snapshots
  <2>2. Messages(written) \subseteq Messages(written')
    BY <1>3, <2>1 DEF Messages
  <2> QED BY <2>1, <2>2
<1>5. entries' \in [Nodes -> Snapshots(written')]
  <2>1. entries' = [entries EXCEPT ![n] = [entries[n] EXCEPT ![w.key] = w.new]]
    BY <1>2 DEF Store, Inv, Snapshots
  <2>2. entries[n] \in Snapshots(written') /\ entries[n] \in [Keys -> AnyEntry]
    BY <1>4 DEF Inv, Snapshots
  <2>3. Write(w.key, w.new) \in written'
    BY <1>2, <1>3
  <2>4. [entries[n] EXCEPT ![w.key] = w.new] \in Snapshots(written')
    BY <1>2, <2>2, <2>3 DEF Snapshots
  <2> QED BY <1>4, <2>1, <2>4 DEF Inv
<1>6. /\ op'[n] = [at |-> "stored", call |-> op[n].call, w |-> w]
      /\ \A m \in Nodes \ {n} : op'[m] = op[m] /\ op[m] = Idle
      /\ op' \in [Nodes -> Ops]
  BY <1>1, <1>2 DEF Inv, Store, Ops
<1>7. Idle.at = "idle"
  BY DEF Idle
<1>8. \A m \in Nodes : op'[m].at = "stored" => op'[m].w \in written'
  BY <1>3, <1>6, <1>7
<1>9. \A m \in Nodes : op'[m].at # "stamped"
  BY <1>6, <1>7
<1>10. chan' \in [Nodes \X Nodes -> Seq(Messages(written'))]
  BY <1>4 DEF Inv
<1>11. now' \in Nat
  BY DEF Inv
<1> QED BY <1>3, <1>5, <1>6, <1>8, <1>9, <1>10, <1>11 DEF Inv

LEMMA RefuseKeepsInv ==
    ASSUME Inv, NEW n \in Nodes, Refuse(n), UNCHANGED <<chan, now>>
    PROVE  Inv'
<1>1. op' \in [Nodes -> Ops] /\ op'[n] = Idle /\ Idle.at = "idle"
  BY DEF Inv, Refuse, Ops, Idle
<1>2. \A m \in Nodes : op'[m] = op[m] \/ op'[m] = Idle
  BY DEF Inv, Refuse
<1>3. written' = written /\ entries' = entries
  BY DEF Refuse
<1> QED BY <1>1, <1>2, <1>3 DEF Inv

(* A step that only receives the head of a channel and sends.              *)
LEMMA DeliverKeepsInv ==
    ASSUME Inv, NEW n \in Nodes, NEW from \in Nodes, Deliver(from, n)
    PROVE  Inv'
<1> DEFINE M == Messages(written)
           msg == Head(chan[<<from, n>>])
           rest == [chan EXCEPT ![<<from, n>>] = Tail(@)]
<1>1. /\ chan[<<from, n>>] \in Seq(M) /\ chan[<<from, n>>] # <<>>
      /\ written' = written /\ op' = op /\ now' = now
  BY DEF Inv, Deliver
<1>2. msg \in M /\ rest \in [Nodes \X Nodes -> Seq(M)]
  <2>1. msg \in M /\ Tail(chan[<<from, n>>]) \in Seq(M)
    BY <1>1
  <2> QED BY <2>1 DEF Inv
<1>3. entries[n] \in Snapshots(written) /\ entries[n] \in [Keys -> AnyEntry]
  BY DEF Inv, Snapshots
<1>4. ASSUME OnEntry(n, from, msg)
      PROVE  entries' \in [Nodes -> Snapshots(written)] /\ chan' \in [Nodes \X Nodes -> Seq(M)]
  <2>1. msg.type = "ENTRY" /\ msg.w \in written
    BY <1>2, <1>4 DEF OnEntry, Messages
  <2>2. entries' = [entries EXCEPT ![n] = [entries[n] EXCEPT ![msg.w.key] = Merge(@, msg.w.new)]]
    BY <1>4 DEF OnEntry, Inv
  <2>3. [entries[n] EXCEPT ![msg.w.key] = Merge(@, msg.w.new)] \in Snapshots(written)
    BY <1>3, <2>1, MergeSnapshot DEF Inv
  <2>4. entries' \in [Nodes -> Snapshots(written)]
    BY <2>2, <2>3 DEF Inv
  <2>5. chan' = SentTo(rest, n, IF wins_over(msg.w.new, entries[n][msg.w.key])
                                THEN Nodes \ {from} ELSE {}, msg)
    BY <1>4 DEF OnEntry
  <2> QED BY <1>2, <2>4, <2>5, SentToType
<1>5. ASSUME OnSyncRequest(n, from, msg)
      PROVE  entries' \in [Nodes -> Snapshots(written)] /\ chan' \in [Nodes \X Nodes -> Seq(M)]
  <2>1. [type |-> "SYNC_RESPONSE", all |-> entries[n]] \in M
    BY <1>3 DEF Messages
  <2>2. chan' = SentTo(rest, n, {from}, [type |-> "SYNC_RESPONSE", all |-> entries[n]])
    BY <1>5 DEF OnSyncRequest
  <2>3. entries' = entries
    BY <1>5 DEF OnSyncRequest
  <2> QED BY <1>2, <2>1, <2>2, <2>3, SentToType DEF Inv
<1>6. ASSUME OnSyncResponse(n, from, msg)
      PROVE  entries' \in [Nodes -> Snapshots(written)] /\ chan' \in [Nodes \X Nodes -> Seq(M)]
  <2>1. msg.type = "SYNC_RESPONSE" /\ msg.all \in Snapshots(written)
    BY <1>2, <1>6 DEF OnSyncResponse, Messages
  <2> DEFINE new == [k \in Keys |-> IF msg.all[k] = Absent THEN entries[n][k]
                                    ELSE Merge(entries[n][k], msg.all[k])]
  <2>2. entries' = [entries EXCEPT ![n] = new]
    BY <1>6 DEF OnSyncResponse, Inv
  <2>3. new \in Snapshots(written)
    BY <1>3, <2>1 DEF Snapshots, Merge
  <2>4. entries' \in [Nodes -> Snapshots(written)]
    BY <2>2, <2>3 DEF Inv
  <2>5. chan' = rest
    BY <1>6 DEF OnSyncResponse
  <2> QED BY <1>2, <2>4, <2>5
<1>7. entries' \in [Nodes -> Snapshots(written)] /\ chan' \in [Nodes \X Nodes -> Seq(M)]
  BY <1>4, <1>5, <1>6 DEF Deliver
<1> QED BY <1>1, <1>7 DEF Inv

(* A step that leaves the store and its messages alone.                    *)
LEMMA OthersKeepInv ==
    ASSUME Inv, UNCHANGED <<entries, op, written, chan>>, now' \in Nat
    PROVE  Inv'
BY DEF Inv

LEMMA StampKeepsInv ==
    ASSUME Paced, Inv, NEW n \in Nodes, NEW k \in Keys, NEW call \in {"put", "remove"},
           NEW v \in Values \cup {Tombstone}, Stamp(n, call, k, v)
    PROVE  Inv'
<1> DEFINE w == Write(k, Entry(now + Ahead[n], n, v))
<1>1. /\ now + Ahead[n] \in Nat /\ n \in Nat
  BY SyncAssumption DEF Inv
<1>2. w \in Writes /\ w.new.ts = now + Ahead[n]
  BY <1>1 DEF Writes, Write, Entry, AnyEntry
<1>3. /\ op' = [op EXCEPT ![n] = [at |-> "stamped", call |-> call, w |-> w]]
      /\ UNCHANGED <<entries, written, chan, now>>
      /\ Apart(n)
  BY DEF Stamp
<1>4. [at |-> "stamped", call |-> call, w |-> w] \in Ops
  BY <1>2 DEF Ops
<1>5. op' \in [Nodes -> Ops]
  BY <1>3, <1>4 DEF Inv
<1>6. /\ op'[n] = [at |-> "stamped", call |-> call, w |-> w]
      /\ \A m \in Nodes \ {n} : op'[m] = Idle /\ Idle.at = "idle"
  BY <1>3 DEF Inv, Apart, Idle
<1>7. \A m \in Nodes : op'[m].at = "stored" => op'[m].w \in written'
  BY <1>6
<1>8. \A x \in written : x.new.ts < w.new.ts
  BY <1>2, <1>3 DEF Apart
<1>9. \A m \in Nodes : op'[m].at = "stamped" =>
          /\ \A p \in Nodes \ {m} : op'[p] = Idle
          /\ \A x \in written' : x.new.ts < op'[m].w.new.ts
  BY <1>3, <1>6, <1>8
<1> QED BY <1>3, <1>5, <1>7, <1>9 DEF Inv

LEMMA SendKeepsInv ==
    ASSUME Inv, NEW n \in Nodes, Broadcast(n)
    PROVE  Inv'
<1>1. op[n] \in Ops /\ op[n].w \in written
  BY DEF Inv, Broadcast
<1>2. [type |-> "ENTRY", w |-> op[n].w] \in Messages(written)
  BY <1>1 DEF Messages
<1>3. chan' \in [Nodes \X Nodes -> Seq(Messages(written))]
  BY <1>2, SentToType DEF Broadcast, Inv
<1>4. op' \in [Nodes -> Ops] /\ op'[n] = Idle /\ Idle.at = "idle"
  BY DEF Inv, Broadcast, Ops, Idle
<1>5. \A m \in Nodes : op'[m] = op[m] \/ op'[m] = Idle
  BY DEF Inv, Broadcast
<1>6. written' = written /\ entries' = entries /\ now' = now
  BY DEF Broadcast
<1> QED BY <1>3, <1>4, <1>5, <1>6 DEF Inv

LEMMA CompactKeepsInv ==
    ASSUME Inv, NEW n \in Nodes, Compact(n)
    PROVE  Inv'
<1> DEFINE new == [k \in Keys |-> IF entries[n][k].val = Tombstone THEN Absent ELSE entries[n][k]]
<1>1. entries' = [entries EXCEPT ![n] = new] /\ UNCHANGED <<op, written, chan, now>>
  BY DEF Compact, Inv
<1>2. entries[n] \in Snapshots(written) /\ Absent \in AnyEntry
  BY DEF Inv, Absent, AnyEntry
<1>3. new \in Snapshots(written)
  BY <1>2 DEF Snapshots
<1>4. entries' \in [Nodes -> Snapshots(written)]
  BY <1>1, <1>3 DEF Inv
<1> QED BY <1>1, <1>4 DEF Inv

(* Requests for a snapshot, from the application or for a new peer.        *)
LEMMA AskKeepsInv ==
    ASSUME Inv, NEW n \in Nodes, NEW m \in Nodes, RequestSync(n, m) \/ Establish(n, m)
    PROVE  Inv'
<1>1. [type |-> "SYNC_REQUEST"] \in Messages(written)
  BY DEF Messages
<1>2. UNCHANGED <<entries, op, written, now>>
  BY DEF RequestSync, Establish
<1>3. chan' \in [Nodes \X Nodes -> Seq(Messages(written))]
  <2>1. CASE RequestSync(n, m)
    BY <1>1, <2>1, SentToType DEF RequestSync, Inv
  <2>2. CASE Establish(n, m)
    <3>1. chan[<<n, m>>] \in Seq(Messages(written))
      BY DEF Inv
    <3>2. Append(chan[<<n, m>>], [type |-> "SYNC_REQUEST"]) \in Seq(Messages(written))
      BY <1>1, <3>1
    <3> QED BY <2>2, <3>2 DEF Establish, Inv
  <2> QED BY <2>1, <2>2
<1> QED BY <1>2, <1>3 DEF Inv

LEMMA DropKeepsInv ==
    ASSUME Inv, NEW n \in Nodes, NEW m \in Nodes, Drop(n, m)
    PROVE  Inv'
<1>1. <<>> \in Seq(Messages(written))
  OBVIOUS
<1>2. chan' \in [Nodes \X Nodes -> Seq(Messages(written))]
  BY <1>1 DEF Drop, Inv
<1>3. UNCHANGED <<entries, op, written, now>>
  BY DEF Drop
<1> QED BY <1>2, <1>3 DEF Inv

LEMMA InitInv == Init => Inv
<1> SUFFICES ASSUME Init PROVE Inv
  OBVIOUS
<1>1. Absent \in AnyEntry
  BY DEF Absent, AnyEntry
<1>2. [k \in Keys |-> Absent] \in Snapshots(written)
  BY <1>1 DEF Snapshots
<1>3. entries \in [Nodes -> Snapshots(written)]
  BY <1>2 DEF Init
<1>4. chan \in [Nodes \X Nodes -> Seq(Messages(written))]
  BY DEF Init
<1>5. op \in [Nodes -> Ops] /\ \A n \in Nodes : op[n].at = "idle"
  BY DEF Init, Ops, Idle
<1> QED BY <1>3, <1>4, <1>5 DEF Init, Inv

LEMMA NextInv == Paced /\ Inv /\ [Next]_vars => Inv'
<1> SUFFICES ASSUME Paced, Inv, [Next]_vars PROVE Inv'
  OBVIOUS
<1>1. CASE UNCHANGED vars
  BY <1>1, OthersKeepInv DEF vars, Inv
<1>2. ASSUME NEW n \in Nodes, NEW k \in Keys, NEW v \in Values, Stamp(n, "put", k, v)
      PROVE  Inv'
  BY <1>2, StampKeepsInv
<1>3. ASSUME NEW n \in Nodes, NEW k \in Keys, Stamp(n, "remove", k, Tombstone)
      PROVE  Inv'
  BY <1>3, StampKeepsInv
<1>4. ASSUME NEW n \in Nodes, Put(n) \/ Remove(n)
      PROVE  Inv'
  <2>1. op[n].at = "stamped" /\ UNCHANGED <<chan, now>> /\ (Store(n) \/ Refuse(n))
    BY <1>4 DEF Put, Remove
  <2> QED BY <2>1, StoreKeepsInv, RefuseKeepsInv
<1>5. ASSUME NEW n \in Nodes, Broadcast(n) \/ Compact(n)
      PROVE  Inv'
  BY <1>5, SendKeepsInv, CompactKeepsInv
<1>6. ASSUME NEW n \in Nodes, NEW m \in Nodes, Deliver(n, m)
      PROVE  Inv'
  BY <1>6, DeliverKeepsInv
<1>7. ASSUME NEW n \in Nodes, NEW m \in Nodes, RequestSync(n, m) \/ Establish(n, m)
      PROVE  Inv'
  BY <1>7, AskKeepsInv
<1>8. ASSUME NEW n \in Nodes, NEW m \in Nodes, Drop(n, m)
      PROVE  Inv'
  BY <1>8, DropKeepsInv
<1>9. ASSUME NEW n \in Nodes, NEW m \in Nodes, Connect(n, m) \/ Notice(n, m)
      PROVE  Inv'
  BY <1>9, OthersKeepInv DEF Connect, Notice, Inv
<1>10. CASE Tick
  BY <1>10, OthersKeepInv DEF Tick, Inv
<1> QED BY <1>1, <1>2, <1>3, <1>4, <1>5, <1>6, <1>7, <1>8, <1>9, <1>10 DEF Next

(* One step of the store replaces entries as the property demands.         *)
Replaces ==
    \A n \in Nodes, k \in Keys :
        entries'[n][k] # entries[n][k] =>
            \/ wins_over(entries'[n][k], entries[n][k])
            \/ entries'[n][k] = Absent /\ entries[n][k].val = Tombstone

LEMMA NextReplaces == Inv /\ [Next]_vars => Replaces
<1> SUFFICES ASSUME Inv, [Next]_vars PROVE Replaces
  OBVIOUS
<1>1. CASE entries' = entries
  BY <1>1 DEF Replaces
<1>2. ASSUME NEW n \in Nodes, Put(n) \/ Remove(n)
      PROVE  Replaces
  <2>1. CASE Refuse(n)
    BY <1>1, <2>1 DEF Refuse
  <2>2. CASE Store(n)
    <3> DEFINE w == op[n].w
               old == entries[n][w.key]
    <3>1. op[n].at = "stamped" /\ w \in Writes
      BY <1>2 DEF Put, Remove, Inv, Ops, Idle
    <3>2. w.key \in Keys /\ w.new \in AnyEntry /\ w.new.ts \in Nat
      BY <3>1 DEF Writes, AnyEntry
    <3>3. wins_over(w.new, old)
      <4>1. CASE Put(n) /\ wins_over(w.new, old)
        BY <4>1
      <4>2. CASE Put(n) /\ ~wins_over(w.new, old)
        <5>1. Refuse(n)
          BY <4>2 DEF Put
        <5>2. op'[n].at = "idle" /\ op'[n].at = "stored"
          BY <2>2, <5>1 DEF Refuse, Store, Inv, Idle
        <5> QED BY <5>2
      <4>3. CASE Remove(n) /\ old.val \in Values
        <5>1. old # Absent
          BY <4>3, SyncAssumption DEF Absent
        <5>2. Write(w.key, old) \in written
          BY <3>2, <5>1 DEF Inv, Snapshots
        <5>3. old.ts < w.new.ts /\ old.ts \in Nat
          BY <3>1, <3>2, <5>2 DEF Inv, Write, Writes, AnyEntry
        <5> QED BY <3>2, <5>3 DEF wins_over
      <4>4. CASE Remove(n) /\ old.val \notin Values
        <5>1. Refuse(n)
          BY <4>4 DEF Remove
        <5>2. op'[n].at = "idle" /\ op'[n].at = "stored"
          BY <2>2, <5>1 DEF Refuse, Store, Inv, Idle
        <5> QED BY <5>2
      <4> QED BY <1>2, <4>1, <4>2, <4>3, <4>4
    <3>4. \A m \in Nodes, k \in Keys :
             entries'[m][k] = IF m = n /\ k = w.key THEN w.new ELSE entries[m][k]
      BY <2>2, <3>2 DEF Store, Inv, Snapshots
    <3> QED BY <3>3, <3>4 DEF Replaces
  <2> QED BY <1>2, <2>1, <2>2 DEF Put, Remove
<1>3. ASSUME NEW n \in Nodes, Compact(n)
      PROVE  Replaces
  <2>1. \A m \in Nodes, k \in Keys :
           \/ entries'[m][k] = entries[m][k]
           \/ entries'[m][k] = Absent /\ entries[m][k].val = Tombstone
    BY <1>3 DEF Compact, Inv
  <2> QED BY <2>1 DEF Replaces
<1>4. ASSUME NEW n \in Nodes, NEW from \in Nodes, Deliver(from, n)
      PROVE  Replaces
  <2> DEFINE msg == Head(chan[<<from, n>>])
  <2>1. CASE OnEntry(n, from, msg)
    <3>1. \A m \in Nodes, k \in Keys :
             \/ entries'[m][k] = entries[m][k]
             \/ entries'[m][k] = Merge(entries[m][k], msg.w.new)
      BY <2>1 DEF OnEntry, Inv, Snapshots
    <3> QED BY <3>1 DEF Replaces, Merge
  <2>2. CASE OnSyncRequest(n, from, msg)
    BY <1>1, <2>2 DEF OnSyncRequest
  <2>3. CASE OnSyncResponse(n, from, msg)
    <3>1. \A m \in Nodes, k \in Keys :
             \/ entries'[m][k] = entries[m][k]
             \/ entries'[m][k] = Merge(entries[m][k], msg.all[k])
      BY <2>3 DEF OnSyncResponse, Inv, Snapshots
    <3> QED BY <3>1 DEF Replaces, Merge
  <2> QED BY <1>4, <2>1, <2>2, <2>3 DEF Deliver
<1>5. ASSUME NEW n \in Nodes,
             (\E k \in Keys : (\E v \in Values : Stamp(n, "put", k, v))
                                \/ Stamp(n, "remove", k, Tombstone)) \/ Broadcast(n)
      PROVE  Replaces
  BY <1>1, <1>5 DEF Stamp, Broadcast
<1>6. ASSUME NEW n \in Nodes, NEW m \in Nodes,
             \/ RequestSync(n, m) \/ Connect(n, m) \/ Establish(n, m)
             \/ Drop(n, m) \/ Notice(n, m)
      PROVE  Replaces
  BY <1>1, <1>6 DEF RequestSync, Connect, Establish, Drop, Notice
<1>7. CASE Tick \/ UNCHANGED vars
  BY <1>1, <1>7 DEF Tick, vars
<1> QED BY <1>2, <1>3, <1>4, <1>5, <1>6, <1>7 DEF Next

(* For any network, clocks, failures and reconnections: as long as calls   *)
(* are apart, an entry of any node is only ever replaced by a newer one    *)
(* (put_internal, remove, apply_remote_entry).  remove does not compare    *)
(* stamps, so the pacing is what makes its tombstone the newer entry.      *)
THEOREM PacedStoreMovesForward ==
    ASSUME Paced
    PROVE  Spec => OnlyNewerReplaces
<1>1. Inv /\ [Next]_vars => Inv'
  BY NextInv
<1>2. Inv /\ [Next]_vars => Replaces
  BY NextReplaces
<1>3. Spec => []Inv
  BY InitInv, <1>1, PTL DEF Spec
<1> QED BY <1>2, <1>3, PTL DEF Spec, OnlyNewerReplaces, Replaces

-----------------------------------------------------------------------------
(* Convergence.  What a store wrote is in every other store, or on its way *)
(* there from the store that wrote it.                                     *)

Held(s) == {s[i] : i \in 1..Len(s)}
Has(t, w) == ~wins_over(w.new, t[w.key])
Asks(m, n) == \E x \in Held(chan[<<m, n>>]) : x.type = "SYNC_REQUEST"
Brings(x, w) ==
    \/ x.type = "ENTRY" /\ x.w = w
    \/ x.type = "SYNC_RESPONSE" /\ Has(x.all, w)
OnItsWay(w, o, m) ==
    \/ {o, m} \notin link \/ o \in fresh[m] \/ Asks(m, o)
    \/ \E x \in Held(chan[<<o, m>>]) : Brings(x, w)
    \/ op[o].at = "stored" /\ op[o].w = w

(* A linked peer is routed once it is established; until then it has yet   *)
(* to establish us, or its request for a snapshot waits.                   *)
Links ==
    /\ link \subseteq Topology /\ up \in [Nodes -> SUBSET Nodes] /\ fresh \in [Nodes -> SUBSET Nodes]
    /\ \A n, m \in Nodes : {n, m} \in link /\ m \notin fresh[n] => m \in up[n]
    /\ waived = {} => \A n, m \in Nodes : m \in fresh[n] => n \in fresh[m] \/ Asks(m, n)

(* A write bears the id of its store and a stamp of its own.               *)
Signed ==
    /\ \A n \in Nodes : op[n].at \in {"stamped", "stored"} => op[n].w.new.origin = n
    /\ \A w \in written : w.new.origin \in Nodes
    /\ \A w, x \in written : w.new.ts = x.new.ts => w = x

Spread ==
    waived = {} => \A w \in written :
        /\ Has(entries[w.new.origin], w)
        /\ \A m \in Nodes : Has(entries[m], w) \/ OnItsWay(w, w.new.origin, m)

(* Entries only grow newer.                                                *)
Forward ==
    \A n \in Nodes, k \in Keys : entries'[n][k] = entries[n][k] \/ wins_over(entries'[n][k], entries[n][k])

LEMMA HeldAppend ==
    ASSUME NEW M, NEW s \in Seq(M), NEW x \in M
    PROVE  Held(s) \subseteq Held(Append(s, x)) /\ x \in Held(Append(s, x))
<1>1. Len(Append(s, x)) = Len(s) + 1 /\ Len(s) \in Nat
  OBVIOUS
<1>2. \A i \in 1..Len(s) : Append(s, x)[i] = s[i]
  OBVIOUS
<1>3. Append(s, x)[Len(s) + 1] = x
  OBVIOUS
<1> QED BY <1>1, <1>2, <1>3 DEF Held

LEMMA HeldTail ==
    ASSUME NEW M, NEW s \in Seq(M), s # <<>>
    PROVE  Held(s) \subseteq Held(Tail(s)) \cup {Head(s)}
<1>1. Len(Tail(s)) = Len(s) - 1 /\ Len(s) \in Nat /\ Len(s) > 0 /\ Head(s) = s[1]
  OBVIOUS
<1>2. \A i \in 1..Len(Tail(s)) : Tail(s)[i] = s[i + 1]
  OBVIOUS
<1>3. ASSUME NEW i \in 1..Len(s) PROVE s[i] \in Held(Tail(s)) \cup {Head(s)}
  <2>1. CASE i = 1
    BY <1>1, <2>1
  <2>2. CASE i # 1
    <3>1. i - 1 \in 1..Len(Tail(s)) /\ Tail(s)[i - 1] = s[(i - 1) + 1] /\ (i - 1) + 1 = i
      BY <1>1, <1>2, <2>2
    <3> QED BY <3>1 DEF Held
  <2> QED BY <2>1, <2>2
<1> QED BY <1>3 DEF Held

LEMMA HeldSent ==
    ASSUME NEW M, NEW c \in [Nodes \X Nodes -> Seq(M)], NEW n, NEW S, NEW x \in M,
           NEW a \in Nodes, NEW b \in Nodes
    PROVE  /\ Held(c[<<a, b>>]) \subseteq Held(SentTo(c, n, S, x)[<<a, b>>])
           /\ a = n /\ b \in S /\ Reaches(n, b) => x \in Held(SentTo(c, n, S, x)[<<a, b>>])
<1>1. c[<<a, b>>] \in Seq(M)
  OBVIOUS
<1>2. SentTo(c, n, S, x)[<<a, b>>] = IF a = n /\ b \in S /\ Reaches(n, b) THEN Append(c[<<a, b>>], x) ELSE c[<<a, b>>]
  BY DEF SentTo
<1> QED BY <1>1, <1>2, HeldAppend

LEMMA NewerHas ==
    ASSUME NEW e \in AnyEntry, NEW x \in AnyEntry, NEW y \in AnyEntry,
           ~wins_over(e, x), y = x \/ wins_over(y, x)
    PROVE  ~wins_over(e, y)
<1>1. e.ts \in Nat /\ e.origin \in Nat /\ x.ts \in Nat /\ x.origin \in Nat /\ y.ts \in Nat /\ y.origin \in Nat /\ x # Absent
  BY DEF AnyEntry, wins_over
<1>2. y # Absent
  BY <1>1 DEF wins_over, Absent
<1> QED BY <1>1, <1>2 DEF wins_over

LEMMA MergeHas ==
    ASSUME NEW e \in AnyEntry, NEW x \in AnyEntry, NEW y \in AnyEntry, ~wins_over(e, y)
    PROVE  ~wins_over(e, Merge(x, y))
<1>1. e.ts \in Nat /\ e.origin \in Nat /\ x.ts \in Nat /\ x.origin \in Nat /\ y.ts \in Nat /\ y.origin \in Nat
  BY DEF AnyEntry
<1>2. CASE wins_over(y, x)
  BY <1>2 DEF Merge
<1>3. CASE ~wins_over(y, x)
  BY <1>1, <1>3 DEF Merge, wins_over
<1> QED BY <1>2, <1>3

LEMMA SignedWrite ==
    ASSUME NEW w \in Writes, w.new.origin \in Nodes
    PROVE  /\ w.key \in Keys /\ w.new \in AnyEntry /\ w.new # Absent /\ w = Write(w.key, w.new)
           /\ ~wins_over(w.new, w.new)
<1>1. w.key \in Keys /\ w.new \in AnyEntry /\ w = Write(w.key, w.new) /\ w.new.origin # 0
  BY SyncAssumption DEF Writes, Write
<1>2. w.new # Absent /\ w.new.ts \in Nat /\ w.new.origin \in Nat
  BY <1>1 DEF Absent, AnyEntry
<1> QED BY <1>1, <1>2 DEF wins_over

LEMMA Written ==
    ASSUME Inv, Signed, NEW w \in written
    PROVE  /\ w.key \in Keys /\ w.new \in AnyEntry /\ w.new # Absent /\ w = Write(w.key, w.new)
           /\ ~wins_over(w.new, w.new) /\ w.new.origin \in Nodes
BY SignedWrite DEF Inv, Signed

(* What a store has it keeps.                                              *)
LEMMA KeepsHas ==
    ASSUME Inv, Inv', Signed, Forward, NEW w \in written, NEW n \in Nodes, Has(entries[n], w)
    PROVE  Has(entries'[n], w)
<1>1. w.key \in Keys /\ w.new \in AnyEntry
  BY Written
<1>2. entries[n][w.key] \in AnyEntry /\ entries'[n][w.key] \in AnyEntry
  BY <1>1 DEF Inv, Snapshots
<1> QED BY <1>1, <1>2, NewerHas DEF Has, Forward

(* What is on its way stays so, unless its channel is cut or read.         *)
LEMMA StaysOnItsWay ==
    ASSUME NEW w, NEW o, NEW m, OnItsWay(w, o, m),
           {o, m} \in link' => {o, m} \in link, o \in fresh[m] => o \in fresh'[m],
           Held(chan[<<m, o>>]) \subseteq Held(chan'[<<m, o>>]), Held(chan[<<o, m>>]) \subseteq Held(chan'[<<o, m>>]),
           op[o].at = "stored" => op'[o] = op[o]
    PROVE  OnItsWay(w, o, m)'
<1>1. Asks(m, o) => Asks(m, o)'
  BY DEF Asks
<1>2. (\E x \in Held(chan[<<o, m>>]) : Brings(x, w)) => (\E x \in Held(chan'[<<o, m>>]) : Brings(x, w)')
  BY DEF Brings, Has
<1> QED BY <1>1, <1>2 DEF OnItsWay

ConvInv == Links /\ Signed /\ Spread
Growing == \A a, b \in Nodes : Held(chan[<<a, b>>]) \subseteq Held(chan'[<<a, b>>])

LEMMA LinksStay ==
    ASSUME Links, UNCHANGED <<link, fresh, waived>>, up' \in [Nodes -> SUBSET Nodes],
           \A n, m \in Nodes : {n, m} \in link /\ m \in up[n] => m \in up'[n],
           \A n, m \in Nodes : m \in fresh[n] => Held(chan[<<m, n>>]) \subseteq Held(chan'[<<m, n>>])
    PROVE  Links'
<1>1. ASSUME waived = {}, NEW n \in Nodes, NEW m \in Nodes, m \in fresh[n]
      PROVE  n \in fresh[m] \/ Asks(m, n)'
  <2>1. Asks(m, n) => Asks(m, n)'
    BY <1>1 DEF Asks
  <2> QED BY <1>1, <2>1 DEF Links
<1> QED BY <1>1 DEF Links

(* A step that neither writes, nor reads, nor connects.                    *)
LEMMA SpreadStays ==
    ASSUME Inv, Inv', Signed, Spread, Forward, Growing, UNCHANGED <<link, fresh, waived, written>>,
           \A n \in Nodes : op[n].at = "stored" => op'[n] = op[n]
    PROVE  Spread'
<1> SUFFICES ASSUME waived = {}, NEW w \in written
             PROVE  /\ Has(entries'[w.new.origin], w)
                    /\ \A m \in Nodes : Has(entries'[m], w) \/ OnItsWay(w, w.new.origin, m)'
  BY DEF Spread, Has
<1> DEFINE o == w.new.origin
<1>1. o \in Nodes /\ Has(entries[o], w) /\ \A m \in Nodes : Has(entries[m], w) \/ OnItsWay(w, o, m)
  BY Written DEF Spread
<1>2. Has(entries'[o], w)
  BY <1>1, KeepsHas
<1>3. ASSUME NEW m \in Nodes PROVE Has(entries'[m], w) \/ OnItsWay(w, o, m)'
  <2>1. CASE Has(entries[m], w)
    BY <2>1, KeepsHas
  <2>2. CASE OnItsWay(w, o, m)
    BY <1>1, <2>2, StaysOnItsWay DEF Growing
  <2> QED BY <1>1, <2>1, <2>2
<1> QED BY <1>2, <1>3

LEMMA OpTypes ==
    ASSUME Inv, NEW n \in Nodes
    PROVE  /\ op[n] = Idle \/ (op[n].at \in {"stamped", "stored"} /\ op[n].w \in Writes)
           /\ Idle.at = "idle"
BY DEF Inv, Ops, Idle

LEMMA StampConv ==
    ASSUME Inv, Inv', ConvInv, NEW n \in Nodes, NEW k \in Keys, NEW call, NEW v, Stamp(n, call, k, v)
    PROVE  ConvInv'
<1>1. /\ UNCHANGED <<entries, up, link, fresh, waived, chan, written>> /\ op[n] = Idle
      /\ op' = [op EXCEPT ![n] = [at |-> "stamped", call |-> call, w |-> Write(k, Entry(now + Ahead[n], n, v))]]
  BY DEF Stamp, netVars
<1>2. /\ op'[n].w.new.origin = n /\ op'[n].at = "stamped" /\ \A m \in Nodes \ {n} : op'[m] = op[m]
  BY <1>1 DEF Inv, Write, Entry
<1>3. Forward /\ Growing /\ \A m \in Nodes : op[m].at = "stored" => op'[m] = op[m]
  BY <1>1, <1>2, OpTypes DEF Forward, Growing
<1>4. Links'
  BY <1>1, <1>3, LinksStay DEF ConvInv, Links, Growing
<1>5. Spread'
  BY <1>1, <1>3, SpreadStays DEF ConvInv
<1>6. Signed'
  BY <1>1, <1>2 DEF ConvInv, Signed
<1> QED BY <1>4, <1>5, <1>6 DEF ConvInv

LEMMA RefuseConv ==
    ASSUME Inv, Inv', ConvInv, NEW n \in Nodes, op[n].at = "stamped", Refuse(n), UNCHANGED <<netVars, chan>>
    PROVE  ConvInv'
<1>1. UNCHANGED <<entries, up, link, fresh, waived, chan, written>> /\ op' = [op EXCEPT ![n] = Idle]
  BY DEF Refuse, netVars
<1>2. op'[n] = Idle /\ Idle.at = "idle" /\ \A m \in Nodes \ {n} : op'[m] = op[m]
  BY <1>1, OpTypes DEF Inv
<1>3. Forward /\ Growing /\ \A m \in Nodes : op[m].at = "stored" => op'[m] = op[m]
  BY <1>1, <1>2 DEF Forward, Growing
<1>4. Links'
  BY <1>1, <1>3, LinksStay DEF ConvInv, Links, Growing
<1>5. Spread'
  BY <1>1, <1>3, SpreadStays DEF ConvInv
<1>6. Signed'
  BY <1>1, <1>2 DEF ConvInv, Signed
<1> QED BY <1>4, <1>5, <1>6 DEF ConvInv

LEMMA StoreConv ==
    ASSUME Inv, Inv', ConvInv, Replaces, NEW n \in Nodes, op[n].at = "stamped", Store(n), UNCHANGED <<netVars, chan>>
    PROVE  ConvInv'
<1>0. PICK w : w = op[n].w
  OBVIOUS
<1>1. /\ UNCHANGED <<up, link, fresh, waived, chan>> /\ written' = written \cup {w}
      /\ entries' = [entries EXCEPT ![n][w.key] = w.new] /\ op' = [op EXCEPT ![n].at = "stored"]
  BY <1>0 DEF Store, netVars
<1>2. w \in Writes /\ w.new.origin = n /\ op[n] \in Ops /\ op[n] # Idle
  BY <1>0, OpTypes DEF ConvInv, Signed, Inv
<1>3. op'[n].at = "stored" /\ op'[n].w = w /\ \A m \in Nodes \ {n} : op'[m] = op[m]
  BY <1>0, <1>1, <1>2 DEF Inv, Ops
<1>4. Signed'
  <2>1. \A x \in written : x.new.ts < w.new.ts
    BY <1>0 DEF Inv
  <2>2. \A x \in written : x.new.ts \in Nat /\ w.new.ts \in Nat
    BY <1>2 DEF Inv, Writes, AnyEntry
  <2>3. \A x, y \in written' : x.new.ts = y.new.ts => x = y
    BY <1>1, <2>1, <2>2 DEF ConvInv, Signed
  <2> QED BY <1>1, <1>2, <1>3, <2>3 DEF ConvInv, Signed
<1>5. w \in written' /\ w.key \in Keys /\ w.new # Absent /\ ~wins_over(w.new, w.new)
  BY <1>1, <1>2, SignedWrite
<1>6. \A m \in Nodes, k \in Keys : entries'[m][k] = IF m = n /\ k = w.key THEN w.new ELSE entries[m][k]
  BY <1>1, <1>5 DEF Inv, Snapshots
<1>7. Forward
  BY <1>5, <1>6 DEF Forward, Replaces
<1>8. Growing /\ \A m \in Nodes : op[m].at = "stored" => op'[m] = op[m]
  BY <1>1, <1>3 DEF Growing
<1>9. Links'
  BY <1>1, <1>8, LinksStay DEF ConvInv, Links, Growing
<1>10. Spread'
  <2> SUFFICES ASSUME waived = {}, NEW x \in written'
               PROVE  /\ Has(entries'[x.new.origin], x)
                      /\ \A m \in Nodes : Has(entries'[m], x) \/ OnItsWay(x, x.new.origin, m)'
    BY <1>1 DEF Spread, Has
  <2>1. CASE x = w
    <3>1. Has(entries'[n], w)
      BY <1>5, <1>6 DEF Has
    <3>2. \A m \in Nodes : OnItsWay(w, n, m)'
      BY <1>3 DEF OnItsWay
    <3> QED BY <1>2, <2>1, <3>1, <3>2
  <2>2. CASE x \in written
    <3> DEFINE o == x.new.origin
    <3>1. o \in Nodes /\ Has(entries[o], x) /\ \A m \in Nodes : Has(entries[m], x) \/ OnItsWay(x, o, m)
      BY <2>2, Written DEF ConvInv, Spread
    <3>2. \A m \in Nodes : Has(entries[m], x) => Has(entries'[m], x)
      BY <1>7, <2>2, KeepsHas DEF ConvInv
    <3>3. \A m \in Nodes : OnItsWay(x, o, m) => OnItsWay(x, o, m)'
      BY <1>1, <1>8, <3>1, StaysOnItsWay DEF Growing
    <3> QED BY <3>1, <3>2, <3>3
  <2> QED BY <1>1, <2>1, <2>2
<1> QED BY <1>4, <1>9, <1>10 DEF ConvInv

LEMMA BroadcastConv ==
    ASSUME Inv, Inv', ConvInv, NEW n \in Nodes, Broadcast(n)
    PROVE  ConvInv'
<1>0. PICK w : w = op[n].w
  OBVIOUS
<1> DEFINE x == [type |-> "ENTRY", w |-> w]
<1>1. /\ UNCHANGED <<entries, up, link, fresh, waived, written>> /\ op[n].at = "stored"
      /\ chan' = SentTo(chan, n, Nodes, x) /\ op' = [op EXCEPT ![n] = Idle]
  BY <1>0 DEF Broadcast, netVars
<1>2. op'[n] = Idle /\ Idle.at = "idle" /\ \A m \in Nodes \ {n} : op'[m] = op[m]
  BY <1>1, OpTypes DEF Inv
<1>3. w \in written /\ w.new.origin = n
  BY <1>0, <1>1 DEF Inv, ConvInv, Signed
<1>4. x \in Messages(written) /\ chan \in [Nodes \X Nodes -> Seq(Messages(written))]
  BY <1>3 DEF Messages, Inv
<1>5. Growing /\ \A m \in Nodes : Reaches(n, m) => x \in Held(chan'[<<n, m>>])
  BY <1>1, <1>4, HeldSent DEF Growing
<1>6. Forward
  BY <1>1 DEF Forward
<1>7. Links'
  BY <1>1, <1>5, LinksStay DEF ConvInv, Links, Growing
<1>8. Signed'
  BY <1>1, <1>2 DEF ConvInv, Signed
<1>9. Spread'
  <2> SUFFICES ASSUME waived = {}, NEW y \in written
               PROVE  /\ Has(entries'[y.new.origin], y)
                      /\ \A m \in Nodes : Has(entries'[m], y) \/ OnItsWay(y, y.new.origin, m)'
    BY <1>1 DEF Spread, Has
  <2> DEFINE o == y.new.origin
  <2>1. o \in Nodes /\ Has(entries'[o], y) /\ \A m \in Nodes : Has(entries'[m], y) \/ OnItsWay(y, o, m)
    BY <1>1, Written DEF ConvInv, Spread
  <2>2. ASSUME NEW m \in Nodes, OnItsWay(y, o, m) PROVE OnItsWay(y, o, m)'
    <3>1. CASE y = w
      <4>1. CASE {n, m} \notin link \/ n \in fresh[m] \/ Asks(m, n)
        BY <1>1, <1>3, <1>5, <2>1, <3>1, <4>1 DEF OnItsWay, Asks, Growing
      <4>2. CASE {n, m} \in link /\ ~(n \in fresh[m] \/ Asks(m, n))
        <5>1. m \notin fresh[n] /\ m \in up[n]
          BY <4>2 DEF ConvInv, Links
        <5>2. x \in Held(chan'[<<n, m>>]) /\ Brings(x, w)'
          BY <1>5, <4>2, <5>1 DEF Reaches, Brings
        <5> QED BY <1>3, <3>1, <5>2 DEF OnItsWay
      <4> QED BY <4>1, <4>2
    <3>2. CASE y # w
      <4>1. CASE {o, m} \notin link \/ o \in fresh[m] \/ Asks(m, o)
        BY <1>1, <1>5, <2>1, <4>1 DEF OnItsWay, Asks, Growing
      <4>2. CASE \E z \in Held(chan[<<o, m>>]) : Brings(z, y)
        BY <1>5, <2>1, <4>2 DEF OnItsWay, Brings, Has, Growing
      <4>3. CASE op[o].at = "stored" /\ op[o].w = y
        <5>1. o # n
          BY <1>0, <3>2, <4>3
        <5> QED BY <1>2, <2>1, <4>3, <5>1 DEF OnItsWay
      <4> QED BY <2>2, <4>1, <4>2, <4>3 DEF OnItsWay
    <3> QED BY <3>1, <3>2
  <2> QED BY <2>1, <2>2
<1> QED BY <1>7, <1>8, <1>9 DEF ConvInv

LEMMA AskConv ==
    ASSUME Inv, Inv', ConvInv, NEW n \in Nodes, NEW m \in Nodes, RequestSync(n, m)
    PROVE  ConvInv'
<1>1. UNCHANGED <<entries, op, up, link, fresh, waived, written>> /\ chan' = SentTo(chan, n, {m}, [type |-> "SYNC_REQUEST"])
  BY DEF RequestSync, netVars
<1>2. [type |-> "SYNC_REQUEST"] \in Messages(written) /\ chan \in [Nodes \X Nodes -> Seq(Messages(written))]
  BY DEF Messages, Inv
<1>3. Growing /\ Forward
  BY <1>1, <1>2, HeldSent DEF Growing, Forward
<1>4. Links'
  BY <1>1, <1>3, LinksStay DEF ConvInv, Links, Growing
<1>5. Spread'
  BY <1>1, <1>3, SpreadStays DEF ConvInv
<1>6. Signed'
  BY <1>1 DEF ConvInv, Signed
<1> QED BY <1>4, <1>5, <1>6 DEF ConvInv

(* Time passes, or an end notices that its connection is gone.             *)
LEMMA IdleConv ==
    ASSUME Inv, Inv', ConvInv, UNCHANGED <<entries, op, link, fresh, waived, chan, written>>,
           up' \in [Nodes -> SUBSET Nodes], \A n, m \in Nodes : {n, m} \in link /\ m \in up[n] => m \in up'[n]
    PROVE  ConvInv'
<1>1. Growing /\ Forward
  BY DEF Growing, Forward
<1>2. Links'
  BY <1>1, LinksStay DEF ConvInv, Growing
<1>3. Spread'
  BY <1>1, SpreadStays DEF ConvInv
<1>4. Signed'
  BY DEF ConvInv, Signed
<1> QED BY <1>2, <1>3, <1>4 DEF ConvInv

LEMMA SamePair ==
    ASSUME NEW a, NEW b, NEW c, NEW d, {a, b} = {c, d}
    PROVE  (a = c /\ b = d) \/ (a = d /\ b = c)
OBVIOUS

LEMMA ConnectConv ==
    ASSUME Inv, Inv', ConvInv, NEW n \in Nodes, NEW m \in Nodes, Connect(n, m)
    PROVE  ConvInv'
<1>1. /\ UNCHANGED <<entries, op, up, waived, chan, written>> /\ {n, m} \in Topology /\ link' = link \cup {{n, m}}
      /\ fresh' = [fresh EXCEPT ![n] = @ \cup {m}, ![m] = @ \cup {n}]
  BY DEF Connect
<1>2. fresh \in [Nodes -> SUBSET Nodes] /\ n # m
  BY <1>1, SyncAssumption DEF ConvInv, Links
<1>3. /\ fresh' \in [Nodes -> SUBSET Nodes] /\ m \in fresh'[n] /\ n \in fresh'[m]
      /\ \A a \in Nodes : fresh[a] \subseteq fresh'[a]
      /\ \A a, b \in Nodes : b \in fresh'[a] /\ b \notin fresh[a] => {a, b} = {n, m}
  BY <1>1, <1>2
<1>4. \A a, b \in Nodes : {a, b} = {n, m} => b \in fresh'[a] /\ a \in fresh'[b]
  BY <1>3, SamePair
<1>5. Links'
  <2>1. ASSUME NEW a \in Nodes, NEW b \in Nodes, {a, b} \in link', b \notin fresh'[a] PROVE b \in up'[a]
    BY <1>1, <1>3, <1>4, <2>1 DEF ConvInv, Links
  <2>2. ASSUME waived = {}, NEW a \in Nodes, NEW b \in Nodes, b \in fresh'[a] PROVE a \in fresh'[b] \/ Asks(b, a)'
    BY <1>1, <1>3, <1>4, <2>2 DEF ConvInv, Links, Asks
  <2> QED BY <1>1, <1>3, <2>1, <2>2 DEF ConvInv, Links
<1>6. Signed'
  BY <1>1 DEF ConvInv, Signed
<1>7. Spread'
  <2> SUFFICES ASSUME waived = {}, NEW w \in written
               PROVE  /\ Has(entries'[w.new.origin], w)
                      /\ \A a \in Nodes : Has(entries'[a], w) \/ OnItsWay(w, w.new.origin, a)'
    BY <1>1 DEF Spread, Has
  <2> DEFINE o == w.new.origin
  <2>1. o \in Nodes /\ Has(entries'[o], w) /\ \A a \in Nodes : Has(entries'[a], w) \/ OnItsWay(w, o, a)
    BY <1>1, Written DEF ConvInv, Spread
  <2>2. ASSUME NEW a \in Nodes, OnItsWay(w, o, a) PROVE OnItsWay(w, o, a)'
    <3>1. CASE {o, a} = {n, m}
      BY <1>4, <2>1, <3>1 DEF OnItsWay
    <3>2. CASE {o, a} # {n, m}
      BY <1>1, <1>3, <2>1, <2>2, <3>2, StaysOnItsWay
    <3> QED BY <3>1, <3>2
  <2> QED BY <2>1, <2>2
<1> QED BY <1>5, <1>6, <1>7 DEF ConvInv

LEMMA DropConv ==
    ASSUME Inv, Inv', ConvInv, NEW n \in Nodes, NEW m \in Nodes, Drop(n, m)
    PROVE  ConvInv'
<1>1. /\ UNCHANGED <<entries, op, up, waived, written>> /\ link' = link \ {{n, m}} /\ {n, m} \in Topology
      /\ fresh' = [fresh EXCEPT ![n] = @ \ {m}, ![m] = @ \ {n}]
      /\ chan' = [chan EXCEPT ![<<n, m>>] = <<>>, ![<<m, n>>] = <<>>]
  BY DEF Drop, ConvInv, Links
<1>2. fresh \in [Nodes -> SUBSET Nodes] /\ n # m /\ chan \in [Nodes \X Nodes -> Seq(Messages(written))]
  <2>1. \E a, b \in Nodes : a # b /\ {n, m} = {a, b}
    BY <1>1, SyncAssumption
  <2>2. n # m
    BY <2>1
  <2> QED BY <2>2 DEF ConvInv, Links, Inv
<1>3. /\ fresh' \in [Nodes -> SUBSET Nodes] /\ m \notin fresh'[n] /\ n \notin fresh'[m]
      /\ \A a, b \in Nodes : b \in fresh'[a] => b \in fresh[a]
      /\ \A a, b \in Nodes : {a, b} # {n, m} /\ b \in fresh[a] => b \in fresh'[a]
  BY <1>1, <1>2
<1>4. \A a, b \in Nodes : {a, b} # {n, m} => chan'[<<a, b>>] = chan[<<a, b>>]
  BY <1>1, <1>2
<1>5. \A a, b \in Nodes : b \in fresh'[a] => {a, b} # {n, m}
  BY <1>3, SamePair
<1>6. Links'
  <2>1. ASSUME NEW a \in Nodes, NEW b \in Nodes, {a, b} \in link', b \notin fresh'[a] PROVE b \in up'[a]
    BY <1>1, <1>3, <2>1 DEF ConvInv, Links
  <2>2. ASSUME waived = {}, NEW a \in Nodes, NEW b \in Nodes, b \in fresh'[a] PROVE a \in fresh'[b] \/ Asks(b, a)'
    <3>1. {a, b} # {n, m} /\ {b, a} # {n, m} /\ b \in fresh[a]
      BY <1>3, <1>5, <2>2
    <3>2. a \in fresh[b] \/ Asks(b, a)
      BY <2>2, <3>1 DEF ConvInv, Links
    <3> QED BY <1>3, <1>4, <3>1, <3>2 DEF Asks
  <2>3. link' \subseteq Topology /\ up' \in [Nodes -> SUBSET Nodes]
    BY <1>1 DEF ConvInv, Links
  <2> QED BY <1>1, <1>3, <2>1, <2>2, <2>3 DEF Links
<1>7. Signed'
  BY <1>1 DEF ConvInv, Signed
<1>8. Spread'
  <2> SUFFICES ASSUME waived = {}, NEW w \in written
               PROVE  /\ Has(entries'[w.new.origin], w)
                      /\ \A a \in Nodes : Has(entries'[a], w) \/ OnItsWay(w, w.new.origin, a)'
    BY <1>1 DEF Spread, Has
  <2> DEFINE o == w.new.origin
  <2>1. o \in Nodes /\ Has(entries'[o], w) /\ \A a \in Nodes : Has(entries'[a], w) \/ OnItsWay(w, o, a)
    BY <1>1, Written DEF ConvInv, Spread
  <2>2. ASSUME NEW a \in Nodes, OnItsWay(w, o, a) PROVE OnItsWay(w, o, a)'
    <3>1. CASE {o, a} = {n, m}
      BY <1>1, <3>1 DEF OnItsWay
    <3>2. CASE {o, a} # {n, m}
      <4>1. {a, o} # {n, m}
        BY <3>2
      <4>2. chan'[<<a, o>>] = chan[<<a, o>>] /\ chan'[<<o, a>>] = chan[<<o, a>>]
        BY <1>4, <2>1, <3>2, <4>1
      <4>3. ({o, a} \in link' => {o, a} \in link) /\ (o \in fresh[a] => o \in fresh'[a]) /\ op'[o] = op[o]
        BY <1>1, <1>3, <2>1, <4>1
      <4> QED BY <2>2, <4>2, <4>3, StaysOnItsWay
    <3> QED BY <3>1, <3>2
  <2> QED BY <2>1, <2>2
<1> QED BY <1>6, <1>7, <1>8 DEF ConvInv

LEMMA EstablishConv ==
    ASSUME Inv, Inv', ConvInv, NEW n \in Nodes, NEW m \in Nodes, Establish(n, m)
    PROVE  ConvInv'
<1> DEFINE x == [type |-> "SYNC_REQUEST"]
<1>1. /\ UNCHANGED <<entries, op, link, written>> /\ fresh' = [fresh EXCEPT ![n] = @ \ {m}]
      /\ up' = [up EXCEPT ![n] = @ \cup {m}]
      /\ waived' = {} => waived' = waived /\ chan' = [chan EXCEPT ![<<n, m>>] = Append(@, x)]
      /\ chan' = chan \/ chan' = [chan EXCEPT ![<<n, m>>] = Append(@, x)]
  BY DEF Establish
<1>2. /\ fresh \in [Nodes -> SUBSET Nodes] /\ up \in [Nodes -> SUBSET Nodes]
      /\ chan \in [Nodes \X Nodes -> Seq(Messages(written))] /\ x \in Messages(written)
  BY DEF ConvInv, Links, Inv, Messages
<1>3. /\ fresh' \in [Nodes -> SUBSET Nodes] /\ up' \in [Nodes -> SUBSET Nodes] /\ m \in up'[n]
      /\ \A a, b \in Nodes : (b \in fresh'[a] <=> b \in fresh[a] /\ ~(a = n /\ b = m)) /\ (b \in up[a] => b \in up'[a])
  BY <1>1, <1>2
<1>4. Growing /\ (waived' = {} => x \in Held(chan'[<<n, m>>]))
  <2>1. chan[<<n, m>>] \in Seq(Messages(written))
    BY <1>2
  <2>2. Held(chan[<<n, m>>]) \subseteq Held(Append(chan[<<n, m>>], x)) /\ x \in Held(Append(chan[<<n, m>>], x))
    BY <1>2, <2>1, HeldAppend
  <2>3. \A a, b \in Nodes : chan'[<<a, b>>] = chan[<<a, b>>] \/ (a = n /\ b = m /\ chan'[<<a, b>>] = Append(chan[<<n, m>>], x))
    BY <1>1, <1>2
  <2>4. waived' = {} => chan'[<<n, m>>] = Append(chan[<<n, m>>], x)
    BY <1>1, <1>2
  <2> QED BY <2>2, <2>3, <2>4 DEF Growing
<1>5. waived' = {} => Asks(n, m)' /\ waived = {}
  BY <1>1, <1>4 DEF Asks
<1>6. \A a, b \in Nodes : Asks(a, b) => Asks(a, b)'
  BY <1>4 DEF Asks, Growing
<1>7. Links'
  <2>1. ASSUME NEW a \in Nodes, NEW b \in Nodes, {a, b} \in link', b \notin fresh'[a] PROVE b \in up'[a]
    BY <1>1, <1>3, <2>1 DEF ConvInv, Links
  <2>2. ASSUME waived' = {}, NEW a \in Nodes, NEW b \in Nodes, b \in fresh'[a] PROVE a \in fresh'[b] \/ Asks(b, a)'
    <3>1. a \in fresh[b] \/ Asks(b, a)
      BY <1>3, <1>5, <2>2 DEF ConvInv, Links
    <3>2. a \in fresh[b] => a \in fresh'[b] \/ (b = n /\ a = m)
      BY <1>3
    <3> QED BY <1>5, <1>6, <2>2, <3>1, <3>2
  <2>3. link' \subseteq Topology
    BY <1>1 DEF ConvInv, Links
  <2> QED BY <1>3, <2>1, <2>2, <2>3 DEF Links
<1>8. Signed'
  BY <1>1 DEF ConvInv, Signed
<1>9. Spread'
  <2> SUFFICES ASSUME waived' = {}, NEW w \in written
               PROVE  /\ Has(entries'[w.new.origin], w)
                      /\ \A a \in Nodes : Has(entries'[a], w) \/ OnItsWay(w, w.new.origin, a)'
    BY <1>1 DEF Spread, Has
  <2> DEFINE o == w.new.origin
  <2>1. o \in Nodes /\ Has(entries'[o], w) /\ \A a \in Nodes : Has(entries'[a], w) \/ OnItsWay(w, o, a)
    BY <1>1, <1>5, Written DEF ConvInv, Spread
  <2>2. ASSUME NEW a \in Nodes, OnItsWay(w, o, a) PROVE OnItsWay(w, o, a)'
    <3>1. CASE a = n /\ o = m
      BY <1>5, <3>1 DEF OnItsWay
    <3>2. CASE ~(a = n /\ o = m)
      <4>1. Held(chan[<<a, o>>]) \subseteq Held(chan'[<<a, o>>]) /\ Held(chan[<<o, a>>]) \subseteq Held(chan'[<<o, a>>])
        BY <1>4, <2>1 DEF Growing
      <4>2. ({o, a} \in link' => {o, a} \in link) /\ (o \in fresh[a] => o \in fresh'[a]) /\ op'[o] = op[o]
        BY <1>1, <1>3, <2>1, <3>2
      <4> QED BY <2>2, <4>1, <4>2, StaysOnItsWay
    <3> QED BY <3>1, <3>2
  <2> QED BY <2>1, <2>2
<1> QED BY <1>7, <1>8, <1>9 DEF ConvInv

(* A store that forgets tombstones is exempt from then on.                 *)
LEMMA CompactConv ==
    ASSUME Inv, Inv', ConvInv, NEW n \in Nodes, Compact(n)
    PROVE  ConvInv'
<1>1. UNCHANGED <<op, up, link, fresh, chan, written>> /\ waived' # {}
  BY DEF Compact
<1> QED BY <1>1 DEF ConvInv, Links, Signed, Spread

LEMMA DeliverConv ==
    ASSUME Inv, Inv', ConvInv, NEW n \in Nodes, NEW from \in Nodes, Deliver(from, n)
    PROVE  ConvInv'
<1>0. PICK msg : msg = Head(chan[<<from, n>>])
  OBVIOUS
<1> DEFINE M == Messages(written)
           rest == [chan EXCEPT ![<<from, n>>] = Tail(@)]
<1>1. /\ UNCHANGED <<op, up, link, fresh, waived, written>> /\ chan[<<from, n>>] # <<>> /\ from \notin fresh[n]
      /\ OnEntry(n, from, msg) \/ OnSyncRequest(n, from, msg) \/ OnSyncResponse(n, from, msg)
  BY <1>0 DEF Deliver, netVars
<1>2. chan \in [Nodes \X Nodes -> Seq(M)] /\ chan[<<from, n>>] \in Seq(M)
  BY DEF Inv
<1>3. msg \in M /\ Tail(chan[<<from, n>>]) \in Seq(M)
  BY <1>0, <1>1, <1>2
<1>4. rest \in [Nodes \X Nodes -> Seq(M)]
  BY <1>2, <1>3
<1>5. /\ Held(chan[<<from, n>>]) \subseteq Held(rest[<<from, n>>]) \cup {msg}
      /\ \A a, b \in Nodes : ~(a = from /\ b = n) => rest[<<a, b>>] = chan[<<a, b>>]
  <2>1. rest[<<from, n>>] = Tail(chan[<<from, n>>])
    BY <1>2
  <2>2. Held(chan[<<from, n>>]) \subseteq Held(Tail(chan[<<from, n>>])) \cup {msg}
    BY <1>0, <1>1, <1>2, HeldTail
  <2> QED BY <1>2, <2>1, <2>2
<1>6. entries \in [Nodes -> Snapshots(written)] /\ entries[n] \in [Keys -> AnyEntry] /\ entries \in [Nodes -> [Keys -> AnyEntry]]
  BY DEF Inv, Snapshots
(* What the message does: everything else stays in the channels, and what  *)
(* it asked for or brought is sent or kept.                                *)
<1>7. /\ Forward
      /\ \A a, b \in Nodes : Held(rest[<<a, b>>]) \subseteq Held(chan'[<<a, b>>])
      /\ \A w \in written : Brings(msg, w) => Has(entries'[n], w)
      /\ msg.type = "SYNC_REQUEST" /\ Reaches(n, from) =>
            \E x \in Held(chan'[<<n, from>>]) : x.type = "SYNC_RESPONSE" /\ x.all = entries[n]
  <2>1. CASE OnEntry(n, from, msg)
    <3>1. msg.type = "ENTRY" /\ msg.w \in written
      BY <1>3, <2>1 DEF OnEntry, Messages
    <3>2. msg.w.key \in Keys /\ msg.w.new \in AnyEntry /\ ~wins_over(msg.w.new, msg.w.new)
      BY <3>1, Written DEF ConvInv
    <3>3. \A a \in Nodes, k \in Keys :
             entries'[a][k] = IF a = n /\ k = msg.w.key THEN Merge(entries[n][k], msg.w.new) ELSE entries[a][k]
      BY <1>6, <2>1, <3>2 DEF OnEntry
    <3>4. Forward
      BY <3>3 DEF Forward, Merge
    <3>5. ~wins_over(msg.w.new, entries'[n][msg.w.key])
      BY <1>6, <3>2, <3>3, MergeHas
    <3>6. \A a, b \in Nodes : Held(rest[<<a, b>>]) \subseteq Held(chan'[<<a, b>>])
      <4>1. \E S \in SUBSET Nodes : chan' = SentTo(rest, n, S, msg)
        BY <2>1 DEF OnEntry
      <4>2. PICK S \in SUBSET Nodes : chan' = SentTo(rest, n, S, msg)
        BY <4>1
      <4> HIDE DEF M, rest
      <4> QED BY <1>3, <1>4, <4>2, HeldSent
    <3> QED BY <3>1, <3>4, <3>5, <3>6 DEF Brings, Has
  <2>2. CASE OnSyncRequest(n, from, msg)
    <3> DEFINE x == [type |-> "SYNC_RESPONSE", all |-> entries[n]]
    <3>1. msg.type = "SYNC_REQUEST" /\ entries' = entries /\ chan' = SentTo(rest, n, {from}, x)
      BY <2>2 DEF OnSyncRequest
    <3>2. x \in M
      BY <1>6 DEF Messages
    <3>3. /\ \A a, b \in Nodes : Held(rest[<<a, b>>]) \subseteq Held(chan'[<<a, b>>])
          /\ Reaches(n, from) => x \in Held(chan'[<<n, from>>])
      <4>1. chan' = SentTo(rest, n, {from}, x) /\ x \in M /\ rest \in [Nodes \X Nodes -> Seq(M)] /\ from \in {from}
        BY <1>4, <3>1, <3>2
      <4> HIDE DEF M, rest, x
      <4>2. ASSUME NEW a \in Nodes, NEW b \in Nodes
            PROVE  /\ Held(rest[<<a, b>>]) \subseteq Held(chan'[<<a, b>>])
                   /\ a = n /\ b \in {from} /\ Reaches(n, b) => x \in Held(chan'[<<a, b>>])
        BY <4>1, HeldSent
      <4> QED BY <4>2
    <3> QED BY <3>1, <3>3 DEF Forward, Brings
  <2>3. CASE OnSyncResponse(n, from, msg)
    <3>1. msg.type = "SYNC_RESPONSE" /\ msg.all \in Snapshots(written) /\ chan' = rest
      BY <1>3, <2>3 DEF OnSyncResponse, Messages
    <3>2. \A a \in Nodes, k \in Keys :
             entries'[a][k] = IF a = n /\ msg.all[k] # Absent THEN Merge(entries[n][k], msg.all[k]) ELSE entries[a][k]
      BY <1>6, <2>3 DEF OnSyncResponse
    <3>3. Forward
      BY <3>2 DEF Forward, Merge
    <3>4. ASSUME NEW w \in written, Brings(msg, w) PROVE Has(entries'[n], w)
      <4>1. w.key \in Keys /\ w.new \in AnyEntry /\ msg.all[w.key] \in AnyEntry /\ entries[n][w.key] \in AnyEntry
        BY <1>6, <3>1, Written DEF ConvInv, Snapshots
      <4>2. ~wins_over(w.new, msg.all[w.key]) /\ msg.all[w.key] # Absent
        BY <3>1, <3>4 DEF Brings, Has, wins_over
      <4>3. ~wins_over(w.new, Merge(entries[n][w.key], msg.all[w.key]))
        BY <4>1, <4>2, MergeHas
      <4> QED BY <3>2, <4>1, <4>2, <4>3 DEF Has
    <3> QED BY <3>1, <3>3, <3>4
  <2> QED BY <1>1, <2>1, <2>2, <2>3
<1>8. \A a, b \in Nodes : ~(a = from /\ b = n) => Held(chan[<<a, b>>]) \subseteq Held(chan'[<<a, b>>])
  BY <1>5, <1>7
<1>9. Held(chan[<<from, n>>]) \subseteq Held(chan'[<<from, n>>]) \cup {msg}
  BY <1>5, <1>7
<1> HIDE DEF rest, M
<1>10. Links'
  BY <1>1, <1>8, LinksStay DEF ConvInv, Links
<1>11. Signed'
  BY <1>1 DEF ConvInv, Signed
<1>12. Spread'
  <2> SUFFICES ASSUME waived = {}, NEW w \in written
               PROVE  /\ Has(entries'[w.new.origin], w)
                      /\ \A a \in Nodes : Has(entries'[a], w) \/ OnItsWay(w, w.new.origin, a)'
    BY <1>1 DEF Spread, Has
  <2> DEFINE o == w.new.origin
  <2>1. o \in Nodes /\ Has(entries[o], w) /\ \A a \in Nodes : Has(entries[a], w) \/ OnItsWay(w, o, a)
    BY <1>1, Written DEF ConvInv, Spread
  <2>2. \A a \in Nodes : Has(entries[a], w) => Has(entries'[a], w)
    BY <1>7, KeepsHas DEF ConvInv
  <2>3. ASSUME NEW a \in Nodes, OnItsWay(w, o, a) PROVE Has(entries'[a], w) \/ OnItsWay(w, o, a)'
    <3>1. CASE {o, a} \notin link \/ o \in fresh[a] \/ (op[o].at = "stored" /\ op[o].w = w)
      BY <1>1, <3>1 DEF OnItsWay
    <3>2. CASE {o, a} \in link /\ Asks(a, o)
      <4>1. PICK x \in Held(chan[<<a, o>>]) : x.type = "SYNC_REQUEST"
        BY <3>2 DEF Asks
      <4>2. CASE x \in Held(chan'[<<a, o>>])
        BY <4>1, <4>2 DEF OnItsWay, Asks
      <4>3. CASE x \notin Held(chan'[<<a, o>>])
        <5>1. a = from /\ o = n /\ x = msg
          BY <1>8, <1>9, <2>1, <4>1, <4>3
        <5>2. Reaches(n, from)
          BY <1>1, <3>2, <5>1 DEF Reaches, ConvInv, Links
        <5>3. PICK y \in Held(chan'[<<n, from>>]) : y.type = "SYNC_RESPONSE" /\ y.all = entries[n]
          BY <1>7, <4>1, <5>1, <5>2
        <5>4. Brings(y, w)'
          BY <2>1, <5>1, <5>3 DEF Brings, Has
        <5> QED BY <5>1, <5>3, <5>4 DEF OnItsWay
      <4> QED BY <4>2, <4>3
    <3>3. CASE \E x \in Held(chan[<<o, a>>]) : Brings(x, w)
      <4>1. PICK x \in Held(chan[<<o, a>>]) : Brings(x, w)
        BY <3>3
      <4>2. CASE x \in Held(chan'[<<o, a>>])
        BY <4>1, <4>2 DEF OnItsWay, Brings, Has
      <4>3. CASE x \notin Held(chan'[<<o, a>>])
        <5>1. o = from /\ a = n /\ x = msg
          BY <1>8, <1>9, <2>1, <4>1, <4>3
        <5> QED BY <1>7, <4>1, <5>1
      <4> QED BY <4>2, <4>3
    <3> QED BY <2>3, <3>1, <3>2, <3>3 DEF OnItsWay
  <2> QED BY <2>1, <2>2, <2>3
<1> QED BY <1>10, <1>11, <1>12 DEF ConvInv

LEMMA ConvStep == Paced /\ Inv /\ Inv' /\ ConvInv /\ [Next]_vars => ConvInv'
<1> SUFFICES ASSUME Paced, Inv, Inv', ConvInv, [Next]_vars PROVE ConvInv'
  OBVIOUS
<1>1. CASE UNCHANGED vars
  BY <1>1, IdleConv DEF vars, ConvInv, Links
<1>2. ASSUME NEW n \in Nodes, NEW k \in Keys, (\E v \in Values : Stamp(n, "put", k, v)) \/ Stamp(n, "remove", k, Tombstone)
      PROVE  ConvInv'
  BY <1>2, StampConv
<1>3. ASSUME NEW n \in Nodes, Put(n) \/ Remove(n)
      PROVE  ConvInv'
  <2>1. op[n].at = "stamped" /\ UNCHANGED <<netVars, chan>> /\ (Store(n) \/ Refuse(n))
    BY <1>3 DEF Put, Remove
  <2>2. Replaces
    BY NextReplaces
  <2> QED BY <2>1, <2>2, StoreConv, RefuseConv
<1>4. ASSUME NEW n \in Nodes, Broadcast(n) \/ Compact(n)
      PROVE  ConvInv'
  BY <1>4, BroadcastConv, CompactConv
<1>5. ASSUME NEW n \in Nodes, NEW m \in Nodes,
             RequestSync(n, m) \/ Deliver(n, m) \/ Connect(n, m) \/ Establish(n, m) \/ Drop(n, m)
      PROVE  ConvInv'
  BY <1>5, AskConv, DeliverConv, ConnectConv, EstablishConv, DropConv
<1>6. ASSUME NEW n \in Nodes, NEW m \in Nodes, Notice(n, m)
      PROVE  ConvInv'
  <2>1. UNCHANGED <<entries, op, link, fresh, waived, chan, written>> /\ {n, m} \notin link /\ up' = [up EXCEPT ![n] = @ \ {m}]
    BY <1>6 DEF Notice
  <2>2. up' \in [Nodes -> SUBSET Nodes] /\ \A a, b \in Nodes : {a, b} \in link /\ b \in up[a] => b \in up'[a]
    BY <2>1 DEF ConvInv, Links
  <2> QED BY <2>1, <2>2, IdleConv
<1>7. CASE Tick
  BY <1>7, IdleConv DEF Tick, netVars, ConvInv, Links
<1> QED BY <1>1, <1>2, <1>3, <1>4, <1>5, <1>6, <1>7 DEF Next

LEMMA ConvInit == Init => ConvInv
<1> SUFFICES ASSUME Init PROVE ConvInv
  OBVIOUS
<1>1. Links
  BY DEF Init, Links
<1>2. Signed /\ Spread
  BY DEF Init, Signed, Spread, Idle
<1> QED BY <1>1, <1>2 DEF ConvInv

(* In a quiet network every store has every write, so all hold the newest. *)
LEMMA QuietAgree ==
    ASSUME Inv, ConvInv, \A n, m \in Nodes : n # m => {n, m} \in Topology
    PROVE  StoresConverge
<1> SUFFICES ASSUME Quiet, waived = {}, NEW n \in Nodes
             PROVE  /\ \A m \in Nodes : entries[n] = entries[m]
                    /\ \A w \in written : ~wins_over(w.new, entries[n][w.key])
  BY DEF StoresConverge
<1>1. ASSUME NEW m \in Nodes, NEW w \in written PROVE ~wins_over(w.new, entries[m][w.key])
  <2> DEFINE o == w.new.origin
  <2>1. o \in Nodes /\ Has(entries[o], w) /\ (Has(entries[m], w) \/ OnItsWay(w, o, m))
    BY Written DEF ConvInv, Spread
  <2>2. CASE m = o
    BY <2>1, <2>2 DEF Has
  <2>3. CASE m # o
    <3>1. {o, m} \in link /\ fresh[m] = {} /\ op[o].at = "idle"
      BY <2>1, <2>3 DEF Quiet, Idle
    <3>2. chan[<<o, m>>] = <<>> /\ chan[<<m, o>>] = <<>>
      BY <2>1 DEF Quiet, NoTraffic
    <3>3. Held(<<>>) = {}
      BY DEF Held
    <3>4. ~OnItsWay(w, o, m)
      BY <3>1, <3>2, <3>3 DEF OnItsWay, Asks
    <3> QED BY <2>1, <3>4 DEF Has
  <2> QED BY <2>2, <2>3
<1>2. ASSUME NEW m \in Nodes, NEW k \in Keys PROVE entries[n][k] = entries[m][k]
  <2> DEFINE e == entries[n][k]  f == entries[m][k]
  <2>1. e \in AnyEntry /\ f \in AnyEntry /\ (e = Absent \/ Write(k, e) \in written) /\ (f = Absent \/ Write(k, f) \in written)
    BY DEF Inv, Snapshots
  <2>2. Write(k, e).new = e /\ Write(k, e).key = k /\ Write(k, f).new = f /\ Write(k, f).key = k
    BY DEF Write
  <2>3. (e # Absent => ~wins_over(e, f)) /\ (f # Absent => ~wins_over(f, e))
    BY <1>1, <2>1, <2>2
  <2>4. CASE e = Absent \/ f = Absent
    BY <2>3, <2>4 DEF wins_over
  <2>5. CASE e # Absent /\ f # Absent
    <3>1. e.ts \in Nat /\ f.ts \in Nat /\ e.origin \in Nat /\ f.origin \in Nat
      BY <2>1 DEF AnyEntry
    <3>2. e.ts = f.ts
      BY <2>3, <2>5, <3>1 DEF wins_over
    <3>3. Write(k, e) = Write(k, f)
      BY <2>1, <2>2, <2>5, <3>2 DEF ConvInv, Signed
    <3> QED BY <2>2, <3>3
  <2> QED BY <2>4, <2>5
<1>3. ASSUME NEW m \in Nodes PROVE entries[n] = entries[m]
  <2>1. entries[n] \in [Keys -> AnyEntry] /\ entries[m] \in [Keys -> AnyEntry]
    BY DEF Inv, Snapshots
  <2> QED BY <1>2, <2>1
<1> QED BY <1>1, <1>3

(* "Both ends do this on connect, so the two databases converge via LWW"   *)
(* (on_peer_connected), for any number of stores that are all connected to *)
(* each other: whatever links drop and come back, frames are lost, clocks  *)
(* differ and requests cross writes, once all is quiet every store holds   *)
(* the newest entries.  Calls have to be apart: remove does not compare    *)
(* stamps.  A store behind another is not promised anything: what a        *)
(* snapshot brings is not passed on.                                       *)
THEOREM QuietStoresAgree ==
    ASSUME Paced, \A n, m \in Nodes : n # m => {n, m} \in Topology
    PROVE  Spec => []StoresConverge
<1>1. Inv /\ [Next]_vars => Inv'
  BY NextInv
<1>2. Inv /\ Inv' /\ ConvInv /\ [Next]_vars => ConvInv'
  BY ConvStep
<1>3. Inv /\ ConvInv => StoresConverge
  BY QuietAgree
<1> QED BY <1>1, <1>2, <1>3, InitInv, ConvInit, PTL DEF Spec

(* The file.                                                               *)

(* In shutdown(): waiting for the persistence thread, or in the last save. *)
Ending(t) == pc[t] \in {"join", "final"}

(* Who is where: only the winner of the exchange of running_ is in         *)
(* shutdown(), it saves only once the persistence thread is gone, and the  *)
(* next constructor finds no thread left.                                  *)
Places ==
    /\ pc[Disk] \in {"loop", "save", "off"}
    /\ \A t, u \in Apps : Ending(t) /\ Ending(u) => t = u
    /\ \A t \in Apps : pc[t] = "final" => pc[Disk] = "off"
    /\ \A t \in Apps : Ending(t) => ~running
    /\ life = "up" /\ ~running => pc[Disk] = "off" \/ \E t \in Apps : pc[t] = "join"
    /\ life = "ending" => \A t \in Apps : pc[t] = "idle" \/ Ending(t)
    /\ life = "gone" => saver = None /\ pc[Disk] = "off" /\ \A t \in Apps : pc[t] = "idle"

(* What is about to be renamed was written to its end, if every write      *)
(* succeeded.                                                              *)
Aside == faults.disk_full = 0 /\ stage \in {"delete", "rename"} => tmp.whole

DiskInv == DiskTypeOK /\ Places /\ Aside /\ FileNeverTorn
LEMMA DiskInitInv == DiskInit => DiskInv
  <1> SUFFICES ASSUME DiskInit PROVE DiskInv
    OBVIOUS
  <1> USE DiskAssumption DEF DiskInit, Threads, Disk, None
  <1>1. mem \in Versions /\ file \in Files /\ tmp \in Files /\ faults \in [AllFaults -> 0..MaxFaults]
    BY DEF Versions, Files, Missing, AllFaults
  <1>2. DiskTypeOK
    BY <1>1 DEF DiskTypeOK
  <1> QED
    BY <1>2 DEF DiskInv, Places, Ending, Aside, FileNeverTorn, Missing

(* A fault is counted within its bound.                                    *)
LEMMA FaultTypes ==
    ASSUME DiskTypeOK, NEW kind, Fault(kind)
    PROVE  faults' \in [AllFaults -> 0..MaxFaults] /\ kind \in AllFaults
           /\ faults' = [faults EXCEPT ![kind] = @ + 1]
  <1>1. kind \in AllFaults
    BY DiskAssumption DEF Fault
  <1>2. faults.open \in Nat /\ faults.disk_full \in Nat /\ faults.rename \in Nat /\ faults.crash \in Nat
    BY DiskAssumption DEF DiskTypeOK, AllFaults
  <1>3. faults[kind] + 1 \in 0..MaxFaults
    BY <1>1, <1>2, DiskAssumption DEF Fault, AllFaults
  <1> QED
    BY <1>1, <1>3 DEF Fault, DiskTypeOK

(* What a returning save() leaves of the types.                            *)
LEMMA ReturnTypes ==
    ASSUME DiskTypeOK, NEW t \in Threads, Return(t)
    PROVE  /\ saver' = None /\ stage' = "none"
           /\ pc' \in [Threads -> {"idle", "changed", "save", "join", "final", "loop", "off"}]
           /\ life' \in {"up", "ending", "gone"}
  BY DEF Return, Resumed, Ended, DiskTypeOK

LEMMA DiskNextTypes ==
    ASSUME DiskInv, [DiskNext]_diskVars
    PROVE  DiskTypeOK'
  <1>0. DiskTypeOK
    BY DEF DiskInv
  <1>d. Disk \notin Apps /\ None \notin Threads /\ Disk \in Threads /\ Apps \subseteq Threads
    BY DiskAssumption DEF Threads, Disk, None
  <1>f. \A v \in Versions : Torn(v) \in Files /\ Whole(v) \in Files /\ Missing \in Files
    BY DiskAssumption DEF Files, Torn, Whole, Missing, Versions
  <1>1. ASSUME NEW t \in Apps, Change(t) PROVE DiskTypeOK'
    BY <1>0, <1>1, <1>d, DiskAssumption DEF Change, DiskTypeOK, Versions, store
  <1>2. ASSUME NEW t \in Apps, MarkDirty(t) PROVE DiskTypeOK'
    BY <1>0, <1>2, <1>d DEF MarkDirty, DiskTypeOK, store
  <1>3. ASSUME NEW t \in Apps, CompactStore(t) PROVE DiskTypeOK'
    BY <1>0, <1>3, <1>d, DiskAssumption DEF CompactStore, DiskTypeOK, Versions, store
  <1>4. ASSUME NEW t \in Apps, CallSave(t) PROVE DiskTypeOK'
    BY <1>0, <1>4, <1>d DEF CallSave, DiskTypeOK, store
  <1>5. ASSUME NEW t \in Apps, Stop(t) PROVE DiskTypeOK'
    BY <1>0, <1>5, <1>d DEF Stop, DiskTypeOK, store
  <1>6. ASSUME NEW t \in Apps, Destroy(t) PROVE DiskTypeOK'
    BY <1>0, <1>6, <1>d DEF Destroy, DiskTypeOK, store
  <1>7. ASSUME NEW t \in Apps, Joined(t) PROVE DiskTypeOK'
    BY <1>0, <1>7, <1>d DEF Joined, DiskTypeOK, store
  <1>8. ASSUME NEW t \in Threads, OpenTemp(t) PROVE DiskTypeOK'
    BY <1>0, <1>8, <1>d, <1>f DEF OpenTemp, DiskTypeOK
  <1>9. ASSUME NEW t \in Threads, OpenFails(t) PROVE DiskTypeOK'
    BY <1>0, <1>9, <1>d, ReturnTypes, FaultTypes DEF OpenFails, DiskTypeOK, store
  <1>10. CASE WriteTemp
    <2>1. tmp' \in Files
      BY <1>0, <1>10, <1>f DEF WriteTemp, DiskTypeOK
    <2>2. faults' \in [AllFaults -> 0..MaxFaults]
      BY <1>0, <1>10, FaultTypes DEF WriteTemp, DiskTypeOK
    <2> QED
      BY <1>0, <1>10, <1>d, <2>1, <2>2 DEF WriteTemp, DiskTypeOK
  <1>11. CASE DeleteOld
    BY <1>0, <1>11, <1>f DEF DeleteOld, DiskTypeOK
  <1>12. CASE RenameTemp
    BY <1>0, <1>12, <1>f DEF RenameTemp, DiskTypeOK
  <1>13. CASE RenameFails
    <2>1. saver \in Threads
      BY <1>0, <1>13 DEF RenameFails, DiskTypeOK
    <2> QED
      BY <1>0, <1>13, <1>d, <1>f, <2>1, ReturnTypes, FaultTypes DEF RenameFails, DiskTypeOK
  <1>14. CASE ClearDirty
    <2>1. saver \in Threads
      BY <1>0, <1>14 DEF ClearDirty, DiskTypeOK
    <2> QED
      BY <1>0, <1>14, <1>d, <2>1, ReturnTypes DEF ClearDirty, DiskTypeOK
  <1>15. CASE DiskWakes
    BY <1>0, <1>15, <1>d DEF DiskWakes, DiskTypeOK, store
  <1>16. CASE Crash
    <2>1. faults' \in [AllFaults -> 0..MaxFaults] /\ 0 \in Versions
      BY <1>0, <1>16, FaultTypes, DiskAssumption DEF Crash, Versions
    <2> QED
      BY <1>0, <1>16, <1>d, <2>1 DEF Crash, DiskTypeOK, store
  <1>17. CASE Construct
    <2>1. mem' \in Versions
      BY <1>0, <1>17, DiskAssumption DEF Construct, Loaded, DiskTypeOK, Files, Versions
    <2>2. saver = None
      BY <1>17 DEF Construct, DiskInv, Places
    <2> QED
      BY <1>0, <1>17, <1>d, <2>1, <2>2 DEF Construct, DiskTypeOK
  <1>18. CASE UNCHANGED diskVars
    BY <1>0, <1>18 DEF diskVars, DiskTypeOK
  <1> QED
    BY <1>1, <1>2, <1>3, <1>4, <1>5, <1>6, <1>7, <1>8, <1>9, <1>10, <1>11, <1>12, <1>13, <1>14, <1>15, <1>16, <1>17, <1>18
       DEF DiskNext

LEMMA DiskNextPlaces ==
    ASSUME DiskInv, [DiskNext]_diskVars
    PROVE  Places'
  <1>0. DiskTypeOK /\ Places
    BY DEF DiskInv
  <1>d. Disk \notin Apps /\ None \notin Threads /\ Disk \in Threads /\ Apps \subseteq Threads
    BY DiskAssumption DEF Threads, Disk, None
  <1>a. pc \in [Threads -> {"idle", "changed", "save", "join", "final", "loop", "off"}]
    BY <1>0 DEF DiskTypeOK
  <1>1. ASSUME NEW t \in Apps, Change(t) \/ MarkDirty(t) \/ CallSave(t) PROVE Places'
    <2>1. /\ pc[t] \in {"idle", "changed"} /\ life # "gone" /\ UNCHANGED <<running, saver, life>>
          /\ life = "ending" => pc[t] = "changed"
          /\ \E p \in {"changed", "idle", "save"} : pc' = [pc EXCEPT ![t] = p]
      BY <1>0, <1>1 DEF Change, MarkDirty, CallSave, Places
    <2> QED
      BY <1>0, <1>d, <1>a, <2>1 DEF Places, Ending
  <1>2. ASSUME NEW t \in Apps, CompactStore(t) PROVE Places'
    BY <1>0, <1>2 DEF CompactStore, Places, Ending
  <1>3. ASSUME NEW t \in Apps, Stop(t) PROVE Places'
    BY <1>0, <1>3, <1>a, <1>d DEF Stop, Places, Ending
  <1>4. ASSUME NEW t \in Apps, Destroy(t) PROVE Places'
    <2>1. CASE running
      BY <1>0, <1>4, <2>1, <1>a, <1>d DEF Destroy, Places, Ending
    <2>2. CASE ~running
      <3>1. pc[Disk] = "off" /\ \A u \in Apps : pc[u] = "idle"
        BY <1>0, <1>4, <2>2 DEF Destroy, Places
      <3>2. saver = None
        BY <1>0, <3>1 DEF DiskTypeOK, Threads
      <3> QED
        BY <1>0, <1>4, <2>2, <3>1, <3>2 DEF Destroy, Places, Ending
    <2> QED
      BY <2>1, <2>2
  <1>5. ASSUME NEW t \in Apps, Joined(t) PROVE Places'
    <2>1. pc[Disk] = "off" /\ pc[t] = "join" /\ ~running
      BY <1>0, <1>5 DEF Joined, Places, Ending
    <2>2. life # "gone"
      BY <1>0, <2>1 DEF Places
    <2>3. ASSUME life = "ending" PROVE saver = None \/ saver = t
      BY <1>0, <2>1, <2>3 DEF DiskTypeOK, Places, Ending, Threads
    <2>4. saver # t
      BY <1>0, <2>1, <1>d DEF DiskTypeOK
    <2>5. CASE dirty
      BY <1>0, <1>5, <1>a, <1>d, <2>1, <2>2, <2>5 DEF Joined, Places, Ending
    <2>6. CASE ~dirty
      BY <1>0, <1>5, <1>a, <1>d, <2>1, <2>2, <2>3, <2>4, <2>6 DEF Joined, Places, Ending
    <2> QED
      BY <2>5, <2>6
  <1>6. ASSUME NEW t \in Threads, OpenTemp(t) PROVE Places'
    <2>1. life # "gone"
      BY <1>0, <1>6 DEF OpenTemp, Places, Threads
    <2> QED
      BY <1>0, <1>6, <2>1 DEF OpenTemp, Places, Ending
  <1>7. ASSUME NEW t \in Threads, pc[t] \in {"save", "final"}, Return(t), UNCHANGED running PROVE Places'
    <2>1. life # "gone"
      BY <1>0, <1>7, <1>d DEF Places, Threads
    <2>2. CASE t = Disk
      BY <1>0, <1>7, <1>a, <1>d, <2>1, <2>2 DEF Return, Resumed, Ended, Places, Ending
    <2>3. CASE t \in Apps /\ pc[t] = "save"
      BY <1>0, <1>7, <1>a, <1>d, <2>1, <2>3 DEF Return, Resumed, Ended, Places, Ending
    <2>4. CASE t \in Apps /\ pc[t] = "final"
      BY <1>0, <1>7, <1>a, <1>d, <2>1, <2>4 DEF Return, Resumed, Ended, Places, Ending
    <2> QED
      BY <1>7, <2>2, <2>3, <2>4 DEF Threads
  <1>8. ASSUME NEW t \in Threads, OpenFails(t) PROVE Places'
    BY <1>7, <1>8 DEF OpenFails
  <1>9. CASE RenameFails \/ ClearDirty
    <2>1. saver \in Threads /\ pc[saver] \in {"save", "final"} /\ Return(saver) /\ UNCHANGED running
      BY <1>0, <1>9 DEF RenameFails, ClearDirty, DiskTypeOK
    <2> QED
      BY <1>7, <2>1
  <1>10. CASE WriteTemp \/ DeleteOld \/ RenameTemp \/ UNCHANGED diskVars
    <2>1. UNCHANGED <<running, pc, saver, life>>
      BY <1>10 DEF WriteTemp, DeleteOld, RenameTemp, diskVars
    <2> QED
      BY <1>0, <2>1 DEF Places, Ending
  <1>11. CASE DiskWakes
    BY <1>0, <1>11, <1>a, <1>d DEF DiskWakes, Places, Ending
  <1>12. CASE Crash
    BY <1>0, <1>12, <1>d DEF Crash, Places, Ending
  <1>13. CASE Construct
    BY <1>0, <1>13, <1>a, <1>d DEF Construct, Places, Ending
  <1> QED
    BY <1>1, <1>2, <1>3, <1>4, <1>5, <1>6, <1>8, <1>9, <1>10, <1>11, <1>12, <1>13 DEF DiskNext

(* The file and what is written aside.                                     *)
LEMMA DiskNextWhole ==
    ASSUME DiskInv, [DiskNext]_diskVars
    PROVE  Aside' /\ FileNeverTorn'
  <1>0. DiskTypeOK /\ Aside /\ FileNeverTorn
    BY DEF DiskInv
  <1>1. CASE UNCHANGED <<file, tmp, faults>> /\ (stage' = stage \/ stage' = "none")
    BY <1>0, <1>1 DEF Aside, FileNeverTorn
  <1>2. ASSUME NEW t \in Threads, OpenTemp(t) PROVE Aside' /\ FileNeverTorn'
    BY <1>0, <1>2 DEF OpenTemp, Aside, FileNeverTorn
  <1>3. ASSUME NEW kind, Fault(kind), UNCHANGED file, stage' = "none" PROVE Aside' /\ FileNeverTorn'
    <2>1. faults'.disk_full = 0 => faults.disk_full = 0
      BY <1>0, <1>3, FaultTypes, DiskAssumption DEF DiskTypeOK, AllFaults
    <2> QED
      BY <1>0, <1>3, <2>1 DEF Aside, FileNeverTorn
  <1>4. CASE WriteTemp
    <2>1. CASE Fault("disk_full")
      <3>1. faults'.disk_full # 0
        BY <1>0, <2>1, FaultTypes, DiskAssumption DEF DiskTypeOK, AllFaults
      <3> QED
        BY <3>1 DEF Aside, FileNeverTorn
    <2>2. CASE tmp' = Whole(mem) /\ faults' = faults
      BY <1>0, <1>4, <2>2 DEF WriteTemp, Aside, FileNeverTorn, Whole
    <2> QED
      BY <1>4, <2>1, <2>2 DEF WriteTemp
  <1>5. CASE DeleteOld
    BY <1>0, <1>5 DEF DeleteOld, Aside, FileNeverTorn, Missing
  <1>6. CASE RenameTemp
    BY <1>0, <1>6 DEF RenameTemp, Aside, FileNeverTorn
  <1>7. ASSUME NEW t \in Threads, OpenFails(t) PROVE Aside' /\ FileNeverTorn'
    BY <1>3, <1>7 DEF OpenFails, Return, store
  <1>8. CASE RenameFails
    BY <1>3, <1>8 DEF RenameFails, Return
  <1>9. CASE Crash
    BY <1>3, <1>9 DEF Crash, store
  <1>10. CASE ClearDirty
    BY <1>1, <1>10 DEF ClearDirty, Return
  <1> QED
    BY <1>1, <1>2, <1>4, <1>5, <1>6, <1>7, <1>8, <1>9, <1>10
       DEF DiskNext, Change, MarkDirty, CompactStore, CallSave, Stop, Destroy, Joined, DiskWakes, Construct, diskVars, store

(* Whatever threads call the store, and wherever the process dies, the     *)
(* data file is whole or absent as long as every write succeeds.           *)
THEOREM FileStaysWhole == DiskSpec => []FileNeverTorn
  <1>1. DiskInv /\ [DiskNext]_diskVars => DiskInv'
    BY DiskNextTypes, DiskNextPlaces, DiskNextWhole DEF DiskInv
  <1>2. DiskInv => FileNeverTorn
    BY DEF DiskInv
  <1> QED
    BY <1>1, <1>2, DiskInitInv, PTL DEF DiskSpec

=============================================================================
