--------------------------- MODULE Overlay_proofs ---------------------------
(***************************************************************************)
(* Proofs about the overlays a node takes part in, for any deployments and *)
(* bounds.  PubSub: no handler gets a message twice, and when nothing is   *)
(* under way every node knows which of its peers subscribe; both rest on   *)
(* what the frames under way and the unsent ones can say.  The DHT: a      *)
(* write token is honoured for the whole interval, which rests on when the *)
(* tokens of each secret were issued.  The BitTorrent session: nothing     *)
(* dangles, which rests on what each socket was opened for.  And below all *)
(* of them the receive buffer, whose bytes stay in order wherever they     *)
(* move.                                                                   *)
(***************************************************************************)
EXTENDS PubSub, DhtNode, BtClient, Buffers, FiniteSetTheorems, SequenceTheorems, TLAPS

Ops == {"SUBSCRIBE", "UNSUBSCRIBE", "GRAFT", "PRUNE", "PUBLISH", "RESEND", "IHAVE", "IWANT"}

(* What a node says that subscribes or not, after p messages: ids of       *)
(* messages there are, and where nobody unsubscribes it announces itself   *)
(* only as a subscriber.                                                   *)
SaysOf(stay, on, p) ==
    {f \in [op : Ops, ids : SUBSET (1..p)] :
        /\ f.op \in {"PUBLISH", "RESEND"} => f.ids # {}
        /\ stay => f.op # "UNSUBSCRIBE" /\ (f.op \in {"SUBSCRIBE", "GRAFT"} => on)}

Stay == "unsubscribe" \notin setup.calls
Says(n) == SaysOf(Stay, subscribed[n], published)
Boxes(N, S) == [to : SUBSET N, msg : S]

GossipTypes ==
    /\ setup \in Setups
    /\ published \in Nat /\ published <= MaxMessages
    /\ subscribed \in [Nodes -> BOOLEAN]
    /\ subscribers \in [Nodes -> SUBSET Nodes] /\ mesh \in [Nodes -> SUBSET Nodes]
    /\ fanout \in [Nodes -> SUBSET Nodes] /\ up \in [Nodes -> SUBSET Nodes]
    /\ seen \in [Nodes -> Seq(1..published)]
    /\ history \in [Nodes -> Seq(SUBSET (1..published))]
    /\ heard \in [Nodes -> [Ids -> Nat]]

Traffic ==
    /\ DOMAIN out = Nodes
    /\ \A n \in Nodes : DOMAIN out[n] = Threads /\ \A t \in Threads : out[n][t] \in Seq(Boxes(Nodes, Says(n)))
    /\ DOMAIN chan = Nodes \X Nodes
    /\ \A m, n \in Nodes : chan[<<m, n>>] \in Seq(Says(m))

(* There are no more messages than mark_seen remembers.                    *)
Remembered == MaxMessages <= SeenLimit

(* Then seen_order_ names no id twice, and whatever was delivered is in    *)
(* it.                                                                     *)
Dedup ==
    Remembered =>
        /\ \A n \in Nodes : Cardinality(Seen(n)) = Len(seen[n])
        /\ \A n \in Nodes, i \in Ids : heard[n][i] <= 1 /\ (heard[n][i] >= 1 => i \in Seen(n))

(* A subscription is known, on its way, or about to be sent.               *)
Carries(s) == \E k \in DOMAIN s : s[k].op = "SUBSCRIBE"
Holds(box, n) == \E k \in DOMAIN box : box[k].msg.op = "SUBSCRIBE" /\ n \in box[k].to

Announced(m, n) ==
    m \in subscribers[n] \/ Carries(chan[<<m, n>>]) \/ (\E t \in Threads : Holds(out[m][t], n))

Informed ==
    /\ \A n \in Nodes : subscribers[n] \subseteq up[n] /\ n \notin up[n]
    /\ Stay => /\ \A n \in Nodes : \A m \in subscribers[n] : subscribed[m]
               /\ \A n, m \in Nodes : {n, m} \in link /\ n \in up[m] /\ subscribed[m] => Announced(m, n)

GossipInv == GossipTypes /\ Traffic /\ Dedup /\ Informed

-----------------------------------------------------------------------------
(* What is sent.                                                           *)

LEMMA SeqGrows ==
    ASSUME NEW S, NEW T, S \subseteq T
    PROVE  Seq(S) \subseteq Seq(T)
  OBVIOUS

LEMMA SaysGrow ==
    ASSUME NEW stay \in BOOLEAN, NEW on \in BOOLEAN, NEW later \in BOOLEAN, stay /\ on => later,
           NEW p \in Nat, NEW q \in Nat, p <= q
    PROVE  SaysOf(stay, on, p) \subseteq SaysOf(stay, later, q)
  <1>1. 1..p \subseteq 1..q
    OBVIOUS
  <1> QED
    BY <1>1 DEF SaysOf

LEMMA BoxesGrow ==
    ASSUME NEW N, NEW S, NEW T, S \subseteq T
    PROVE  Seq(Boxes(N, S)) \subseteq Seq(Boxes(N, T))
  <1>1. Boxes(N, S) \subseteq Boxes(N, T)
    BY DEF Boxes
  <1> QED
    BY <1>1, SeqGrows

LEMMA ToTyped ==
    ASSUME NEW N, NEW S, NEW to \in SUBSET N, NEW f, to # {} => f \in S
    PROVE  To(to, f) \in Seq(Boxes(N, S))
  <1>1. to # {} => [to |-> to, msg |-> f] \in Boxes(N, S)
    BY DEF Boxes
  <1> QED
    BY <1>1 DEF To

LEMMA ControlSaid ==
    ASSUME NEW stay \in BOOLEAN, NEW on \in BOOLEAN, NEW p \in Nat
    PROVE  /\ Ctrl("PRUNE") \in SaysOf(stay, on, p)
           /\ stay /\ on => /\ Ctrl("GRAFT") \in SaysOf(stay, on, p)
                            /\ Ctrl("SUBSCRIBE") \in SaysOf(stay, on, p)
           /\ ~stay => /\ Ctrl("GRAFT") \in SaysOf(stay, on, p)
                       /\ Ctrl("SUBSCRIBE") \in SaysOf(stay, on, p)
                       /\ Ctrl("UNSUBSCRIBE") \in SaysOf(stay, on, p)
           /\ \A S \in SUBSET (1..p) :
                 /\ Frame("IHAVE", S) \in SaysOf(stay, on, p) /\ Frame("IWANT", S) \in SaysOf(stay, on, p)
                 /\ S # {} => Frame("PUBLISH", S) \in SaysOf(stay, on, p) /\ Frame("RESEND", S) \in SaysOf(stay, on, p)
  BY DEF Ctrl, Frame, SaysOf, Ops

LEMMA ChangesTyped ==
    ASSUME NEW stay \in BOOLEAN, NEW on \in BOOLEAN, NEW p \in Nat, NEW N,
           NEW old \in SUBSET N, NEW new \in SUBSET N, stay => on \/ new \subseteq old
    PROVE  Changes(old, new) \in Seq(Boxes(N, SaysOf(stay, on, p)))
  <1> DEFINE S == SaysOf(stay, on, p)
  <1>1. Ctrl("PRUNE") \in S /\ (new \ old # {} => Ctrl("GRAFT") \in S)
    BY ControlSaid
  <1> HIDE DEF S
  <1>2. /\ To(new \ old, Ctrl("GRAFT")) \in Seq(Boxes(N, S))
        /\ To(old \ new, Ctrl("PRUNE")) \in Seq(Boxes(N, S))
    BY <1>1, ToTyped
  <1> QED
    BY <1>2 DEF Changes, S

(* maintain_mesh_locked chooses among the mesh and the subscribers.        *)
LEMMA MaintainedTyped ==
    ASSUME NEW N, NEW m \in SUBSET N, NEW known \in SUBSET N, NEW new \in Maintained(m, known)
    PROVE  new \in SUBSET N
  BY DEF Maintained, Samples

-----------------------------------------------------------------------------
(* What a step does to the traffic.                                        *)

Grows ==
    /\ setup' = setup /\ published' \in Nat /\ published <= published'
    /\ subscribed' \in [Nodes -> BOOLEAN]
    /\ Stay => \A n \in Nodes : subscribed[n] => subscribed'[n]

LEMMA SaysMore ==
    ASSUME GossipTypes, Grows, NEW n \in Nodes
    PROVE  /\ Says(n) \subseteq Says(n)' /\ Stay \in BOOLEAN /\ Stay' = Stay
           /\ Seq(Says(n)) \subseteq Seq(Says(n)')
           /\ Seq(Boxes(Nodes, Says(n))) \subseteq Seq(Boxes(Nodes, Says(n))')
  <1>1. Stay' = Stay /\ Stay \in BOOLEAN /\ Nodes' = Nodes
    BY DEF Grows, Stay, Nodes
  <1>2. subscribed[n] \in BOOLEAN /\ subscribed'[n] \in BOOLEAN /\ (Stay /\ subscribed[n] => subscribed'[n])
    BY DEF GossipTypes, Grows
  <1>3. Says(n) \subseteq Says(n)'
    BY <1>1, <1>2, SaysGrow DEF Says, Grows, GossipTypes
  <1>4. Boxes(Nodes, Says(n))' = Boxes(Nodes, Says(n)')
    BY <1>1
  <1> QED
    BY <1>1, <1>3, <1>4, SeqGrows, BoxesGrow

LEMMA TrafficStep ==
    ASSUME GossipTypes, Traffic, Grows, DOMAIN out' = Nodes, DOMAIN chan' = Nodes \X Nodes,
           \A n \in Nodes : /\ DOMAIN out'[n] = Threads
                            /\ \A t \in Threads : out'[n][t] = out[n][t] \/ out'[n][t] \in Seq(Boxes(Nodes, Says(n)')),
           \A m, n \in Nodes : chan'[<<m, n>>] = chan[<<m, n>>] \/ chan'[<<m, n>>] \in Seq(Says(m)')
    PROVE  Traffic'
  <1>1. Nodes' = Nodes
    BY DEF Grows, Nodes
  <1>2. ASSUME NEW n \in Nodes, NEW t \in Threads PROVE out'[n][t] \in Seq(Boxes(Nodes, Says(n)'))
    <2>1. out[n][t] \in Seq(Boxes(Nodes, Says(n)))
      BY DEF Traffic
    <2>2. Seq(Boxes(Nodes, Says(n))) \subseteq Seq(Boxes(Nodes, Says(n)'))
      BY SaysMore, <1>1
    <2> QED
      BY <2>1, <2>2
  <1>3. ASSUME NEW m \in Nodes, NEW n \in Nodes PROVE chan'[<<m, n>>] \in Seq(Says(m)')
    <2>1. chan[<<m, n>>] \in Seq(Says(m))
      BY DEF Traffic
    <2>2. Seq(Says(m)) \subseteq Seq(Says(m)')
      BY SaysMore
    <2> QED
      BY <2>1, <2>2
  <1> QED
    BY <1>1, <1>2, <1>3 DEF Traffic

LEMMA OutboxSet ==
    ASSUME Traffic, NEW n \in Nodes, NEW t \in Threads, NEW box, Outbox(n, t, box)
    PROVE  /\ DOMAIN out' = Nodes
           /\ \A m \in Nodes : DOMAIN out'[m] = Threads
           /\ \A m \in Nodes, u \in Threads : out'[m][u] = IF m = n /\ u = t THEN box ELSE out[m][u]
  BY DEF Traffic, Outbox

-----------------------------------------------------------------------------
(* What a step does to the memory of messages.                             *)

Elements(s) == {s[k] : k \in DOMAIN s}

LEMMA NothingForgotten ==
    ASSUME NEW p \in Nat, p <= SeenLimit, NEW s \in Seq(1..p), NEW i \in 1..p,
           i \notin Elements(s), Cardinality(Elements(s)) = Len(s)
    PROVE  LET t == MarkSeen(s, i)
           IN  t \in Seq(1..p) /\ Elements(t) = Elements(s) \cup {i} /\ Cardinality(Elements(t)) = Len(t)
  <1> DEFINE R == Elements(s)
             t == Append(s, i)
  <1>1. IsFiniteSet(1..p) /\ Cardinality(1..p) = p
    BY FS_Interval
  <1>2. R \in SUBSET (1..p) /\ R \cup {i} \in SUBSET (1..p)
    BY DEF Elements
  <1>3. Elements(t) = R \cup {i} /\ t \in Seq(1..p) /\ Len(t) = Len(s) + 1
    <2>1. t \in Seq(1..p) /\ Len(t) = Len(s) + 1 /\ DOMAIN t = 1..(Len(s) + 1) /\ DOMAIN s = 1..Len(s) /\ Len(s) \in Nat
      OBVIOUS
    <2>2. t[Len(s) + 1] = i /\ \A k \in 1..Len(s) : t[k] = s[k]
      OBVIOUS
    <2> HIDE DEF t
    <2>3. i \in Elements(t)
      <3>1. Len(s) + 1 \in DOMAIN t
        BY <2>1
      <3> QED
        BY <2>2, <3>1 DEF Elements
    <2>4. ASSUME NEW k \in DOMAIN s PROVE s[k] \in Elements(t)
      <3>1. k \in DOMAIN t /\ t[k] = s[k]
        BY <2>1, <2>2
      <3> QED
        BY <3>1 DEF Elements
    <2>5. ASSUME NEW k \in DOMAIN t PROVE t[k] \in R \cup {i}
      <3>1. k = Len(s) + 1 \/ k \in DOMAIN s
        BY <2>1
      <3> QED
        BY <2>1, <2>2, <3>1 DEF Elements
    <2> QED
      BY <2>1, <2>3, <2>4, <2>5 DEF Elements
  <1> HIDE DEF R, t
  <1>4. IsFiniteSet(R) /\ Cardinality(R \cup {i}) = Len(s) + 1
    BY <1>1, <1>2, FS_Subset, FS_AddElement DEF R
  <1>5. Len(s) + 1 <= p
    <2>1. Cardinality(R \cup {i}) <= Cardinality(1..p)
      BY <1>1, <1>2, FS_Subset
    <2> QED
      BY <1>1, <1>4, <2>1
  <1>6. MarkSeen(s, i) = t
    BY <1>3, <1>5, PubSubAssumption DEF MarkSeen, t
  <1> QED
    BY <1>3, <1>4, <1>6 DEF R

LEMMA DedupSame ==
    ASSUME Dedup, setup' = setup, UNCHANGED <<seen, heard>>
    PROVE  Dedup'
  <1>1. Nodes' = Nodes /\ \A n \in Nodes : Seen(n)' = Seen(n)
    BY DEF Seen, Nodes
  <1> QED
    BY <1>1 DEF Dedup

LEMMA DedupAdds ==
    ASSUME GossipTypes, Dedup, setup' = setup, published' \in Nat, published <= published',
           published' <= MaxMessages, NEW n \in Nodes, NEW i \in 1..published', i \notin Seen(n),
           seen' = [seen EXCEPT ![n] = MarkSeen(@, i)],
           NEW d \in {0, 1}, heard' = [heard EXCEPT ![n][i] = @ + d]
    PROVE  Dedup' /\ seen' \in [Nodes -> Seq(1..published')] /\ heard' \in [Nodes -> [Ids -> Nat]]
  <1>0. MaxMessages \in Nat /\ SeenLimit \in Nat /\ published \in Nat
    BY PubSubAssumption DEF GossipTypes
  <1>1. 1..published \subseteq 1..published' /\ i \in Ids
    BY <1>0 DEF Ids
  <1>2. \A m \in Nodes : seen[m] \in Seq(1..published')
    BY <1>1, SeqGrows DEF GossipTypes
  <1>3. MarkSeen(seen[n], i) \in Seq(1..published')
    <2> DEFINE t == Append(seen[n], i)
    <2>1. t \in Seq(1..published') /\ t # <<>>
      <3>1. seen[n] \in Seq(1..published') /\ i \in 1..published'
        BY <1>2
      <3>2. \A S : \A w \in Seq(S) : \A x \in S : Append(w, x) \in Seq(S) /\ Append(w, x) # <<>>
        OBVIOUS
      <3> QED
        BY <3>1, <3>2
    <2> HIDE DEF t
    <2>2. Tail(t) \in Seq(1..published')
      BY <2>1
    <2> QED
      BY <2>1, <2>2 DEF MarkSeen, t
  <1>4. /\ seen' \in [Nodes -> Seq(1..published')] /\ seen'[n] = MarkSeen(seen[n], i)
        /\ \A m \in Nodes : m # n => seen'[m] = seen[m]
    <2>1. DOMAIN seen = Nodes
      BY DEF GossipTypes
    <2> QED
      BY <1>2, <1>3, <2>1
  <1>5. /\ heard' \in [Nodes -> [Ids -> Nat]]
        /\ \A m \in Nodes, j \in Ids : heard'[m][j] = IF m = n /\ j = i THEN heard[m][j] + d ELSE heard[m][j]
    BY <1>1 DEF GossipTypes
  <1>6. ASSUME Remembered
        PROVE  /\ \A m \in Nodes : Cardinality(Seen(m)') = Len(seen'[m])
               /\ \A m \in Nodes, j \in Ids : heard'[m][j] <= 1 /\ (heard'[m][j] >= 1 => j \in Seen(m)')
    <2>1. published' <= SeenLimit
      BY <1>0, <1>6 DEF Remembered
    <2>2. Seen(n) = Elements(seen[n]) /\ Seen(n)' = Elements(MarkSeen(seen[n], i))
      BY <1>4 DEF Seen, Elements
    <2>3. Cardinality(Elements(seen[n])) = Len(seen[n])
      BY <1>6, <2>2 DEF Dedup
    <2>4. /\ Elements(MarkSeen(seen[n], i)) = Seen(n) \cup {i}
          /\ Cardinality(Elements(MarkSeen(seen[n], i))) = Len(MarkSeen(seen[n], i))
      BY <1>2, <2>1, <2>2, <2>3, NothingForgotten
    <2>5. \A m \in Nodes : m # n => Seen(m)' = Seen(m)
      BY <1>4 DEF Seen
    <2>6. \A m \in Nodes : Cardinality(Seen(m)') = Len(seen'[m])
      BY <1>4, <1>6, <2>2, <2>4, <2>5 DEF Dedup
    <2>7. heard[n][i] = 0
      BY <1>1, <1>6 DEF Dedup, GossipTypes
    <2>8. Seen(n)' = Seen(n) \cup {i}
      BY <2>2, <2>4
    <2>9. \A m \in Nodes, j \in Ids : heard'[m][j] <= 1 /\ (heard'[m][j] >= 1 => j \in Seen(m)')
      BY <1>5, <1>6, <2>5, <2>7, <2>8 DEF Dedup
    <2> QED
      BY <2>6, <2>9
  <1>7. Nodes' = Nodes
    BY DEF Nodes
  <1> QED
    BY <1>4, <1>5, <1>6, <1>7 DEF Dedup

(* cache_message.                                                          *)
LEMMA TakenIn ==
    ASSUME GossipTypes, Dedup, setup' = setup, published' \in Nat, published <= published',
           published' <= MaxMessages, NEW n \in Nodes, NEW i \in 1..published', i \notin Seen(n), TakeIn(n, i)
    PROVE  /\ Dedup' /\ seen' \in [Nodes -> Seq(1..published')] /\ heard' \in [Nodes -> [Ids -> Nat]]
           /\ history' \in [Nodes -> Seq(SUBSET (1..published'))]
  <1>0. published \in Nat
    BY DEF GossipTypes
  <1>1. PICK d \in {0, 1} : heard' = [heard EXCEPT ![n][i] = @ + d]
    BY DEF TakeIn
  <1>2. Dedup' /\ seen' \in [Nodes -> Seq(1..published')] /\ heard' \in [Nodes -> [Ids -> Nat]]
    BY <1>1, DedupAdds DEF TakeIn
  <1>3. SUBSET (1..published) \subseteq SUBSET (1..published')
    BY <1>0
  <1>4. \A m \in Nodes : history[m] \in Seq(SUBSET (1..published'))
    BY <1>3, SeqGrows DEF GossipTypes
  <1>5. history \in [Nodes -> Seq(SUBSET (1..published'))]
    BY <1>4 DEF GossipTypes
  <1>6. [history[n] EXCEPT ![1] = @ \cup {i}] \in Seq(SUBSET (1..published'))
    <2> DEFINE h == history[n]
    <2>1. h \in Seq(SUBSET (1..published')) /\ h \in [1..Len(h) -> SUBSET (1..published')] /\ Len(h) \in Nat
      BY <1>4
    <2> HIDE DEF h
    <2>2. [h EXCEPT ![1] = @ \cup {i}] \in [1..Len(h) -> SUBSET (1..published')]
      BY <2>1
    <2> QED
      BY <2>1, <2>2 DEF h
  <1> QED
    BY <1>2, <1>5, <1>6 DEF TakeIn

-----------------------------------------------------------------------------
(* The steps.                                                              *)

LEMMA GossipInit == Init => GossipInv
  <1> SUFFICES ASSUME Init PROVE GossipInv
    OBVIOUS
  <1>1. SetupOK(setup) /\ {MaxMessages, SeenLimit} \subseteq Nat
    BY PubSubAssumption DEF Init
  <1>2. Subscribed \subseteq Nodes /\ setup.mesh \in [Nodes -> SUBSET Nodes]
    BY <1>1 DEF SetupOK, Nodes, Subscribed
  <1>3. \A S : <<>> \in Seq(S)
    OBVIOUS
  <1>4. <<{}>> \in Seq(SUBSET (1..0))
    OBVIOUS
  <1>5. GossipTypes
    BY <1>1, <1>2, <1>3, <1>4 DEF Init, GossipTypes, Others
  <1>6. Traffic
    BY <1>3 DEF Init, Traffic
  <1>7. Dedup
    <2>1. \A n \in Nodes : Seen(n) = {} /\ Len(seen[n]) = 0
      BY DEF Init, Seen
    <2>2. Cardinality({}) = 0
      BY FS_EmptySet
    <2>3. \A n \in Nodes, i \in Ids : heard[n][i] = 0
      BY DEF Init
    <2>4. \A n \in Nodes : Cardinality(Seen(n)) = 0
      BY <2>1, <2>2, Zenon
    <2> QED
      BY <2>1, <2>3, <2>4 DEF Dedup
  <1>8. Informed
    BY <1>2 DEF Init, Informed, Others, Announced
  <1> QED
    BY <1>5, <1>6, <1>7, <1>8 DEF GossipInv

(* One thread fills its empty outbox, or no outbox changes.                *)
Fills(n, t) == out' = out \/ \E box \in Seq(Boxes(Nodes, Says(n)')) : Outbox(n, t, box)

LEMMA OutKeeps ==
    ASSUME Traffic, NEW n \in Nodes, NEW t \in Threads, Idle(n, t), Fills(n, t)
    PROVE  /\ DOMAIN out' = Nodes
           /\ \A m \in Nodes : /\ DOMAIN out'[m] = Threads
                               /\ \A u \in Threads : out'[m][u] = out[m][u] \/ out'[m][u] \in Seq(Boxes(Nodes, Says(m)'))
           /\ \A m, x \in Nodes : (\E u \in Threads : Holds(out[m][u], x)) => \E u \in Threads : Holds(out'[m][u], x)
  <1>1. CASE out' = out
    BY <1>1 DEF Traffic
  <1>2. CASE \E box \in Seq(Boxes(Nodes, Says(n)')) : Outbox(n, t, box)
    <2>1. PICK box \in Seq(Boxes(Nodes, Says(n)')) : Outbox(n, t, box)
      BY <1>2
    <2>2. /\ DOMAIN out' = Nodes
          /\ \A m \in Nodes : DOMAIN out'[m] = Threads
          /\ \A m \in Nodes, u \in Threads : out'[m][u] = IF m = n /\ u = t THEN box ELSE out[m][u]
      BY <2>1, OutboxSet
    <2>3. \A x : ~Holds(out[n][t], x)
      BY DEF Idle, Holds
    <2>4. ASSUME NEW m \in Nodes, NEW u \in Threads
          PROVE  out'[m][u] = out[m][u] \/ out'[m][u] \in Seq(Boxes(Nodes, Says(m)'))
      BY <2>2
    <2>5. ASSUME NEW m \in Nodes, NEW x \in Nodes, NEW u \in Threads, Holds(out[m][u], x)
          PROVE  Holds(out'[m][u], x)
      BY <2>2, <2>3, <2>5
    <2> QED
      BY <2>2, <2>4, <2>5
  <1> QED
    BY <1>1, <1>2 DEF Fills

LEMMA InformedKeeps ==
    ASSUME Informed, setup' = setup, UNCHANGED <<link, up, subscribed>>,
           \A a \in Nodes : subscribers'[a] \subseteq up[a],
           Stay => \A a \in Nodes : \A m \in subscribers'[a] : subscribed[m],
           Stay => \A a, m \in Nodes : Announced(m, a) => Announced(m, a)'
    PROVE  Informed'
  <1>1. Stay' = Stay /\ Nodes' = Nodes
    BY DEF Stay, Nodes
  <1> QED
    BY <1>1 DEF Informed

(* Nothing but outboxes, meshes and fanout changes.                        *)
LEMMA MeshStep ==
    ASSUME GossipInv, NEW n \in Nodes, NEW t \in Threads, Idle(n, t), Fills(n, t),
           mesh' \in [Nodes -> SUBSET Nodes], fanout' \in [Nodes -> SUBSET Nodes],
           UNCHANGED <<subscribed, subscribers, cacheVars, netVars, chan, published, heard>>
    PROVE  GossipInv'
  <1>0. GossipTypes /\ Traffic /\ Dedup /\ Informed
    BY DEF GossipInv
  <1>1. setup' = setup /\ Nodes' = Nodes /\ UNCHANGED <<up, link, drops, seen, history>>
    BY DEF netVars, cacheVars, Nodes
  <1>2. GossipTypes'
    BY <1>0, <1>1 DEF GossipTypes
  <1>3. Grows
    BY <1>0, <1>1 DEF Grows, GossipTypes
  <1>4. Traffic'
    BY <1>0, <1>3, OutKeeps, TrafficStep DEF Traffic
  <1>5. Dedup'
    BY <1>0, <1>1, DedupSame
  <1>6. ASSUME NEW a \in Nodes, NEW m \in Nodes, Announced(m, a) PROVE Announced(m, a)'
    <2>1. (\E u \in Threads : Holds(out[m][u], a)) => \E u \in Threads : Holds(out'[m][u], a)
      BY <1>0, OutKeeps
    <2> QED
      BY <1>6, <2>1 DEF Announced
  <1>7. Informed'
    BY <1>0, <1>1, <1>6, InformedKeeps DEF Informed
  <1> QED
    BY <1>2, <1>4, <1>5, <1>7 DEF GossipInv

LEMMA HeartbeatKeeps ==
    ASSUME GossipInv, NEW n \in Nodes, Heartbeat(n)
    PROVE  GossipInv'
  <1>0. GossipTypes /\ Traffic
    BY DEF GossipInv
  <1>1. Idle(n, "beat") /\ UNCHANGED <<subscribed, subscribers, cacheVars, netVars, chan, published, heard>>
    BY DEF Heartbeat
  <1>2. "beat" \in Threads /\ published \in Nat /\ Stay \in BOOLEAN
    BY <1>0 DEF Threads, GossipTypes, Stay
  <1>3. CASE subscribed[n]
    <2>a. PICK new \in Maintained(mesh[n], subscribers[n]) :
             /\ \E lazy \in Samples(subscribers[n] \ new, GossipFactor) :
                   /\ mesh' = [mesh EXCEPT ![n] = new]
                   /\ Outbox(n, "beat", Changes(mesh[n], new)
                                \o (IF Offered(n) = {} THEN <<>> ELSE To(lazy, Frame("IHAVE", Offered(n)))))
             /\ UNCHANGED fanout
      BY <1>3 DEF Heartbeat
    <2>1. PICK lazy \in Samples(subscribers[n] \ new, GossipFactor) :
             /\ mesh' = [mesh EXCEPT ![n] = new]
             /\ Outbox(n, "beat", Changes(mesh[n], new)
                          \o (IF Offered(n) = {} THEN <<>> ELSE To(lazy, Frame("IHAVE", Offered(n)))))
             /\ UNCHANGED fanout
      BY <2>a
    <2>2. new \in SUBSET Nodes /\ mesh[n] \in SUBSET Nodes /\ lazy \in SUBSET Nodes
      <3>1. mesh[n] \in SUBSET Nodes /\ subscribers[n] \in SUBSET Nodes
        BY <1>0 DEF GossipTypes
      <3> QED
        BY <3>1, MaintainedTyped DEF Samples
    <2>3. Offered(n) \in SUBSET (1..published)
      <3>1. history[n] \in Seq(SUBSET (1..published))
        BY <1>0 DEF GossipTypes
      <3> QED
        BY <3>1 DEF Offered
    <2>4. Says(n)' = SaysOf(Stay, TRUE, published)
      BY <1>1, <1>3, <1>0 DEF Says, Stay, netVars, GossipTypes
    <2> DEFINE S == SaysOf(Stay, TRUE, published)
    <2>5. Changes(mesh[n], new) \in Seq(Boxes(Nodes, S))
      BY <1>2, <2>2, ChangesTyped
    <2>6. Frame("IHAVE", Offered(n)) \in S
      BY <1>2, <2>3, ControlSaid
    <2> HIDE DEF S
    <2>7. To(lazy, Frame("IHAVE", Offered(n))) \in Seq(Boxes(Nodes, S))
      BY <2>2, <2>6, ToTyped
    <2>8. Fills(n, "beat")
      <3>1. \A a, b \in Seq(Boxes(Nodes, S)) : a \o b \in Seq(Boxes(Nodes, S))
        OBVIOUS
      <3>2. <<>> \in Seq(Boxes(Nodes, S))
        OBVIOUS
      <3> QED
        BY <2>1, <2>4, <2>5, <2>7, <3>1, <3>2 DEF Fills, S
    <2>9. mesh' \in [Nodes -> SUBSET Nodes] /\ fanout' \in [Nodes -> SUBSET Nodes]
      BY <1>0, <2>1, <2>2 DEF GossipTypes
    <2> QED
      BY <1>1, <1>2, <2>8, <2>9, MeshStep
  <1>4. CASE ~subscribed[n]
    <2>1. UNCHANGED <<mesh, out>> /\ fanout' \in {fanout, [fanout EXCEPT ![n] = {}]}
      BY <1>4 DEF Heartbeat
    <2>2. mesh' \in [Nodes -> SUBSET Nodes] /\ fanout' \in [Nodes -> SUBSET Nodes]
      BY <1>0, <2>1 DEF GossipTypes
    <2> QED
      BY <1>1, <1>2, <2>1, <2>2, MeshStep DEF Fills
  <1> QED
    BY <1>3, <1>4

LEMMA ShiftKeeps ==
    ASSUME GossipInv, NEW n \in Nodes, ShiftHistory(n)
    PROVE  GossipInv'
  <1>0. GossipTypes /\ Traffic /\ Dedup /\ Informed
    BY DEF GossipInv
  <1>1. setup' = setup /\ Nodes' = Nodes /\ UNCHANGED <<topicVars, seen, out, up, link, chan, published, heard>>
    BY DEF ShiftHistory, netVars, Nodes
  <1> DEFINE h == history[n]
             H == SUBSET (1..published)
             k == IF Len(h) < HistoryLength THEN Len(h) + 1 ELSE HistoryLength
  <1>2. h \in Seq(H)
    BY <1>0 DEF GossipTypes
  <1>3. HistoryLength \in Nat
    BY <1>0, PubSubAssumption DEF GossipTypes, SetupOK, HistoryLength
  <1>4. history' = [history EXCEPT ![n] = SubSeq(<<{}>> \o h, 1, k)]
    BY DEF ShiftHistory
  <1>5. {} \in H
    OBVIOUS
  <1> HIDE DEF h, H
  <1>6. <<{}>> \o h \in Seq(H) /\ Len(<<{}>> \o h) = Len(h) + 1 /\ k \in Nat /\ k <= Len(h) + 1
    BY <1>2, <1>3, <1>5
  <1> HIDE DEF k
  <1>7. SubSeq(<<{}>> \o h, 1, k) \in Seq(H)
    <2> DEFINE g == <<{}>> \o h
    <2>1. g \in Seq(H) /\ k \in Nat /\ k <= Len(g)
      BY <1>6
    <2> HIDE DEF g
    <2>2. SubSeq(g, 1, k) \in Seq(H)
      BY <2>1
    <2> QED
      BY <2>2 DEF g
  <1>8. history' \in [Nodes -> Seq(SUBSET (1..published))]
    BY <1>0, <1>4, <1>7 DEF GossipTypes, H
  <1>9. GossipTypes'
    BY <1>0, <1>1, <1>8 DEF GossipTypes, topicVars
  <1>10. Grows
    BY <1>0, <1>1 DEF Grows, GossipTypes, topicVars
  <1>11. Traffic'
    BY <1>0, <1>1, <1>10, TrafficStep DEF Traffic
  <1>12. Dedup'
    BY <1>0, <1>1, DedupSame
  <1>13. \A a, m \in Nodes : Announced(m, a)' = Announced(m, a)
    BY <1>1 DEF Announced, topicVars
  <1>14. Informed'
    BY <1>0, <1>1, <1>13, InformedKeeps DEF Informed, topicVars
  <1> QED
    BY <1>9, <1>11, <1>12, <1>14 DEF GossipInv

LEMMA SubscribeKeeps ==
    ASSUME GossipInv, NEW n \in Nodes, Subscribe(n)
    PROVE  GossipInv'
  <1>0. GossipTypes /\ Traffic /\ Dedup /\ Informed
    BY DEF GossipInv
  <1>1. /\ setup' = setup /\ Nodes' = Nodes /\ Stay' = Stay
        /\ UNCHANGED <<subscribers, fanout, seen, history, up, link, chan, published, heard>>
    BY DEF Subscribe, netVars, cacheVars, Nodes, Stay
  <1>2. "app" \in Threads /\ published \in Nat /\ Stay \in BOOLEAN /\ Idle(n, "app")
    BY <1>0 DEF Threads, GossipTypes, Stay, Subscribe
  <1>3. PICK new \in Maintained(mesh[n], subscribers[n]) :
           /\ mesh' = [mesh EXCEPT ![n] = new]
           /\ Outbox(n, "app", To(Nodes, Ctrl("SUBSCRIBE")) \o Changes(mesh[n], new))
    BY DEF Subscribe
  <1>4. new \in SUBSET Nodes /\ mesh[n] \in SUBSET Nodes
    <2>1. mesh[n] \in SUBSET Nodes /\ subscribers[n] \in SUBSET Nodes
      BY <1>0 DEF GossipTypes
    <2> QED
      BY <2>1, MaintainedTyped
  <1>5. /\ subscribed' \in [Nodes -> BOOLEAN]
        /\ \A m \in Nodes : subscribed'[m] = IF m = n THEN TRUE ELSE subscribed[m]
    BY <1>0 DEF Subscribe, GossipTypes
  <1>6. Says(n)' = SaysOf(Stay, TRUE, published)
    BY <1>1, <1>5 DEF Says
  <1> DEFINE S == SaysOf(Stay, TRUE, published)
  <1>7. Changes(mesh[n], new) \in Seq(Boxes(Nodes, S))
    BY <1>2, <1>4, ChangesTyped
  <1>8. Ctrl("SUBSCRIBE") \in S
    BY <1>2, ControlSaid
  <1> HIDE DEF S
  <1>9. To(Nodes, Ctrl("SUBSCRIBE")) \in Seq(Boxes(Nodes, S))
    BY <1>8, ToTyped
  <1> DEFINE box == To(Nodes, Ctrl("SUBSCRIBE")) \o Changes(mesh[n], new)
  <1>10. box \in Seq(Boxes(Nodes, S))
    <2>1. \A a, b \in Seq(Boxes(Nodes, S)) : a \o b \in Seq(Boxes(Nodes, S))
      OBVIOUS
    <2> QED
      BY <1>7, <1>9, <2>1
  <1>11. \A x \in Nodes : Holds(box, x)
    <2>1. ASSUME NEW b \in Seq(Boxes(Nodes, S)), NEW x \in Nodes
          PROVE  Holds(<<[to |-> Nodes, msg |-> Ctrl("SUBSCRIBE")]>> \o b, x)
      <3> DEFINE a == [to |-> Nodes, msg |-> Ctrl("SUBSCRIBE")]
                 s == <<a>> \o b
      <3>1. a.msg.op = "SUBSCRIBE" /\ x \in a.to
        BY DEF Ctrl
      <3> HIDE DEF a
      <3>2. 1 \in DOMAIN s /\ s[1] = a
        OBVIOUS
      <3> HIDE DEF s
      <3>3. Holds(s, x)
        BY <3>1, <3>2 DEF Holds
      <3> QED
        BY <3>3 DEF s, a
    <2>2. To(Nodes, Ctrl("SUBSCRIBE")) = <<[to |-> Nodes, msg |-> Ctrl("SUBSCRIBE")]>>
      BY DEF To
    <2> QED
      BY <1>7, <2>1, <2>2
  <1>12. Outbox(n, "app", box)
    BY <1>3
  <1> HIDE DEF box
  <1>13. Fills(n, "app")
    BY <1>6, <1>10, <1>12 DEF Fills, S
  <1>14. GossipTypes'
    <2>1. mesh' \in [Nodes -> SUBSET Nodes]
      BY <1>0, <1>3, <1>4 DEF GossipTypes
    <2> QED
      BY <1>0, <1>1, <1>5, <2>1 DEF GossipTypes
  <1>15. Grows
    <2>1. published' \in Nat /\ published <= published'
      BY <1>1, <1>2
    <2>2. \A m \in Nodes : subscribed[m] => subscribed'[m]
      BY <1>5
    <2> QED
      BY <1>1, <1>5, <2>1, <2>2 DEF Grows
  <1>16. Traffic'
    BY <1>0, <1>1, <1>2, <1>13, <1>15, OutKeeps, TrafficStep DEF Traffic
  <1>17. Dedup'
    BY <1>0, <1>1, DedupSame
  <1>18. ASSUME NEW a \in Nodes, NEW m \in Nodes, Announced(m, a) \/ m = n PROVE Announced(m, a)'
    <2>1. CASE m = n
      <3>1. out'[n]["app"] = box
        BY <1>0, <1>2, <1>12, OutboxSet
      <3>2. Holds(out'[m]["app"], a)
        BY <1>11, <2>1, <3>1
      <3> QED
        BY <1>2, <3>2 DEF Announced
    <2>2. CASE Announced(m, a)
      <3>1. (\E u \in Threads : Holds(out[m][u], a)) => \E u \in Threads : Holds(out'[m][u], a)
        BY <1>0, <1>2, <1>13, OutKeeps
      <3> QED
        BY <1>1, <2>2, <3>1 DEF Announced
    <2> QED
      BY <1>18, <2>1, <2>2
  <1>19. Informed'
    <2>1. \A a \in Nodes : subscribers'[a] \subseteq up'[a] /\ a \notin up'[a]
      BY <1>0, <1>1 DEF Informed
    <2>2. Stay => \A a \in Nodes : \A m \in subscribers'[a] : subscribed'[m]
      BY <1>0, <1>1, <1>5 DEF Informed, GossipTypes
    <2>3. Stay => \A a, m \in Nodes : {a, m} \in link' /\ a \in up'[m] /\ subscribed'[m] => Announced(m, a)'
      BY <1>0, <1>1, <1>5, <1>18 DEF Informed
    <2> QED
      BY <1>1, <2>1, <2>2, <2>3 DEF Informed
  <1> QED
    BY <1>14, <1>16, <1>17, <1>19 DEF GossipInv

(* Nobody who stays unsubscribes.                                          *)
LEMMA UnsubscribeKeeps ==
    ASSUME GossipInv, NEW n \in Nodes, Unsubscribe(n)
    PROVE  GossipInv'
  <1>0. GossipTypes /\ Traffic /\ Dedup /\ Informed
    BY DEF GossipInv
  <1>1. /\ setup' = setup /\ Nodes' = Nodes /\ Stay' = Stay
        /\ UNCHANGED <<subscribers, fanout, seen, history, up, link, chan, published, heard>>
    BY DEF Unsubscribe, netVars, cacheVars, Nodes, Stay
  <1>2. "app" \in Threads /\ published \in Nat /\ ~Stay /\ Idle(n, "app") /\ mesh[n] \in SUBSET Nodes
    BY <1>0 DEF Threads, GossipTypes, Stay, Unsubscribe
  <1>3. /\ subscribed' \in [Nodes -> BOOLEAN] /\ subscribed'[n] = FALSE /\ mesh' \in [Nodes -> SUBSET Nodes]
    BY <1>0 DEF Unsubscribe, GossipTypes
  <1> DEFINE S == SaysOf(FALSE, FALSE, published)
  <1>4. Says(n)' = S
    <2>1. Stay \in BOOLEAN
      BY DEF Stay
    <2>2. Stay' = FALSE
      BY <1>1, <1>2, <2>1
    <2> QED
      BY <1>1, <1>3, <2>2, Zenon DEF Says
  <1>5. Ctrl("UNSUBSCRIBE") \in S /\ Ctrl("PRUNE") \in S
    BY <1>2, ControlSaid
  <1> HIDE DEF S
  <1>6. To(Nodes, Ctrl("UNSUBSCRIBE")) \in Seq(Boxes(Nodes, S)) /\ To(mesh[n], Ctrl("PRUNE")) \in Seq(Boxes(Nodes, S))
    BY <1>2, <1>5, ToTyped
  <1>7. Fills(n, "app")
    <2>1. \A a, b \in Seq(Boxes(Nodes, S)) : a \o b \in Seq(Boxes(Nodes, S))
      OBVIOUS
    <2> QED
      BY <1>4, <1>6, <2>1 DEF Fills, Unsubscribe
  <1>8. GossipTypes'
    BY <1>0, <1>1, <1>3 DEF GossipTypes
  <1>9. Grows
    BY <1>0, <1>1, <1>2, <1>3 DEF Grows, GossipTypes
  <1>10. Traffic'
    BY <1>0, <1>1, <1>2, <1>7, <1>9, OutKeeps, TrafficStep DEF Traffic
  <1>11. Dedup'
    BY <1>0, <1>1, DedupSame
  <1>12. Informed'
    BY <1>0, <1>1, <1>2 DEF Informed
  <1> QED
    BY <1>8, <1>10, <1>11, <1>12 DEF GossipInv

LEMMA PublishKeeps ==
    ASSUME GossipInv, NEW n \in Nodes, Publish(n)
    PROVE  GossipInv'
  <1>0. GossipTypes /\ Traffic /\ Dedup /\ Informed
    BY DEF GossipInv
  <1> DEFINE i == published + 1
  <1>1. /\ setup' = setup /\ Nodes' = Nodes /\ Stay' = Stay
        /\ UNCHANGED <<subscribed, subscribers, mesh, up, link, chan>>
    BY DEF Publish, netVars, Nodes, Stay
  <1>2. "app" \in Threads /\ published \in Nat /\ Idle(n, "app") /\ Stay \in BOOLEAN /\ subscribed'[n] \in BOOLEAN
    BY <1>0, <1>1 DEF Threads, GossipTypes, Publish, Stay
  <1>3. published' = i /\ published' \in Nat /\ published <= published' /\ i \in 1..published'
    BY <1>2 DEF Publish
  <1>4. published' <= MaxMessages
    <2>1. setup.maxMessages \in 0..MaxMessages /\ MaxMessages \in Nat
      BY <1>0, PubSubAssumption DEF GossipTypes, SetupOK
    <2> QED
      BY <1>2, <2>1 DEF Publish
  <1>5. i \notin Seen(n)
    <2>1. seen[n] \in Seq(1..published)
      BY <1>0 DEF GossipTypes
    <2> QED
      BY <1>2, <2>1 DEF Seen
  <1>6. /\ Dedup' /\ seen' \in [Nodes -> Seq(1..published')] /\ heard' \in [Nodes -> [Ids -> Nat]]
        /\ history' \in [Nodes -> Seq(SUBSET (1..published'))]
    <2>1. TakeIn(n, i)
      BY DEF Publish
    <2> HIDE DEF i
    <2> QED
      BY <1>0, <1>1, <1>3, <1>4, <1>5, <2>1, TakenIn
  <1>7. PICK T \in SUBSET Nodes : /\ fanout' = fanout \/ fanout' = [fanout EXCEPT ![n] = T]
                                  /\ Outbox(n, "app", To(T, Frame("PUBLISH", {i})))
    <2>1. mesh[n] \in SUBSET Nodes /\ subscribers[n] \in SUBSET Nodes /\ fanout[n] \in SUBSET Nodes
      BY <1>0 DEF GossipTypes
    <2>2. CASE subscribed[n]
      BY <2>1, <2>2 DEF Publish
    <2>3. CASE ~subscribed[n]
      <3>1. PICK T \in IF Cardinality(fanout[n]) < FanoutSize
                       THEN Samples(subscribers[n] \ fanout[n], FanoutSize - Cardinality(fanout[n]))
                       ELSE {{}} :
               /\ fanout' = [fanout EXCEPT ![n] = @ \cup T]
               /\ Outbox(n, "app", To(fanout[n] \cup T, Frame("PUBLISH", {i})))
        BY <2>3 DEF Publish
      <3>2. fanout[n] \cup T \in SUBSET Nodes
        BY <2>1 DEF Samples
      <3> QED
        BY <3>1, <3>2
    <2> QED
      BY <2>2, <2>3
  <1>8. fanout' \in [Nodes -> SUBSET Nodes]
    BY <1>0, <1>7 DEF GossipTypes
  <1>9. Fills(n, "app")
    <2> DEFINE S == SaysOf(Stay, subscribed'[n], published')
    <2>1. Frame("PUBLISH", {i}) \in S
      <3>1. {i} \in SUBSET (1..published') /\ {i} # {}
        BY <1>3
      <3> HIDE DEF i
      <3> QED
        BY <1>2, <1>3, <3>1, ControlSaid
    <2>2. Says(n)' = S
      BY <1>1 DEF Says
    <2> HIDE DEF S
    <2>3. To(T, Frame("PUBLISH", {i})) \in Seq(Boxes(Nodes, S))
      BY <2>1, ToTyped
    <2> QED
      BY <1>7, <2>2, <2>3 DEF Fills
  <1> HIDE DEF i
  <1>10. GossipTypes'
    BY <1>0, <1>1, <1>3, <1>4, <1>6, <1>8 DEF GossipTypes
  <1>11. Grows
    BY <1>0, <1>1, <1>3 DEF Grows, GossipTypes
  <1>12. Traffic'
    BY <1>0, <1>1, <1>2, <1>9, <1>11, OutKeeps, TrafficStep DEF Traffic
  <1>13. ASSUME NEW a \in Nodes, NEW m \in Nodes, Announced(m, a) PROVE Announced(m, a)'
    <2>1. (\E u \in Threads : Holds(out[m][u], a)) => \E u \in Threads : Holds(out'[m][u], a)
      BY <1>0, <1>2, <1>9, OutKeeps
    <2> QED
      BY <1>1, <1>13, <2>1 DEF Announced
  <1>14. Informed'
    BY <1>0, <1>1, <1>13, InformedKeeps DEF Informed
  <1> QED
    BY <1>6, <1>10, <1>12, <1>14 DEF GossipInv

(* Frames leave in the order of the outbox.                                *)
LEMMA DispatchKeeps ==
    ASSUME GossipInv, NEW n \in Nodes, NEW t \in Threads, Dispatch(n, t)
    PROVE  GossipInv'
  <1>0. GossipTypes /\ Traffic /\ Dedup /\ Informed
    BY DEF GossipInv
  <1>1. /\ setup' = setup /\ Nodes' = Nodes /\ Stay' = Stay
        /\ UNCHANGED <<subscribed, subscribers, mesh, fanout, seen, history, up, link, published, heard>>
    BY DEF Dispatch, netVars, topicVars, cacheVars, Nodes, Stay
  <1> DEFINE o == out[n][t]
             box == Head(o)
  <1>2. o \in Seq(Boxes(Nodes, Says(n))) /\ o # <<>>
    BY <1>0 DEF Traffic, Dispatch, Idle
  <1> HIDE DEF o
  <1>3. box \in Boxes(Nodes, Says(n)) /\ Tail(o) \in Seq(Boxes(Nodes, Says(n)))
    BY <1>2
  <1>4. /\ DOMAIN out' = Nodes
        /\ \A m \in Nodes : DOMAIN out'[m] = Threads
        /\ \A m \in Nodes, u \in Threads : out'[m][u] = IF m = n /\ u = t THEN Tail(o) ELSE out[m][u]
    BY <1>0 DEF Traffic, Dispatch, o
  <1>5. /\ DOMAIN chan' = Nodes \X Nodes
        /\ \A m, x \in Nodes : chan'[<<m, x>>] = IF m = n /\ x \in box.to \cap up[n] /\ {n, x} \in link
                                                 THEN Append(chan[<<m, x>>], box.msg) ELSE chan[<<m, x>>]
    BY DEF Dispatch, o
  <1> HIDE DEF box
  <1>6. GossipTypes'
    BY <1>0, <1>1 DEF GossipTypes
  <1>7. Grows
    BY <1>0, <1>1 DEF Grows, GossipTypes
  <1>8. \A m \in Nodes : Says(m)' = Says(m)
    BY <1>1 DEF Says
  <1>9. Traffic'
    <2>1. box.msg \in Says(n)
      BY <1>3 DEF Boxes
    <2>2. ASSUME NEW m \in Nodes, NEW x \in Nodes
          PROVE  chan'[<<m, x>>] = chan[<<m, x>>] \/ chan'[<<m, x>>] \in Seq(Says(m)')
      <3>1. chan[<<n, x>>] \in Seq(Says(n))
        BY <1>0 DEF Traffic
      <3>2. Append(chan[<<n, x>>], box.msg) \in Seq(Says(n))
        BY <2>1, <3>1
      <3> QED
        BY <1>5, <1>8, <3>2
    <2>3. ASSUME NEW m \in Nodes, NEW u \in Threads
          PROVE  out'[m][u] = out[m][u] \/ out'[m][u] \in Seq(Boxes(Nodes, Says(m)'))
      BY <1>3, <1>4, <1>8
    <2> QED
      BY <1>0, <1>4, <1>5, <1>7, <2>2, <2>3, TrafficStep
  <1>10. Dedup'
    BY <1>0, <1>1, DedupSame
  <1>11. ASSUME NEW a \in Nodes, NEW m \in Nodes, {a, m} \in link, a \in up[m], Announced(m, a) PROVE Announced(m, a)'
    <2>1. CASE m \in subscribers[a]
      BY <1>1, <2>1 DEF Announced
    <2>2. CASE Carries(chan[<<m, a>>])
      <3>1. chan[<<m, a>>] \in Seq(Says(m))
        BY <1>0 DEF Traffic
      <3>2. Carries(Append(chan[<<m, a>>], box.msg))
        <4> DEFINE c == chan[<<m, a>>]
        <4>1. PICK k \in DOMAIN c : c[k].op = "SUBSCRIBE"
          BY <2>2 DEF Carries
        <4>2. k \in DOMAIN Append(c, box.msg) /\ Append(c, box.msg)[k] = c[k]
          BY <3>1
        <4> QED
          BY <4>1, <4>2 DEF Carries
      <3>3. Carries(chan'[<<m, a>>])
        BY <1>5, <2>2, <3>2
      <3> QED
        BY <3>3 DEF Announced
    <2>3. ASSUME NEW u \in Threads, Holds(out[m][u], a) PROVE Announced(m, a)'
      <3>1. CASE m = n /\ u = t
        <4>1. PICK k \in DOMAIN o : o[k].msg.op = "SUBSCRIBE" /\ a \in o[k].to
          BY <2>3, <3>1 DEF Holds, o
        <4>2. CASE k = 1
          <5>1. box.msg.op = "SUBSCRIBE" /\ a \in box.to
            BY <1>2, <4>1, <4>2 DEF box
          <5>2. chan'[<<n, a>>] = Append(chan[<<n, a>>], box.msg)
            BY <1>5, <1>11, <3>1, <5>1
          <5>3. chan[<<n, a>>] \in Seq(Says(n))
            BY <1>0 DEF Traffic
          <5> DEFINE c == chan[<<n, a>>]
                     d == Append(c, box.msg)
          <5>4. Len(c) + 1 \in DOMAIN d /\ d[Len(c) + 1] = box.msg
            BY <5>3
          <5> HIDE DEF c, d
          <5>5. Carries(d)
            BY <5>1, <5>4 DEF Carries
          <5> QED
            BY <3>1, <5>2, <5>5 DEF Announced, c, d
        <4>3. CASE k # 1
          <5>1. k - 1 \in DOMAIN Tail(o) /\ Tail(o)[k - 1] = o[k]
            BY <1>2, <4>3
          <5>2. Holds(Tail(o), a)
            BY <4>1, <5>1 DEF Holds
          <5>3. out'[m][u] = Tail(o)
            BY <1>4, <3>1
          <5> QED
            BY <5>2, <5>3 DEF Announced
        <4> QED
          BY <4>2, <4>3
      <3>2. CASE ~(m = n /\ u = t)
        <4>1. out'[m][u] = out[m][u]
          BY <1>4, <3>2
        <4> QED
          BY <2>3, <4>1 DEF Announced
      <3> QED
        BY <3>1, <3>2
    <2> QED
      BY <1>11, <2>1, <2>2, <2>3 DEF Announced
  <1>12. Informed'
    BY <1>0, <1>1, <1>11 DEF Informed
  <1> QED
    BY <1>6, <1>9, <1>10, <1>12 DEF GossipInv

(* The first frame from m is taken off, but for what is left of a resend.  *)
LEMMA DeliverKeeps ==
    ASSUME GossipInv, NEW n \in Nodes, NEW m \in Others(n), Deliver(n, m)
    PROVE  GossipInv'
  <1>0. GossipTypes /\ Traffic /\ Dedup /\ Informed
    BY DEF GossipInv
  <1> DEFINE c == chan[<<m, n>>]
             msg == Head(c)
             i == CHOOSE j \in msg.ids : TRUE
             rest == IF msg.op = "RESEND" /\ msg.ids # {i} THEN <<Frame("RESEND", msg.ids \ {i})>> \o Tail(c) ELSE Tail(c)
  <1>1. /\ setup' = setup /\ Nodes' = Nodes /\ Stay' = Stay
        /\ UNCHANGED <<subscribed, up, link, published>>
    BY DEF Deliver, netVars, Nodes, Stay
  <1>2. /\ m \in Nodes /\ m # n /\ m \in up[n] /\ "react" \in Threads /\ Idle(n, "react") /\ published \in Nat
        /\ Stay \in BOOLEAN /\ subscribed[n] \in BOOLEAN /\ subscribed[m] \in BOOLEAN
    BY <1>0 DEF Others, Threads, Deliver, GossipTypes, Stay
  <1>3. c \in Seq(Says(m)) /\ c # <<>> /\ chan' = [chan EXCEPT ![<<m, n>>] = rest]
    BY <1>0, <1>2 DEF Traffic, Deliver
  <1>4. /\ msg.op = "SUBSCRIBE" => RecvSubscribe(n, m)
        /\ msg.op = "UNSUBSCRIBE" => RecvUnsubscribe(n, m)
        /\ msg.op = "GRAFT" => RecvGraft(n, m)
        /\ msg.op = "PRUNE" => RecvPrune(n, m)
        /\ msg.op \in {"PUBLISH", "RESEND"} => RecvPublish(n, m, i)
        /\ msg.op = "IHAVE" => RecvIhave(n, m, msg.ids)
        /\ msg.op = "IWANT" => RecvIwant(n, m, msg.ids)
        /\ msg.op \in Ops
    BY DEF Deliver, Ops
  <1> HIDE DEF c
  <1>5. msg \in Says(m) /\ Tail(c) \in Seq(Says(m))
    BY <1>3
  <1> HIDE DEF msg
  <1>6. /\ msg.op \in Ops /\ msg.ids \in SUBSET (1..published)
        /\ msg.op \in {"PUBLISH", "RESEND"} => i \in msg.ids
        /\ Stay => msg.op # "UNSUBSCRIBE" /\ (msg.op \in {"SUBSCRIBE", "GRAFT"} => subscribed[m])
    BY <1>5 DEF Says, SaysOf
  <1> HIDE DEF i
  <1>7. rest \in Seq(Says(m))
    <2>1. CASE msg.op = "RESEND" /\ msg.ids # {i}
      <3>1. msg.ids \ {i} \in SUBSET (1..published) /\ msg.ids \ {i} # {}
        BY <1>6, <2>1
      <3>2. Frame("RESEND", msg.ids \ {i}) \in Says(m)
        BY <1>2, <3>1, ControlSaid DEF Says
      <3> QED
        BY <1>5, <2>1, <3>2
    <2>2. CASE ~(msg.op = "RESEND" /\ msg.ids # {i})
      BY <1>5, <2>2
    <2> QED
      BY <2>1, <2>2
  <1>8. Carries(c) /\ msg.op # "SUBSCRIBE" => Carries(rest)
    <2> SUFFICES ASSUME Carries(c), msg.op # "SUBSCRIBE" PROVE Carries(rest)
      OBVIOUS
    <2>1. PICK k \in DOMAIN c : c[k].op = "SUBSCRIBE"
      BY DEF Carries
    <2>2. k \in 2..Len(c)
      BY <1>3, <2>1 DEF msg
    <2>3. k - 1 \in DOMAIN Tail(c) /\ Tail(c)[k - 1] = c[k]
      BY <1>3, <2>2
    <2>4. CASE rest = Tail(c)
      BY <2>1, <2>3, <2>4 DEF Carries
    <2>5. CASE rest = <<Frame("RESEND", msg.ids \ {i})>> \o Tail(c)
      <3> DEFINE f == Frame("RESEND", msg.ids \ {i})
                 d == <<f>> \o Tail(c)
      <3> HIDE DEF f
      <3>1. k \in DOMAIN d /\ d[k] = Tail(c)[k - 1]
        BY <1>5, <2>2, <2>3
      <3> HIDE DEF d
      <3>2. Carries(d)
        BY <2>1, <2>3, <3>1 DEF Carries
      <3> QED
        BY <2>5, <3>2 DEF d, f
    <2> QED
      BY <2>4, <2>5
  <1> HIDE DEF rest
  <1>9. /\ DOMAIN chan' = Nodes \X Nodes
        /\ \A a, b \in Nodes : chan'[<<a, b>>] = IF a = m /\ b = n THEN rest ELSE chan[<<a, b>>]
    BY <1>0, <1>3 DEF Traffic
  <1>10. \A a \in Nodes : Says(a)' = Says(a)
    BY <1>1 DEF Says
  <1>11. mesh[n] \in SUBSET Nodes /\ subscribers[n] \in SUBSET Nodes /\ fanout[n] \in SUBSET Nodes
    BY <1>0 DEF GossipTypes
  <1>12. /\ Fills(n, "react")
         /\ mesh' \in [Nodes -> SUBSET Nodes] /\ fanout' \in [Nodes -> SUBSET Nodes]
         /\ seen' \in [Nodes -> Seq(1..published)] /\ history' \in [Nodes -> Seq(SUBSET (1..published))]
         /\ heard' \in [Nodes -> [Ids -> Nat]] /\ Dedup'
         /\ \E S \in SUBSET (subscribers[n] \cup {m}) :
               /\ subscribers' = [subscribers EXCEPT ![n] = S]
               /\ Stay => subscribers[n] \subseteq S
               /\ m \in S \ subscribers[n] => msg.op \in {"SUBSCRIBE", "GRAFT"}
               /\ msg.op = "SUBSCRIBE" => m \in S
    <2>s. subscribers = [subscribers EXCEPT ![n] = subscribers[n]]
      BY <1>0 DEF GossipTypes
    <2>d. UNCHANGED <<cacheVars, heard>> =>
             /\ seen' \in [Nodes -> Seq(1..published)] /\ history' \in [Nodes -> Seq(SUBSET (1..published))]
             /\ heard' \in [Nodes -> [Ids -> Nat]] /\ Dedup'
      <3> SUFFICES ASSUME UNCHANGED <<cacheVars, heard>>
                   PROVE  /\ seen' \in [Nodes -> Seq(1..published)] /\ history' \in [Nodes -> Seq(SUBSET (1..published))]
                          /\ heard' \in [Nodes -> [Ids -> Nat]] /\ Dedup'
        OBVIOUS
      <3>1. UNCHANGED <<seen, history, heard>>
        BY DEF cacheVars
      <3>2. Dedup'
        BY <1>0, <1>1, <3>1, DedupSame
      <3> QED
        BY <1>0, <3>1, <3>2 DEF GossipTypes
    <2> DEFINE W == SaysOf(Stay, subscribed[n], published)
    <2>w. \A a \in Nodes : a = n => Says(a)' = W
      BY <1>10 DEF Says
    <2>o. \A box \in Seq(Boxes(Nodes, W)) : Outbox(n, "react", box) => Fills(n, "react")
      BY <2>w DEF Fills
    <2>e. <<>> \in Seq(Boxes(Nodes, W))
      OBVIOUS
    <2>p. Ctrl("PRUNE") \in W
      BY <1>2, ControlSaid
    <2>f. \A S \in SUBSET (1..published) :
             /\ Frame("IWANT", S) \in W
             /\ S # {} => Frame("PUBLISH", S) \in W /\ Frame("RESEND", S) \in W
      BY <1>2, ControlSaid
    <2>c. \A old, new \in SUBSET Nodes : subscribed[n] \/ old = new => Changes(old, new) \in Seq(Boxes(Nodes, W))
      BY <1>2, ChangesTyped
    <2> HIDE DEF W
    <2>1. CASE msg.op = "SUBSCRIBE"
      <3>1. RecvSubscribe(n, m)
        BY <1>4, <2>1
      <3> DEFINE known == subscribers[n] \cup {m}
      <3>2. PICK new \in IF subscribed[n] THEN Maintained(mesh[n], known) ELSE {mesh[n]} :
               mesh' = [mesh EXCEPT ![n] = new] /\ Outbox(n, "react", Changes(mesh[n], new))
        BY <3>1 DEF RecvSubscribe
      <3>3. known \in SUBSET Nodes
        BY <1>2, <1>11
      <3> HIDE DEF known
      <3>4. new \in SUBSET Nodes
        BY <1>11, <3>3, MaintainedTyped
      <3>5. Fills(n, "react")
        BY <1>11, <2>o, <2>c, <3>2, <3>4
      <3>6. mesh' \in [Nodes -> SUBSET Nodes] /\ fanout' \in [Nodes -> SUBSET Nodes] /\ UNCHANGED <<cacheVars, heard>>
        BY <1>0, <3>1, <3>2, <3>4 DEF RecvSubscribe, GossipTypes
      <3>7. subscribers' = [subscribers EXCEPT ![n] = subscribers[n] \cup {m}]
        BY <3>1 DEF RecvSubscribe
      <3> QED
        BY <2>d, <2>1, <3>5, <3>6, <3>7
    <2>2. CASE msg.op = "UNSUBSCRIBE"
      <3>1. RecvUnsubscribe(n, m)
        BY <1>4, <2>2
      <3>2. /\ mesh' \in [Nodes -> SUBSET Nodes] /\ fanout' \in [Nodes -> SUBSET Nodes]
            /\ UNCHANGED <<cacheVars, heard>> /\ out' = out
        BY <1>0, <3>1 DEF RecvUnsubscribe, GossipTypes
      <3>3. subscribers' = [subscribers EXCEPT ![n] = subscribers[n] \ {m}]
        BY <3>1 DEF RecvUnsubscribe
      <3>4. subscribers[n] \ {m} \in SUBSET (subscribers[n] \cup {m}) /\ ~Stay
        BY <1>6, <2>2
      <3> QED
        BY <2>d, <2>2, <3>2, <3>3, <3>4 DEF Fills
    <2>3. CASE msg.op = "GRAFT"
      <3>1. RecvGraft(n, m) /\ UNCHANGED <<cacheVars, heard>> /\ fanout' \in [Nodes -> SUBSET Nodes]
        BY <1>0, <1>4, <2>3 DEF RecvGraft, GossipTypes
      <3>2. CASE subscribed[n]
        <4>1. /\ subscribers' = [subscribers EXCEPT ![n] = subscribers[n] \cup {m}]
              /\ mesh' \in [Nodes -> SUBSET Nodes] /\ out' = out
          <5>1. /\ subscribers' = [subscribers EXCEPT ![n] = @ \cup {m}]
                /\ mesh' = [mesh EXCEPT ![n] = @ \cup {m}] /\ out' = out
            BY <3>1, <3>2 DEF RecvGraft
          <5>2. mesh' \in [Nodes -> SUBSET Nodes]
            BY <1>0, <1>2, <5>1 DEF GossipTypes
          <5> QED
            BY <5>1, <5>2
        <4> QED
          BY <2>d, <2>3, <3>1, <4>1 DEF Fills
      <3>3. CASE ~subscribed[n]
        <4>1. Outbox(n, "react", To({m}, Ctrl("PRUNE"))) /\ UNCHANGED <<subscribers, mesh>>
          BY <3>1, <3>3 DEF RecvGraft
        <4>2. To({m}, Ctrl("PRUNE")) \in Seq(Boxes(Nodes, W))
          BY <1>2, <2>p, ToTyped
        <4>3. mesh' \in [Nodes -> SUBSET Nodes] /\ Fills(n, "react")
          BY <1>0, <2>o, <4>1, <4>2 DEF GossipTypes
        <4> QED
          BY <2>d, <2>s, <2>3, <3>1, <4>1, <4>3
      <3> QED
        BY <3>2, <3>3
    <2>4. CASE msg.op = "PRUNE"
      <3>1. RecvPrune(n, m)
        BY <1>4, <2>4
      <3>2. /\ mesh' \in [Nodes -> SUBSET Nodes] /\ fanout' \in [Nodes -> SUBSET Nodes]
            /\ UNCHANGED <<cacheVars, heard>> /\ out' = out /\ subscribers' = subscribers
        BY <1>0, <3>1 DEF RecvPrune, GossipTypes
      <3> QED
        BY <2>d, <2>s, <2>4, <3>2 DEF Fills
    <2>5. CASE msg.op \in {"PUBLISH", "RESEND"}
      <3>1. RecvPublish(n, m, i) /\ i \in 1..published
        BY <1>4, <1>6, <2>5
      <3>2. /\ mesh' \in [Nodes -> SUBSET Nodes] /\ fanout' \in [Nodes -> SUBSET Nodes]
            /\ subscribers' = subscribers
        BY <1>0, <3>1 DEF RecvPublish, GossipTypes
      <3>3. published <= MaxMessages /\ published' = published /\ published <= published'
        BY <1>0, <1>1, <1>2 DEF GossipTypes
      <3>4. CASE i \in Seen(n)
        <4>1. UNCHANGED <<out, cacheVars, heard>>
          BY <3>1, <3>4 DEF RecvPublish
        <4> QED
          BY <2>d, <2>s, <2>5, <3>2, <4>1 DEF Fills
      <3>5. CASE i \notin Seen(n) /\ n \in setup.refusing
        <4>1. seen' = [seen EXCEPT ![n] = MarkSeen(@, i)] /\ UNCHANGED <<out, history, heard>>
          BY <3>1, <3>5 DEF RecvPublish
        <4>2. heard' = [heard EXCEPT ![n][i] = @ + 0] /\ 0 \in {0, 1}
          BY <1>0, <4>1 DEF GossipTypes
        <4>3. Dedup' /\ seen' \in [Nodes -> Seq(1..published)] /\ heard' \in [Nodes -> [Ids -> Nat]]
          BY <1>0, <1>1, <1>2, <3>1, <3>3, <3>5, <4>1, <4>2, DedupAdds
        <4> QED
          BY <1>0, <2>s, <2>5, <3>2, <4>1, <4>3 DEF Fills, GossipTypes
      <3>6. CASE i \notin Seen(n) /\ n \notin setup.refusing
        <4> DEFINE box == IF subscribed[n] THEN To(mesh[n] \ {m}, Frame("PUBLISH", {i})) ELSE <<>>
        <4>1. TakeIn(n, i) /\ Outbox(n, "react", box)
          BY <3>1, <3>6 DEF RecvPublish
        <4>2. /\ Dedup' /\ seen' \in [Nodes -> Seq(1..published)] /\ heard' \in [Nodes -> [Ids -> Nat]]
              /\ history' \in [Nodes -> Seq(SUBSET (1..published))]
          BY <1>0, <1>1, <1>2, <3>1, <3>3, <3>6, <4>1, TakenIn
        <4>3. Frame("PUBLISH", {i}) \in W
          BY <2>f, <3>1
        <4>4. box \in Seq(Boxes(Nodes, W))
          BY <1>11, <2>e, <4>3, ToTyped
        <4> HIDE DEF box
        <4>5. Fills(n, "react")
          BY <2>o, <4>1, <4>4
        <4> QED
          BY <2>s, <2>5, <3>2, <4>2, <4>5
      <3> QED
        BY <3>4, <3>5, <3>6
    <2>6. CASE msg.op \in {"IHAVE", "IWANT"}
      <3>1. RecvIhave(n, m, msg.ids) \/ RecvIwant(n, m, msg.ids)
        BY <1>4, <2>6
      <3>2. /\ mesh' \in [Nodes -> SUBSET Nodes] /\ fanout' \in [Nodes -> SUBSET Nodes]
            /\ subscribers' = subscribers /\ UNCHANGED <<cacheVars, heard>>
        BY <1>0, <3>1 DEF RecvIhave, RecvIwant, GossipTypes
      <3>3. PICK f : Outbox(n, "react", <<>>) \/ (f \in W /\ Outbox(n, "react", To({m}, f)))
        <4>1. CASE RecvIhave(n, m, msg.ids)
          <5>1. msg.ids \ Seen(n) \in SUBSET (1..published)
            BY <1>6
          <5>2. Frame("IWANT", msg.ids \ Seen(n)) \in W
            BY <2>f, <5>1
          <5> QED
            BY <4>1, <5>2 DEF RecvIhave
        <4>2. CASE RecvIwant(n, m, msg.ids)
          <5>1. msg.ids \cap Cached(n) \in SUBSET (1..published)
            BY <1>6
          <5>2. msg.ids \cap Cached(n) # {} => Frame("RESEND", msg.ids \cap Cached(n)) \in W
            BY <2>f, <5>1
          <5> QED
            BY <4>2, <5>2 DEF RecvIwant
        <4> QED
          BY <3>1, <4>1, <4>2
      <3>4. f \in W => To({m}, f) \in Seq(Boxes(Nodes, W))
        BY <1>2, ToTyped
      <3>5. Fills(n, "react")
        BY <2>o, <2>e, <3>3, <3>4
      <3> QED
        BY <2>d, <2>s, <2>6, <3>2, <3>5
    <2> QED
      BY <1>6, <2>1, <2>2, <2>3, <2>4, <2>5, <2>6 DEF Ops
  <1>13. PICK S \in SUBSET (subscribers[n] \cup {m}) :
               /\ subscribers' = [subscribers EXCEPT ![n] = S]
               /\ Stay => subscribers[n] \subseteq S
               /\ m \in S \ subscribers[n] => msg.op \in {"SUBSCRIBE", "GRAFT"}
               /\ msg.op = "SUBSCRIBE" => m \in S
    BY <1>12
  <1>14. /\ subscribers' \in [Nodes -> SUBSET Nodes]
         /\ \A a \in Nodes : subscribers'[a] = IF a = n THEN S ELSE subscribers[a]
    BY <1>0, <1>2, <1>11, <1>13 DEF GossipTypes
  <1>15. GossipTypes'
    BY <1>0, <1>1, <1>12, <1>14 DEF GossipTypes
  <1>16. Grows
    BY <1>0, <1>1 DEF Grows, GossipTypes
  <1>17. Traffic'
    <2>1. ASSUME NEW a \in Nodes, NEW b \in Nodes
          PROVE  chan'[<<a, b>>] = chan[<<a, b>>] \/ chan'[<<a, b>>] \in Seq(Says(a)')
      BY <1>7, <1>9, <1>10
    <2> QED
      BY <1>0, <1>2, <1>9, <1>12, <1>16, <2>1, OutKeeps, TrafficStep
  <1>18. ASSUME Stay, NEW a \in Nodes, NEW b \in Nodes, Announced(b, a) PROVE Announced(b, a)'
    <2>1. CASE b \in subscribers[a]
      BY <1>13, <1>14, <1>18, <2>1 DEF Announced
    <2>2. CASE Carries(chan[<<b, a>>])
      <3>1. CASE b = m /\ a = n
        <4>1. CASE msg.op = "SUBSCRIBE"
          BY <1>13, <1>14, <3>1, <4>1 DEF Announced
        <4>2. CASE msg.op # "SUBSCRIBE"
          <5>1. Carries(chan'[<<b, a>>])
            BY <1>8, <1>9, <2>2, <3>1, <4>2 DEF c
          <5> QED
            BY <5>1 DEF Announced
        <4> QED
          BY <4>1, <4>2
      <3>2. CASE ~(b = m /\ a = n)
        <4>1. Carries(chan'[<<b, a>>])
          BY <1>9, <2>2, <3>2
        <4> QED
          BY <4>1 DEF Announced
      <3> QED
        BY <3>1, <3>2
    <2>3. CASE \E u \in Threads : Holds(out[b][u], a)
      <3>1. \E u \in Threads : Holds(out'[b][u], a)
        BY <1>0, <1>2, <1>12, <2>3, OutKeeps
      <3> QED
        BY <3>1 DEF Announced
    <2> QED
      BY <1>18, <2>1, <2>2, <2>3 DEF Announced
  <1>19. Informed'
    <2>1. \A a \in Nodes : subscribers'[a] \subseteq up[a]
      BY <1>0, <1>2, <1>14 DEF Informed
    <2>2. Stay => \A a \in Nodes : \A b \in subscribers'[a] : subscribed[b]
      BY <1>0, <1>6, <1>13, <1>14 DEF Informed
    <2> QED
      BY <1>0, <1>1, <1>18, <2>1, <2>2, InformedKeeps
  <1> QED
    BY <1>12, <1>15, <1>17, <1>19 DEF GossipInv

(* The changes of connections.                                             *)
LEMMA LinksKeep ==
    ASSUME GossipInv, NEW n \in Nodes, NEW m \in Others(n), Connect(n, m) \/ Drop(n, m)
    PROVE  GossipInv'
  <1>0. GossipTypes /\ Traffic /\ Dedup /\ Informed
    BY DEF GossipInv
  <1>1. /\ setup' = setup /\ Nodes' = Nodes /\ Stay' = Stay /\ m \in Nodes
        /\ UNCHANGED <<subscribed, subscribers, mesh, fanout, seen, history, out, up, published, heard>>
    BY DEF Connect, Drop, topicVars, cacheVars, Nodes, Stay, Others
  <1>2. GossipTypes'
    BY <1>0, <1>1 DEF GossipTypes
  <1>3. Grows
    BY <1>0, <1>1 DEF Grows, GossipTypes
  <1>4. Dedup'
    BY <1>0, <1>1, DedupSame
  <1>5. CASE Connect(n, m)
    <2>1. chan' = chan /\ link' = link \cup {{n, m}} /\ m \notin up[n] /\ n \notin up[m]
      BY <1>5 DEF Connect
    <2>2. Traffic'
      BY <1>0, <1>1, <1>3, <2>1, TrafficStep DEF Traffic
    <2>3. ASSUME NEW a \in Nodes, NEW b \in Nodes, {a, b} \in link', a \in up[b] PROVE {a, b} \in link
      BY <2>1, <2>3
    <2>4. \A a, b \in Nodes : Announced(b, a)' = Announced(b, a)
      BY <1>1, <2>1 DEF Announced
    <2>5. Informed'
      BY <1>0, <1>1, <2>3, <2>4 DEF Informed
    <2> QED
      BY <1>2, <1>4, <2>2, <2>5 DEF GossipInv
  <1>6. CASE Drop(n, m)
    <2>1. chan' = [chan EXCEPT ![<<n, m>>] = <<>>, ![<<m, n>>] = <<>>] /\ link' = link \ {{n, m}}
      BY <1>6 DEF Drop
    <2>2. /\ DOMAIN chan' = Nodes \X Nodes
          /\ \A a, b \in Nodes : chan'[<<a, b>>] = IF (a = n /\ b = m) \/ (a = m /\ b = n) THEN <<>> ELSE chan[<<a, b>>]
      BY <1>0, <1>1, <2>1 DEF Traffic
    <2>3. Traffic'
      <3>1. \A S : <<>> \in Seq(S)
        OBVIOUS
      <3>2. \A a, b \in Nodes : chan'[<<a, b>>] = chan[<<a, b>>] \/ chan'[<<a, b>>] \in Seq(Says(a)')
        BY <2>2, <3>1
      <3> QED
        BY <1>0, <1>1, <1>3, <2>2, <3>2, TrafficStep DEF Traffic
    <2>4. ASSUME NEW a \in Nodes, NEW b \in Nodes, {a, b} \in link', Announced(b, a) PROVE Announced(b, a)'
      <3>1. ~((b = n /\ a = m) \/ (b = m /\ a = n))
        BY <2>1, <2>4
      <3>2. chan'[<<b, a>>] = chan[<<b, a>>]
        BY <2>2, <3>1
      <3> QED
        BY <1>1, <2>4, <3>2 DEF Announced
    <2>5. Informed'
      BY <1>0, <1>1, <2>1, <2>4 DEF Informed
    <2> QED
      BY <1>2, <1>4, <2>3, <2>5 DEF GossipInv
  <1> QED
    BY <1>5, <1>6

LEMMA NewPeerKeeps ==
    ASSUME GossipInv, NEW n \in Nodes, NEW m \in Others(n), OnNewPeer(n, m)
    PROVE  GossipInv'
  <1>0. GossipTypes /\ Traffic /\ Dedup /\ Informed
    BY DEF GossipInv
  <1>1. /\ setup' = setup /\ Nodes' = Nodes /\ Stay' = Stay /\ m \in Nodes /\ m # n
        /\ UNCHANGED <<subscribed, subscribers, mesh, fanout, seen, history, chan, link, published, heard>>
    BY DEF OnNewPeer, topicVars, cacheVars, Nodes, Stay, Others
  <1>2. /\ "react" \in Threads /\ Idle(n, "react") /\ published \in Nat /\ Stay \in BOOLEAN /\ subscribed[n] \in BOOLEAN
    BY <1>0 DEF Threads, OnNewPeer, GossipTypes, Stay
  <1> DEFINE box == IF subscribed[n] THEN To({m}, Ctrl("SUBSCRIBE")) ELSE <<>>
  <1>3. /\ Outbox(n, "react", box)
        /\ up' \in [Nodes -> SUBSET Nodes]
        /\ \A a \in Nodes : up'[a] = IF a = n THEN up[a] \cup {m} ELSE up[a]
    BY <1>0, <1>1 DEF OnNewPeer, GossipTypes
  <1>4. box \in Seq(Boxes(Nodes, Says(n)'))
    <2>1. Says(n)' = SaysOf(Stay, subscribed[n], published)
      BY <1>1 DEF Says
    <2>2. subscribed[n] => Ctrl("SUBSCRIBE") \in Says(n)'
      BY <1>2, <2>1, ControlSaid
    <2>3. subscribed[n] => To({m}, Ctrl("SUBSCRIBE")) \in Seq(Boxes(Nodes, Says(n)'))
      BY <1>1, <2>2, ToTyped
    <2>4. <<>> \in Seq(Boxes(Nodes, Says(n)'))
      OBVIOUS
    <2> QED
      BY <2>3, <2>4
  <1>5. subscribed[n] => Holds(box, m)
    BY DEF Holds, To, Ctrl
  <1> HIDE DEF box
  <1>6. Fills(n, "react")
    BY <1>3, <1>4 DEF Fills
  <1>7. GossipTypes'
    BY <1>0, <1>1, <1>3 DEF GossipTypes
  <1>8. Grows
    BY <1>0, <1>1 DEF Grows, GossipTypes
  <1>9. Traffic'
    BY <1>0, <1>1, <1>2, <1>6, <1>8, OutKeeps, TrafficStep DEF Traffic
  <1>10. Dedup'
    BY <1>0, <1>1, DedupSame
  <1>11. ASSUME NEW a \in Nodes, NEW b \in Nodes, Announced(b, a) \/ (b = n /\ a = m /\ subscribed[n])
         PROVE  Announced(b, a)'
    <2>1. CASE Announced(b, a)
      <3>1. (\E u \in Threads : Holds(out[b][u], a)) => \E u \in Threads : Holds(out'[b][u], a)
        BY <1>0, <1>2, <1>6, OutKeeps
      <3> QED
        BY <1>1, <2>1, <3>1 DEF Announced
    <2>2. CASE b = n /\ a = m /\ subscribed[n]
      <3>1. out'[n]["react"] = box
        BY <1>0, <1>2, <1>3, OutboxSet
      <3>2. Holds(out'[b]["react"], a)
        BY <1>5, <2>2, <3>1
      <3> QED
        BY <1>2, <3>2 DEF Announced
    <2> QED
      BY <1>11, <2>1, <2>2
  <1>12. Informed'
    <2>1. \A a \in Nodes : subscribers'[a] \subseteq up'[a] /\ a \notin up'[a]
      BY <1>0, <1>1, <1>3 DEF Informed
    <2>2. Stay => \A a, b \in Nodes : {a, b} \in link' /\ a \in up'[b] /\ subscribed'[b] => Announced(b, a)'
      <3> SUFFICES ASSUME Stay, NEW a \in Nodes, NEW b \in Nodes, {a, b} \in link', a \in up'[b], subscribed'[b]
                   PROVE  Announced(b, a)'
        OBVIOUS
      <3>1. a \in up[b] \/ (b = n /\ a = m)
        BY <1>3
      <3>2. a \in up[b] => Announced(b, a)
        BY <1>0, <1>1 DEF Informed
      <3> QED
        BY <1>1, <1>11, <3>1, <3>2
    <2> QED
      BY <1>0, <1>1, <2>1, <2>2 DEF Informed
  <1> QED
    BY <1>7, <1>9, <1>10, <1>12 DEF GossipInv

LEMMA PeerGoneKeeps ==
    ASSUME GossipInv, NEW n \in Nodes, NEW m \in Others(n), OnPeerGone(n, m)
    PROVE  GossipInv'
  <1>0. GossipTypes /\ Traffic /\ Dedup /\ Informed
    BY DEF GossipInv
  <1>1. /\ setup' = setup /\ Nodes' = Nodes /\ Stay' = Stay /\ m \in Nodes /\ {n, m} \notin link
        /\ UNCHANGED <<subscribed, seen, history, out, chan, link, published, heard>>
    BY DEF OnPeerGone, cacheVars, Nodes, Stay, Others
  <1>2. /\ up' \in [Nodes -> SUBSET Nodes] /\ subscribers' \in [Nodes -> SUBSET Nodes]
        /\ mesh' \in [Nodes -> SUBSET Nodes] /\ fanout' \in [Nodes -> SUBSET Nodes]
        /\ \A a \in Nodes : up'[a] = IF a = n THEN up[a] \ {m} ELSE up[a]
        /\ \A a \in Nodes : subscribers'[a] = IF a = n THEN subscribers[a] \ {m} ELSE subscribers[a]
    BY <1>0 DEF OnPeerGone, GossipTypes
  <1>3. GossipTypes'
    BY <1>0, <1>1, <1>2 DEF GossipTypes
  <1>4. Grows
    BY <1>0, <1>1 DEF Grows, GossipTypes
  <1>5. Traffic'
    BY <1>0, <1>1, <1>4, TrafficStep DEF Traffic
  <1>6. Dedup'
    BY <1>0, <1>1, DedupSame
  <1>7. ASSUME NEW a \in Nodes, NEW b \in Nodes, {a, b} \in link, Announced(b, a) PROVE Announced(b, a)'
    <2>1. b \in subscribers[a] => b \in subscribers'[a]
      BY <1>1, <1>2, <1>7
    <2> QED
      BY <1>1, <1>7, <2>1 DEF Announced
  <1>8. Informed'
    <2>1. \A a \in Nodes : subscribers'[a] \subseteq up'[a] /\ a \notin up'[a]
      BY <1>0, <1>2 DEF Informed
    <2>2. \A a, b \in Nodes : a \in up'[b] => a \in up[b]
      BY <1>2
    <2> QED
      BY <1>0, <1>1, <1>2, <1>7, <2>1, <2>2 DEF Informed
  <1> QED
    BY <1>3, <1>5, <1>6, <1>8 DEF GossipInv

LEMMA GossipStep == GossipInv /\ [Next]_vars => GossipInv'
  <1> SUFFICES ASSUME GossipInv, [Next]_vars PROVE GossipInv'
    OBVIOUS
  <1>1. CASE UNCHANGED vars
    <2>0. GossipTypes /\ Traffic /\ Dedup /\ Informed
      BY DEF GossipInv
    <2>1. /\ setup' = setup /\ Nodes' = Nodes /\ Stay' = Stay
          /\ UNCHANGED <<subscribed, subscribers, mesh, fanout, seen, history, out, up, chan, link, published, heard>>
      BY <1>1 DEF vars, topicVars, cacheVars, netVars, Nodes, Stay
    <2>2. GossipTypes'
      BY <2>0, <2>1 DEF GossipTypes
    <2>3. Grows
      BY <2>0, <2>1 DEF Grows, GossipTypes
    <2>4. Traffic'
      BY <2>0, <2>1, <2>3, TrafficStep DEF Traffic
    <2>5. Dedup'
      BY <2>0, <2>1, DedupSame
    <2>6. \A a, b \in Nodes : Announced(b, a)' = Announced(b, a)
      BY <2>1 DEF Announced
    <2>7. Informed'
      BY <2>0, <2>1, <2>6 DEF Informed
    <2> QED
      BY <2>2, <2>4, <2>5, <2>7 DEF GossipInv
  <1>2. CASE Next
    BY <1>2, SubscribeKeeps, UnsubscribeKeeps, PublishKeeps, HeartbeatKeeps, ShiftKeeps, DispatchKeeps,
       DeliverKeeps, LinksKeep, NewPeerKeeps, PeerGoneKeeps DEF Next
  <1> QED
    BY <1>1, <1>2

-----------------------------------------------------------------------------
(* The results.                                                            *)

(* mark_seen: while there are no more messages than the ids it remembers,  *)
(* no handler gets a message twice, whatever meshes, gossip, resends, lost *)
(* connections and refusing validators do.                                 *)
THEOREM DeliversAtMostOnce ==
    ASSUME MaxMessages <= SeenLimit
    PROVE  Spec => []AtMostOnce
  <1>1. GossipInv => AtMostOnce
    BY DEF GossipInv, Dedup, Remembered, AtMostOnce
  <1> QED
    BY <1>1, GossipInit, GossipStep, PTL DEF Spec

(* on_new_peer and subscribe(): whatever the connections do meanwhile, a   *)
(* node whose peers have nothing left to say knows which of them           *)
(* subscribe, while nobody unsubscribes.                                   *)
THEOREM ViewsSettle == Spec => []ViewSettles
  <1>1. GossipInv => ViewSettles
    <2> SUFFICES ASSUME GossipInv, Quiet, Stay, NEW n \in Nodes
                 PROVE  subscribers[n] = {m \in up[n] : subscribed[m]}
      BY DEF ViewSettles, Stay
    <2>0. GossipTypes /\ Traffic /\ Informed
      BY DEF GossipInv
    <2>1. subscribers[n] \subseteq {m \in up[n] : subscribed[m]}
      BY <2>0 DEF Informed
    <2>2. ASSUME NEW m \in up[n], subscribed[m] PROVE m \in subscribers[n]
      <3>1. m \in Nodes
        BY <2>0 DEF GossipTypes
      <3>2. {n, m} \in link /\ {m, n} = {n, m}
        BY <3>1 DEF Quiet
      <3>3. n \in up[m]
        BY <3>1, <3>2 DEF Quiet
      <3>4. Announced(m, n)
        BY <2>0, <2>2, <3>1, <3>2, <3>3 DEF Informed
      <3>5. chan[<<m, n>>] = <<>> /\ \A t \in Threads : out[m][t] = <<>>
        BY <3>1 DEF Quiet, Quick, Idle
      <3> QED
        BY <3>4, <3>5 DEF Announced, Carries, Holds
    <2> QED
      BY <2>1, <2>2
  <1> QED
    BY <1>1, GossipInit, GossipStep, PTL DEF Spec

-----------------------------------------------------------------------------
(* Write tokens.                                                           *)

Issued == [token : [ip : {c.ip : c \in Senders}, hash : Hashes, secret : Nat], at : Nat]

TokenTypes ==
    /\ now \in Nat
    /\ secrets \in [initialized : BOOLEAN, secret : Nat, prev : Nat, at : Nat]
    /\ issued \subseteq Issued

(* The secret in use is the previous one or the next after it; it is used  *)
(* for less than the interval, and what bears an older one was issued      *)
(* before the last rotation, or before the one before that.                *)
Generations ==
    /\ secrets.at <= now
    /\ secrets.secret \in {secrets.prev, secrets.prev + 1}
    /\ \A i \in issued :
          LET g == i.token.secret IN
          /\ secrets.initialized /\ g <= secrets.secret /\ i.at <= now
          /\ i.at < secrets.at + kRotateInterval
          /\ g < secrets.secret => i.at < secrets.at
          /\ g < secrets.prev => i.at + kRotateInterval < secrets.at

TokenInv == TokenTypes /\ Generations

LEMMA TokenInit == NodeInit => TokenInv
  BY DEF NodeInit, TokenInv, TokenTypes, Generations, Issued

(* A call that may rotate the secret keeps every token in its generation.  *)
LEMMA RotationKeeps ==
    ASSUME TokenInv, NEW s, s = maybe_rotate(secrets)
    PROVE  /\ s \in [initialized : BOOLEAN, secret : Nat, prev : Nat, at : Nat]
           /\ s.initialized /\ s.at <= now /\ now < s.at + kRotateInterval
           /\ s.secret \in {s.prev, s.prev + 1}
           /\ \A i \in issued :
                 LET g == i.token.secret IN
                 /\ g <= s.secret /\ i.at <= now
                 /\ i.at < s.at + kRotateInterval
                 /\ g < s.secret => i.at < s.at
                 /\ g < s.prev => i.at + kRotateInterval < s.at
  <1> USE DhtNodeAssumption DEF TokenInv, TokenTypes, Generations, Issued
  <1>1. CASE ~secrets.initialized
    <2>1. issued = {}
      BY <1>1
    <2>2. s = [initialized |-> TRUE, secret |-> 1, prev |-> 1, at |-> now]
      BY <1>1 DEF maybe_rotate
    <2>3. s.initialized /\ s.at = now /\ s.secret = 1 /\ s.prev = 1
      BY ONLY <2>2, Zenon
    <2>4. s \in [initialized : BOOLEAN, secret : Nat, prev : Nat, at : Nat]
      BY <2>2
    <2>5. now \in Nat /\ kRotateInterval \in Nat \ {0}
      OBVIOUS
    <2>6. s.at <= now /\ now < s.at + kRotateInterval /\ s.secret \in {s.prev, s.prev + 1}
      BY ONLY <2>3, <2>5
    <2> QED
      BY ONLY <2>1, <2>3, <2>4, <2>6, Zenon
  <1>2. CASE secrets.initialized /\ now - secrets.at >= kRotateInterval
    <2>1. s = [initialized |-> TRUE, secret |-> secrets.secret + 1, prev |-> secrets.secret, at |-> now]
      BY <1>2 DEF maybe_rotate
    <2>2. s \in [initialized : BOOLEAN, secret : Nat, prev : Nat, at : Nat]
      BY <2>1
    <2>5. s.initialized /\ s.at = now /\ s.prev = secrets.secret /\ s.secret = secrets.secret + 1
      BY ONLY <2>1, Zenon
    <2>3. s.initialized /\ s.at <= now /\ now < s.at + kRotateInterval /\ s.secret \in {s.prev, s.prev + 1}
      BY <1>2, <2>2, <2>5
    <2>4. ASSUME NEW i \in issued
          PROVE  LET g == i.token.secret IN
                 /\ g <= s.secret /\ i.at <= now
                 /\ i.at < s.at + kRotateInterval
                 /\ g < s.secret => i.at < s.at
                 /\ g < s.prev => i.at + kRotateInterval < s.at
      <3>1. i.at \in Nat /\ i.token.secret \in Nat
        OBVIOUS
      <3> QED
        BY <1>2, <2>2, <2>5, <3>1
    <2> QED
      BY <2>2, <2>3, <2>4
  <1>3. CASE secrets.initialized /\ ~(now - secrets.at >= kRotateInterval)
    BY <1>3 DEF maybe_rotate
  <1> QED
    BY <1>1, <1>2, <1>3

LEMMA TokenStep == TokenInv /\ [NodeNext]_nodeVars => TokenInv'
  <1> SUFFICES ASSUME TokenInv, [NodeNext]_nodeVars PROVE TokenInv'
    OBVIOUS
  <1>1. ASSUME UNCHANGED <<now, secrets, issued>> PROVE TokenInv'
    BY <1>1 DEF TokenInv, TokenTypes, Generations, Issued
  <1>2. ASSUME NEW c \in Senders, NEW h \in Hashes, GetPeers(c, h) PROVE TokenInv'
    <2> DEFINE s == maybe_rotate(secrets)
               new == [token |-> compute(c.ip, h, s.secret), at |-> now]
    <2>1. now' = now /\ secrets' = s /\ issued' = issued \cup {new}
      BY <1>2 DEF GetPeers, Answered, Arrives
    <2>2. new \in Issued /\ new.token.secret = s.secret /\ new.at = now
      BY RotationKeeps DEF Issued, compute, TokenInv, TokenTypes
    <2> HIDE DEF s, new
    <2>3. TokenTypes'
      BY <2>1, <2>2, RotationKeeps DEF TokenInv, TokenTypes, s
    <2>4. Generations'
      BY <2>1, <2>2, RotationKeeps DEF Generations, TokenInv, TokenTypes, s
    <2> QED
      BY <2>3, <2>4 DEF TokenInv
  <1>3. ASSUME NEW c \in Senders, NEW h \in Hashes, NEW i \in issued, AnnouncePeer(c, h, i.token, c.port) PROVE TokenInv'
    <2> DEFINE s == maybe_rotate(secrets)
    <2>1. now' = now /\ secrets' \in {secrets, s} /\ issued' = issued
      BY <1>3 DEF AnnouncePeer, Answered, Arrives
    <2>2. CASE secrets' = secrets
      BY <1>1, <2>1, <2>2
    <2>3. CASE secrets' = s
      <3> HIDE DEF s
      <3> QED
        BY <2>1, <2>3, RotationKeeps DEF Generations, TokenInv, TokenTypes, s
    <2> QED
      BY <2>1, <2>2, <2>3
  <1>4. ASSUME tick PROVE TokenInv'
    BY <1>4 DEF tick, TokenInv, TokenTypes, Generations, Issued
  <1>5. CASE UNCHANGED nodeVars
    BY <1>1, <1>5 DEF nodeVars
  <1>6. ASSUME NEW c \in Senders,
               \/ DroppedByGuard(c) \/ Ignored(c) \/ PingOrFindNode(c) \/ PingTimeout(c) \/ spider_walk(c)
               \/ \E ip \in OurIps : Told(c, ip)
               \/ \E id \in {d.id : d \in Senders}, rtt \in RttSamples : PingReply(c, id, rtt)
        PROVE TokenInv'
    BY <1>1, <1>6 DEF DroppedByGuard, Ignored, PingOrFindNode, PingTimeout, spider_walk, Told, PingReply,
                      Answered, Arrives, serverVars
  <1>7. ASSUME (\E ip \in OurIps : SetExternal(ip)) \/ (\E mode, ignore \in BOOLEAN : SetSpider(mode, ignore))
        PROVE TokenInv'
    BY <1>1, <1>7 DEF SetExternal, SetSpider, serverVars
  <1> QED
    BY <1>2, <1>3, <1>4, <1>5, <1>6, <1>7 DEF NodeNext

(* TokenManager: whoever got a token can announce with it for the whole    *)
(* interval, however often secrets are rotated meanwhile and whatever else *)
(* arrives, for any interval and any senders.                              *)
THEOREM TokensLast == NodeSpec => []TokensHonoured
  <1>1. ASSUME TokenInv PROVE TokensHonoured
    <2> SUFFICES ASSUME NEW i \in issued, now - i.at <= kRotateInterval
                 PROVE  verify(maybe_rotate(secrets), i.token.ip, i.token.hash, i.token)
      BY DEF TokensHonoured
    <2> DEFINE s == maybe_rotate(secrets)
    <2>1. i.token = compute(i.token.ip, i.token.hash, i.token.secret) /\ i.at \in Nat /\ i.token.secret \in Nat
      BY <1>1 DEF TokenInv, TokenTypes, Issued, compute
    <2>2. s.secret \in Nat /\ s.prev \in Nat /\ s.at \in Nat /\ now \in Nat /\ s.at <= now /\ s.secret \in {s.prev, s.prev + 1}
      BY <1>1, RotationKeeps DEF TokenInv, TokenTypes
    <2>3. i.token.secret <= s.secret /\ i.at <= now /\ (i.token.secret < s.prev => i.at + kRotateInterval < s.at)
      BY <1>1, RotationKeeps
    <2> HIDE DEF s
    <2>4. i.token.secret \in {s.prev, s.secret}
      BY <2>1, <2>2, <2>3, DhtNodeAssumption
    <2> QED
      BY <2>1, <2>4 DEF verify, s
  <1> QED
    BY <1>1, TokenInit, TokenStep, PTL DEF NodeSpec

-----------------------------------------------------------------------------
(* The BitTorrent session.                                                 *)

(* The session b: what its fields are.                                     *)
PeerMarks == [known : BOOLEAN, connected : BOOLEAN, connecting : BOOLEAN, fails : Nat]
SocketStates == [st : {"free", "pending", "conn", "closed"}, out : BOOLEAN, addr : Addrs \cup {None}, obs : Nat, done : BOOLEAN]
SessionTypes(b) ==
    /\ {"torrent", "made", "list", "members", "socks"} \subseteq DOMAIN b
    /\ b.torrent \in Nat /\ b.made \in Nat
    /\ b.list \in [Addrs -> PeerMarks]
    /\ b.socks \in [Sockets -> SocketStates]

(* A dial under way is outgoing and before its handshake; a connection     *)
(* that reports to nobody came in, and has no place in the list.           *)
WayIn(b) ==
    \A s \in Sockets :
        /\ b.socks[s].st = "pending" => b.socks[s].out /\ ~b.socks[s].done
        /\ b.socks[s].st = "conn" /\ b.socks[s].obs = 0 => ~b.socks[s].out /\ b.socks[s].addr = None

ReportsTo(b) == \A s \in Sockets : b.socks[s].st = "conn" => b.socks[s].obs \in {0, b.torrent}
MembersOpen(b) == \A s \in b.members : s \in Sockets /\ b.socks[s].st = "conn" /\ b.socks[s].obs # 0

(* Only a peer that is listed is marked.                                   *)
MarksListed(b) == \A a \in Addrs : b.list[a].connecting \/ b.list[a].connected => b.list[a].known
UnderWay(b, s) == b.socks[s].st = "pending" \/ (b.socks[s].st = "conn" /\ ~b.socks[s].done)
MarksBacked(b) ==
    b.torrent # 0 => \A a \in Addrs :
        /\ b.list[a].connecting => \E s \in Sockets : b.socks[s].addr = a /\ UnderWay(b, s)
        /\ b.list[a].connected => \E s \in b.members : b.socks[s].addr = a

SessionInv(b) == SessionTypes(b) /\ WayIn(b) /\ ReportsTo(b) /\ MembersOpen(b) /\ MarksListed(b) /\ MarksBacked(b)

ClientInv == SessionInv(bt)

LEMMA SessionImplies == ClientInv => NoDangling
  BY DEF ClientInv, SessionInv, SessionTypes, ReportsTo, MembersOpen, MarksBacked, UnderWay, NoDangling, Live, Is

LEMMA SessionStarts == ClientInit => ClientInv
<1>1. ASSUME ClientInit PROVE SessionTypes(bt)
  BY <1>1 DEF ClientInit, SessionTypes, PeerMarks, SocketStates, Unknown, FreeSocket
<1>2. ASSUME ClientInit
      PROVE WayIn(bt) /\ ReportsTo(bt) /\ MembersOpen(bt) /\ MarksListed(bt) /\ MarksBacked(bt)
  BY <1>2 DEF ClientInit, WayIn, ReportsTo, MembersOpen, MarksListed, MarksBacked, Unknown, FreeSocket
<1> QED
  BY <1>1, <1>2 DEF ClientInv, SessionInv

(* Steps that touch none of what the invariant speaks of.                  *)
Alike(b, c) ==
    /\ {"torrent", "made", "list", "members", "socks"} \subseteq DOMAIN c
    /\ c.torrent = b.torrent /\ c.made = b.made /\ c.list = b.list /\ c.members = b.members /\ c.socks = b.socks

LEMMA AlikeKeeps ==
  ASSUME NEW b, NEW c, SessionInv(b), Alike(b, c) PROVE SessionInv(c)
  BY DEF SessionInv, SessionTypes, WayIn, ReportsTo, MembersOpen, MarksListed, MarksBacked, UnderWay, Alike

LEMMA AddKeeps ==
  ASSUME NEW b, NEW a \in Addrs, SessionInv(b) PROVE SessionInv(add(b, a))
<1> DEFINE c == add(b, a)
<1>1. SessionTypes(c) /\ c.torrent = b.torrent /\ c.members = b.members /\ c.socks = b.socks
  BY DEF SessionInv, SessionTypes, add, PeerMarks
<1>2. \A x \in Addrs : /\ c.list[x].connecting => b.list[x].connecting
                       /\ c.list[x].connected => b.list[x].connected
                       /\ b.list[x].known => c.list[x].known
  BY DEF SessionInv, SessionTypes, add, PeerMarks
<1>3. SessionInv(c)
  <2> HIDE DEF c
  <2> QED
    BY <1>1, <1>2 DEF SessionInv, WayIn, ReportsTo, MembersOpen, MarksListed, MarksBacked, UnderWay
<1> QED
  BY <1>3

(* Those in S are closed, and what is marked for them is cleared.          *)
ClosedIn(b, c, S) ==
    /\ SessionTypes(c) /\ c.torrent = b.torrent
    /\ \A s \in Sockets : s \notin S => c.socks[s] = b.socks[s]
    /\ \A s \in S : c.socks[s].st = "closed"
    /\ \A s \in c.members : s \in b.members /\ s \notin S
    /\ \A s \in b.members : s \notin S => s \in c.members
    /\ \A a \in Addrs :
          /\ b.list[a].known => c.list[a].known
          /\ c.list[a].connecting => b.list[a].connecting
          /\ c.list[a].connected => b.list[a].connected
          /\ \A s \in S : b.socks[s].obs # 0 /\ b.socks[s].addr = a => ~c.list[a].connecting /\ ~c.list[a].connected

LEMMA ClosedInKeeps ==
  ASSUME NEW b, NEW c, NEW S \in SUBSET Sockets, SessionInv(b), ClosedIn(b, c, S),
         \A s \in S : b.socks[s].st = "conn"
  PROVE  SessionInv(c)
<1>1. WayIn(c) /\ ReportsTo(c) /\ MembersOpen(c)
  BY DEF SessionInv, SessionTypes, WayIn, ReportsTo, MembersOpen, ClosedIn, SocketStates
<1>2. MarksListed(c)
  BY DEF SessionInv, MarksListed, ClosedIn
<1>3. ASSUME c.torrent # 0, NEW a \in Addrs, c.list[a].connecting
      PROVE  \E s \in Sockets : c.socks[s].addr = a /\ UnderWay(c, s)
  <2>1. PICK s \in Sockets : b.socks[s].addr = a /\ UnderWay(b, s)
    BY <1>3 DEF SessionInv, MarksBacked, ClosedIn
  <2>2. s \notin S
    <3> SUFFICES ASSUME s \in S PROVE FALSE
      OBVIOUS
    <3>1. b.socks[s].obs = 0
      BY <1>3, <2>1 DEF ClosedIn
    <3> QED
      BY <3>1, <2>1, ClientAssumption DEF SessionInv, WayIn
  <2> QED
    BY <2>1, <2>2 DEF ClosedIn, UnderWay
<1>4. ASSUME c.torrent # 0, NEW a \in Addrs, c.list[a].connected
      PROVE  \E s \in c.members : c.socks[s].addr = a
  <2>1. PICK s \in b.members : b.socks[s].addr = a
    BY <1>4 DEF SessionInv, MarksBacked, ClosedIn
  <2>2. s \notin S
    BY <1>4, <2>1 DEF ClosedIn, SessionInv, MembersOpen
  <2> QED
    BY <2>1, <2>2 DEF ClosedIn, SessionInv, MembersOpen
<1> QED
  BY <1>1, <1>2, <1>3, <1>4 DEF SessionInv, MarksBacked, ClosedIn

(* What set_connected does to the list, when the peer is in it.            *)
LEMMA SetConnectedMarks ==
  ASSUME NEW d, SessionTypes(d), NEW x, Listed(d, x), NEW on \in BOOLEAN, NEW e, e = set_connected(d, x, on)
  PROVE  /\ SessionTypes(e) /\ e.torrent = d.torrent /\ e.members = d.members /\ e.socks = d.socks
         /\ (e.list[x].connected => on) /\ ~e.list[x].connecting /\ (d.list[x].known => e.list[x].known)
         /\ \A a \in Addrs : a # x => e.list[a] = d.list[a]
<1> DEFINE p == d.list[x]
           m == [p EXCEPT !.connected = on, !.connecting = FALSE, !.fails = IF on THEN 0 ELSE @]
<1>1. x \in Addrs /\ p \in PeerMarks
  BY DEF Listed, SessionTypes
<1>2. m \in PeerMarks /\ m.connected = on /\ m.connecting = FALSE /\ m.known = p.known
  <2> HIDE DEF p
  <2> QED
    BY <1>1 DEF PeerMarks
<1>3. e = [d EXCEPT !.list = [d.list EXCEPT ![x] = m]]
  BY <1>1 DEF set_connected, Listed, SessionTypes, PeerMarks
<1> HIDE DEF m
<1>4. e.list = [d.list EXCEPT ![x] = m] /\ e.torrent = d.torrent /\ e.made = d.made /\ e.members = d.members /\ e.socks = d.socks
      /\ DOMAIN e = DOMAIN d
  BY <1>3 DEF SessionTypes
<1> QED
  BY <1>1, <1>2, <1>4 DEF SessionTypes

LEMMA CloseClosed ==
  ASSUME NEW b, SessionTypes(b), MembersOpen(b), MarksListed(b), NEW s \in Sockets PROVE ClosedIn(b, close(b, s), {s})
<1> DEFINE c == [b EXCEPT !.socks[s].st = "closed"]
<1>0. SessionTypes(c) /\ c.torrent = b.torrent /\ c.list = b.list /\ c.members = b.members /\ c.socks[s].st = "closed"
      /\ c.socks[s].addr = b.socks[s].addr /\ \A r \in Sockets : r # s => c.socks[r] = b.socks[r]
  BY DEF SessionTypes, SocketStates
<1>1. CASE b.socks[s].obs = 0
  <2>1. close(b, s) = c
    BY <1>1 DEF close
  <2>2. s \notin b.members
    BY <1>1 DEF MembersOpen
  <2> HIDE DEF c
  <2> QED
    BY <1>0, <1>1, <2>1, <2>2 DEF ClosedIn
<1>2. CASE b.socks[s].obs # 0
  <2> DEFINE d == [c EXCEPT !.members = @ \ {s}]
             e == set_connected(d, c.socks[s].addr, FALSE)
  <2>1. close(b, s) = e
    BY <1>2 DEF close, on_closed
  <2>2. SessionTypes(d) /\ d.torrent = b.torrent /\ d.list = b.list /\ d.members = b.members \ {s} /\ d.socks = c.socks
    <3> HIDE DEF c
    <3> QED
      BY <1>0 DEF SessionTypes
  <2> DEFINE x == b.socks[s].addr
  <2>3. e = set_connected(d, x, FALSE)
    <3> HIDE DEF c, d
    <3> QED
      BY <1>0
  <2> HIDE DEF c, d, e, x
  <2>4. CASE Listed(d, x)
    <3>1. x \in Addrs
      BY <2>4 DEF Listed
    <3>no. PICK no \in BOOLEAN : e = set_connected(d, x, no) /\ ~no
      BY <2>3, Zenon
    <3>2. /\ SessionTypes(e) /\ e.torrent = d.torrent /\ e.members = d.members /\ e.socks = d.socks
          /\ ~e.list[x].connected /\ ~e.list[x].connecting /\ (d.list[x].known => e.list[x].known)
          /\ \A a \in Addrs : a # x => e.list[a] = d.list[a]
      BY <2>2, <2>4, <3>no, SetConnectedMarks
    <3>3. \A a \in Addrs : /\ b.list[a].known => e.list[a].known
                           /\ e.list[a].connecting => a # x /\ b.list[a].connecting
                           /\ e.list[a].connected => a # x /\ b.list[a].connected
      BY <2>2, <3>2
    <3> QED
      BY <1>0, <2>1, <2>2, <3>2, <3>3 DEF ClosedIn, x
  <2>5. CASE ~Listed(d, x)
    <3>1. e = d
      BY <2>3, <2>5 DEF set_connected
    <3>2. x \in Addrs => ~b.list[x].connecting /\ ~b.list[x].connected
      BY <2>2, <2>5 DEF Listed, MarksListed
    <3> QED
      BY <1>0, <2>1, <2>2, <3>1, <3>2 DEF ClosedIn, x
  <2> QED
    BY <2>4, <2>5
<1> QED
  BY <1>1, <1>2

LEMMA CloseKeeps ==
  ASSUME NEW b, NEW s \in Sockets, SessionInv(b), b.socks[s].st = "conn" PROVE SessionInv(close(b, s))
<1> DEFINE S == {s}
<1>1. S \in SUBSET Sockets /\ \A r \in S : b.socks[r].st = "conn"
  OBVIOUS
<1>2. ClosedIn(b, close(b, s), S)
  BY CloseClosed DEF SessionInv
<1> HIDE DEF S
<1> QED
  BY <1>1, <1>2, ClosedInKeeps

LEMMA CloseAllKeeps ==
  ASSUME NEW b, SessionInv(b), NEW S \in SUBSET Sockets, \A s \in S : b.socks[s].st = "conn"
  PROVE  SessionInv(CloseAll(b, S)) /\ ClosedIn(b, CloseAll(b, S), S)
<1> DEFINE bound == {s \in S : b.socks[s].obs # 0}
           gone == {b.socks[s].addr : s \in bound}
           K == [s \in Sockets |-> IF s \in S THEN [b.socks[s] EXCEPT !.st = "closed"] ELSE b.socks[s]]
           L == [a \in Addrs |-> IF a \in gone /\ b.list[a].known
                                  THEN [b.list[a] EXCEPT !.connected = FALSE, !.connecting = FALSE] ELSE b.list[a]]
           c == CloseAll(b, S)
<1>1. /\ "list" \in DOMAIN c /\ "socks" \in DOMAIN c /\ "torrent" \in DOMAIN c /\ "made" \in DOMAIN c /\ "members" \in DOMAIN c
      /\ c.torrent = b.torrent /\ c.made = b.made /\ c.list = L /\ c.socks = K /\ c.members = b.members \ bound
  <2> HIDE DEF bound, gone, K, L
  <2>1. c = [b EXCEPT !.socks = K, !.members = @ \ bound, !.list = L]
    BY DEF CloseAll, bound, gone, K, L
  <2> HIDE DEF c
  <2> QED
    BY <2>1 DEF SessionInv, SessionTypes
<1>2. K \in [Sockets -> SocketStates] /\ \A s \in Sockets : s \in S => K[s].st = "closed"
  BY DEF SessionInv, SessionTypes, SocketStates
<1>3. \A s \in Sockets : s \notin S => K[s] = b.socks[s]
  OBVIOUS
<1>4. L \in [Addrs -> PeerMarks]
  <2> HIDE DEF gone
  <2> QED
    BY DEF SessionInv, SessionTypes, PeerMarks
<1>5. \A a \in Addrs : /\ L[a].known = b.list[a].known
                       /\ L[a].connecting => b.list[a].connecting /\ a \notin gone
                       /\ L[a].connected => b.list[a].connected /\ a \notin gone
  <2> HIDE DEF gone
  <2> QED
    BY DEF SessionInv, SessionTypes, PeerMarks, MarksListed
<1>6. \A s \in S : b.socks[s].obs # 0 => b.socks[s].addr \in gone
  OBVIOUS
<1>7. \A s \in b.members : s \in S => s \in bound
  BY DEF SessionInv, MembersOpen
<1>8. bound \subseteq S
  OBVIOUS
<1> HIDE DEF bound, gone, K, L, c
<1>9. ClosedIn(b, c, S)
  BY <1>1, <1>2, <1>3, <1>4, <1>5, <1>6, <1>7, <1>8 DEF ClosedIn, SessionInv, SessionTypes
<1> QED
  BY <1>9, ClosedInKeeps DEF c

(* Closing all members leaves none.                                        *)
LEMMA MembersClosed ==
  ASSUME NEW b, SessionInv(b), NEW c, c = CloseAll(b, b.members)
  PROVE  SessionInv(c) /\ c.members = {} /\ c.torrent = b.torrent
<1>1. b.members \in SUBSET Sockets /\ \A s \in b.members : b.socks[s].st = "conn"
  BY DEF SessionInv, MembersOpen
<1>2. SessionInv(c) /\ ClosedIn(b, c, b.members)
  BY <1>1, CloseAllKeeps
<1> QED
  BY <1>2 DEF ClosedIn

LEMMA PauseKeeps ==
  ASSUME NEW b, SessionInv(b) PROVE SessionInv(pause(b))
<1>1. CASE b.paused
  BY <1>1 DEF pause
<1>2. CASE ~b.paused
  <2> DEFINE c == CloseAll(b, b.members)
             d == [c EXCEPT !.paused = TRUE, !.members = {}]
  <2>1. SessionInv(c) /\ c.members = {}
    <3> HIDE DEF c
    <3> QED
      BY MembersClosed DEF c
  <2>2. pause(b) = d
    BY <1>2 DEF pause
  <2>3. Alike(c, d)
    <3> HIDE DEF c
    <3> QED
      BY <2>1 DEF SessionInv, SessionTypes, Alike
  <2> HIDE DEF c, d
  <2> QED
    BY <2>1, <2>2, <2>3, AlikeKeeps
<1> QED
  BY <1>1, <1>2

LEMMA StopKeeps ==
  ASSUME NEW b, SessionInv(b)
  PROVE  SessionInv(TorrentStop(b)) /\ TorrentStop(b).members = {} /\ TorrentStop(b).torrent = b.torrent
<1> DEFINE a == [b EXCEPT !.announcing = @ \ {b.torrent}]
           c == CloseAll(a, b.members)
           d == [c EXCEPT !.members = {}]
<1>1. Alike(b, a)
  BY DEF SessionInv, SessionTypes, Alike
<1>2. a.members = b.members /\ a.torrent = b.torrent
  BY <1>1 DEF Alike
<1>3. TorrentStop(b) = d
  BY DEF TorrentStop
<1> HIDE DEF a
<1>4. c = CloseAll(a, a.members)
  BY <1>2
<1> HIDE DEF c
<1>5. SessionInv(a)
  BY <1>1, AlikeKeeps
<1>6. SessionInv(c) /\ c.members = {} /\ c.torrent = b.torrent
  BY <1>2, <1>4, <1>5, MembersClosed
<1>7. Alike(c, d)
  BY <1>6 DEF SessionInv, SessionTypes, Alike
<1> HIDE DEF d
<1> QED
  BY <1>3, <1>6, <1>7, AlikeKeeps DEF Alike

(* A torrent is erased when no connection reports to it.                   *)
LEMMA ErasedKeeps ==
  ASSUME NEW b, SessionInv(b), b.members = {}, \A s \in Sockets : b.socks[s].st = "conn" => b.socks[s].obs = 0
  PROVE  SessionInv(Erased(b))
<1> DEFINE c == Erased(b)
<1>1. /\ {"torrent", "made", "list", "members", "socks"} \subseteq DOMAIN c
      /\ c.torrent = 0 /\ c.made = b.made /\ c.list = b.list /\ c.members = b.members /\ c.socks = b.socks
  BY DEF SessionInv, SessionTypes, Erased
<1> HIDE DEF c
<1>2. SessionInv(c)
  BY <1>1 DEF SessionInv, SessionTypes, WayIn, ReportsTo, MembersOpen, MarksListed, MarksBacked
<1> QED
  BY <1>2 DEF c

LEMMA RemoveKeeps ==
  ASSUME NEW b, SessionInv(b) PROVE SessionInv(remove_torrent(b))
<1>1. CASE b.torrent = 0
  BY <1>1 DEF remove_torrent
<1>2. CASE b.torrent # 0
  <2> DEFINE t == TorrentStop(b)
             S == Bound(t)
             c == CloseAll(t, S)
  <2>1. remove_torrent(b) = Erased(c)
    BY <1>2 DEF remove_torrent
  <2>2. SessionInv(t) /\ t.members = {}
    BY StopKeeps
  <2> HIDE DEF t
  <2>3. S \in SUBSET Sockets /\ \A s \in S : t.socks[s].st = "conn"
    BY DEF Bound, Live, Is
  <2>4. \A s \in Sockets : t.socks[s].st = "conn" /\ s \notin S => t.socks[s].obs = 0
    BY DEF Bound, Live, Is
  <2> HIDE DEF S
  <2>5. SessionInv(c) /\ ClosedIn(t, c, S)
    BY <2>2, <2>3, CloseAllKeeps
  <2> HIDE DEF c
  <2>6. c.members = {} /\ \A s \in Sockets : c.socks[s].st = "conn" => c.socks[s].obs = 0
    BY <2>2, <2>4, <2>5 DEF ClosedIn
  <2> QED
    BY <2>1, <2>5, <2>6, ErasedKeeps
<1> QED
  BY <1>1, <1>2 DEF SessionInv, SessionTypes

(* A new torrent object starts with an empty list and no members; no       *)
(* connection reports to an object before.                                 *)
LEMMA AddTorrentKeeps ==
  ASSUME NEW b, SessionInv(b), NEW who, NEW complete PROVE SessionInv(add_torrent(b, who, complete))
<1>1. CASE b.torrent # 0
  BY <1>1 DEF add_torrent
<1>2. CASE b.torrent = 0
  <2> DEFINE c == add_torrent(b, who, complete)
             L == [a \in Addrs |-> Unknown]
  <2>1. /\ {"torrent", "made", "list", "members", "socks"} \subseteq DOMAIN c
        /\ c.torrent = b.made + 1 /\ c.made = b.made + 1 /\ c.list = L /\ c.members = {} /\ c.socks = b.socks
    BY <1>2 DEF SessionInv, SessionTypes, add_torrent
  <2>2. L \in [Addrs -> PeerMarks] /\ \A a \in Addrs : ~L[a].connecting /\ ~L[a].connected
    BY DEF Unknown, PeerMarks
  <2> HIDE DEF c, L
  <2>3. SessionTypes(c)
    BY <2>1, <2>2 DEF SessionInv, SessionTypes
  <2>4. WayIn(c) /\ MembersOpen(c) /\ MarksListed(c) /\ MarksBacked(c)
    BY <2>1, <2>2 DEF SessionInv, WayIn, MembersOpen, MarksListed, MarksBacked
  <2>5. ReportsTo(c)
    BY <2>1, <1>2 DEF SessionInv, ReportsTo
  <2> QED
    BY <2>3, <2>4, <2>5 DEF SessionInv, c
<1> QED
  BY <1>1, <1>2

(* What becomes of a peer's marks when it is dialled, or a dial fails.     *)
LEMMA MarksOf ==
  ASSUME NEW p \in PeerMarks
  PROVE  /\ [p EXCEPT !.connecting = TRUE] \in PeerMarks
         /\ [p EXCEPT !.fails = @ + 1] \in PeerMarks
         /\ [p EXCEPT !.connecting = FALSE, !.fails = @ + 1] \in PeerMarks
<1>1. p.fails + 1 \in Nat
  BY DEF PeerMarks
<1> DEFINE n == p.fails + 1
<1> HIDE DEF n
<1>2. n \in Nat
  BY <1>1 DEF n
<1>3. /\ [p EXCEPT !.connecting = TRUE] \in PeerMarks
      /\ [p EXCEPT !.fails = n] \in PeerMarks
      /\ [p EXCEPT !.connecting = FALSE, !.fails = n] \in PeerMarks
  BY <1>2 DEF PeerMarks
<1> QED
  BY <1>3 DEF n

(* Dials take free sockets, for peers that are listed.                     *)
LEMMA DialledKeeps ==
  ASSUME NEW b, SessionInv(b), NEW C \in SUBSET Addrs, \A a \in C : b.list[a].known,
         NEW S \in SUBSET Free(b), NEW f \in [S -> C]
  PROVE  SessionInv(Dialled(b, C, f))
<1> DEFINE called == {f[s] : s \in DOMAIN f}
           K == [s \in Sockets |-> IF s \in DOMAIN f THEN Dialling(f[s]) ELSE b.socks[s]]
           L == [a \in Addrs |-> IF a \in called THEN [b.list[a] EXCEPT !.connecting = TRUE]
                                 ELSE IF a \in C THEN [b.list[a] EXCEPT !.fails = @ + 1] ELSE b.list[a]]
           c == Dialled(b, C, f)
<1>0. DOMAIN f = S /\ S \subseteq Sockets /\ \A s \in S : b.socks[s].st = "free" /\ f[s] \in C
  BY DEF Free, Is
<1>1. /\ {"torrent", "made", "list", "members", "socks"} \subseteq DOMAIN c
      /\ c.torrent = b.torrent /\ c.made = b.made /\ c.list = L /\ c.socks = K /\ c.members = b.members
  <2> HIDE DEF called, K, L
  <2>1. c = [b EXCEPT !.socks = K, !.list = L]
    BY DEF Dialled, called, K, L
  <2> HIDE DEF c
  <2> QED
    BY <2>1 DEF SessionInv, SessionTypes
<1>2. \A a \in C : /\ Dialling(a) \in SocketStates /\ Dialling(a).st = "pending" /\ Dialling(a).out
                   /\ Dialling(a).addr = a /\ ~Dialling(a).done
  BY DEF Dialling, FreeSocket, SocketStates
<1>3. K \in [Sockets -> SocketStates] /\ \A s \in Sockets : s \notin S => K[s] = b.socks[s]
  BY <1>0, <1>2 DEF SessionInv, SessionTypes
<1>4. \A s \in S : K[s] = Dialling(f[s])
  BY <1>0
<1>5. \A a \in Addrs : a \in called => \E s \in S : f[s] = a
  BY <1>0
<1>6. called \subseteq C
  BY <1>0
<1>7. L \in [Addrs -> PeerMarks]
  <2> HIDE DEF called
  <2>1. \A a \in Addrs : b.list[a] \in PeerMarks
    BY DEF SessionInv, SessionTypes
  <2>2. \A a \in Addrs : L[a] \in PeerMarks
    BY <2>1, MarksOf
  <2> QED
    BY <2>2
<1>8. \A a \in Addrs : /\ b.list[a].known => L[a].known
                       /\ L[a].connecting => a \in called \/ b.list[a].connecting
                       /\ L[a].connected => b.list[a].connected
  <2> HIDE DEF called
  <2> QED
    BY DEF SessionInv, SessionTypes, PeerMarks
<1> HIDE DEF called, K, L, c
<1>9. SessionTypes(c)
  BY <1>1, <1>3, <1>7 DEF SessionInv, SessionTypes
<1>10. WayIn(c)
  BY <1>0, <1>1, <1>2, <1>3, <1>4 DEF SessionInv, WayIn
<1>11. ReportsTo(c)
  BY <1>0, <1>1, <1>2, <1>3, <1>4 DEF SessionInv, ReportsTo
<1>12. \A s \in b.members : s \in Sockets /\ s \notin S
  BY <1>0 DEF SessionInv, MembersOpen
<1>13. MembersOpen(c)
  BY <1>1, <1>3, <1>12 DEF SessionInv, MembersOpen
<1>14. MarksListed(c)
  BY <1>1, <1>6, <1>8 DEF SessionInv, MarksListed
<1>15. ASSUME c.torrent # 0, NEW a \in Addrs, c.list[a].connecting
       PROVE  \E s \in Sockets : c.socks[s].addr = a /\ UnderWay(c, s)
  <2>1. CASE a \in called
    BY <2>1, <1>0, <1>1, <1>2, <1>4, <1>5 DEF UnderWay
  <2>2. CASE b.list[a].connecting
    <3>1. PICK s \in Sockets : b.socks[s].addr = a /\ UnderWay(b, s)
      BY <1>1, <1>15, <2>2 DEF SessionInv, MarksBacked
    <3>2. s \notin S
      BY <1>0, <3>1 DEF UnderWay
    <3> QED
      BY <1>1, <1>3, <3>1, <3>2 DEF UnderWay
  <2> QED
    BY <1>1, <1>8, <1>15, <2>1, <2>2
<1>16. ASSUME c.torrent # 0, NEW a \in Addrs, c.list[a].connected
       PROVE  \E s \in c.members : c.socks[s].addr = a
  BY <1>1, <1>3, <1>8, <1>12, <1>16 DEF SessionInv, MarksBacked
<1>17. MarksBacked(c)
  BY <1>15, <1>16 DEF MarksBacked
<1> QED
  BY <1>9, <1>10, <1>11, <1>13, <1>14, <1>17 DEF SessionInv, c

LEMMA TryConnectKeeps ==
  ASSUME NEW b, SessionInv(b), NEW c \in try_connect(b) PROVE SessionInv(c)
<1>1. CASE c = b
  BY <1>1
<1>2. CASE c # b
  <2>1. PICK C \in connect_candidates(b, kMaxPeers - Cardinality(b.members)) : c \in connect_peers(b, C)
    BY <1>2 DEF try_connect
  <2>2. C \in SUBSET Addrs /\ \A a \in C : b.list[a].known
    BY <2>1 DEF connect_candidates, eligible
  <2> DEFINE room == IF Cardinality(Connections(b)) >= kMaxConnections THEN {} ELSE Free(b)
  <2>3. room \in SUBSET Free(b) /\ \E f \in Dials(room, C) : c = Dialled(b, C, f)
    BY <2>1 DEF connect_peers
  <2> HIDE DEF room
  <2>4. PICK f \in Dials(room, C) : c = Dialled(b, C, f)
    BY <2>3
  <2>5. PICK S \in SUBSET room : f \in [S -> C]
    BY <2>4 DEF Dials
  <2> QED
    BY <2>2, <2>3, <2>4, <2>5, DialledKeeps
<1> QED
  BY <1>1, <1>2

(* A dial that ends without a connection.                                  *)
LEMMA ConnectFailedKeeps ==
  ASSUME NEW b, SessionInv(b), NEW s \in Sockets, b.socks[s].st = "pending" PROVE SessionInv(ConnectFailed(b, s))
<1> DEFINE c == [b EXCEPT !.socks[s] = FreeSocket]
           e == ConnectFailed(b, s)
           x == b.socks[s].addr
<1>1. /\ SessionTypes(c) /\ c.torrent = b.torrent /\ c.list = b.list /\ c.members = b.members
      /\ c.socks[s] = FreeSocket /\ \A r \in Sockets : r # s => c.socks[r] = b.socks[r]
  BY DEF SessionInv, SessionTypes, SocketStates, FreeSocket
<1>2. e = IF b.torrent = 0 THEN c ELSE on_connect_failed(c, x)
  BY DEF ConnectFailed
<1>3. FreeSocket.st = "free"
  BY DEF FreeSocket
<1> HIDE DEF c, e
<1>4. /\ SessionTypes(e) /\ e.torrent = b.torrent /\ e.members = b.members /\ e.socks = c.socks
      /\ \A a \in Addrs : /\ b.list[a].known => e.list[a].known
                          /\ e.list[a].connecting => b.list[a].connecting
                          /\ e.list[a].connected => b.list[a].connected
                          /\ e.torrent # 0 /\ e.list[a].connecting => a # x
  <2>1. CASE b.torrent = 0
    BY <1>1, <1>2, <2>1
  <2>2. CASE b.torrent # 0 /\ ~Listed(c, x)
    <3>1. e = c
      BY <1>2, <2>2 DEF on_connect_failed
    <3>2. \A a \in Addrs : a = x => ~b.list[a].connecting
      BY <1>1, <2>2 DEF Listed, SessionInv, MarksListed
    <3> QED
      BY <1>1, <3>1, <3>2
  <2>3. CASE b.torrent # 0 /\ Listed(c, x)
    <3> HIDE DEF x
    <3> DEFINE p == c.list[x]
               m == [p EXCEPT !.connecting = FALSE, !.fails = @ + 1]
    <3>1. x \in Addrs /\ p \in PeerMarks
      BY <1>1, <2>3 DEF Listed, SessionTypes
    <3>m. m \in PeerMarks
      BY <3>1, MarksOf
    <3>2. ~m.connecting /\ (m.connected => p.connected) /\ (p.known => m.known)
      <4> HIDE DEF p
      <4> QED
        BY <3>1 DEF PeerMarks
    <3>3. e = [c EXCEPT !.list = [c.list EXCEPT ![x] = m]]
      BY <1>1, <1>2, <2>3, <3>1 DEF on_connect_failed, SessionTypes, PeerMarks
    <3> HIDE DEF m
    <3>4. /\ e.list = [c.list EXCEPT ![x] = m] /\ e.torrent = c.torrent /\ e.made = c.made
          /\ e.members = c.members /\ e.socks = c.socks /\ DOMAIN e = DOMAIN c
      BY <1>1, <3>3 DEF SessionTypes
    <3>5. SessionTypes(e)
      BY <1>1, <3>1, <3>m, <3>4 DEF SessionTypes
    <3>6. e.list[x] = m /\ \A a \in Addrs : a # x => e.list[a] = b.list[a]
      BY <1>1, <3>1, <3>4 DEF SessionTypes
    <3> QED
      BY <1>1, <3>2, <3>4, <3>5, <3>6
  <2> QED
    BY <2>1, <2>2, <2>3
<1>5. WayIn(e) /\ ReportsTo(e) /\ MembersOpen(e) /\ MarksListed(e)
  BY <1>1, <1>3, <1>4 DEF SessionInv, WayIn, ReportsTo, MembersOpen, MarksListed
<1>6. MarksBacked(e)
  BY <1>1, <1>3, <1>4 DEF SessionInv, MembersOpen, MarksBacked, UnderWay
<1> QED
  BY <1>4, <1>5, <1>6 DEF SessionInv, e

(* The handshake of s is done, and one that came in may report by now.     *)
Shaken(a, b, s) ==
    /\ SessionTypes(b) /\ b.torrent = a.torrent /\ b.list = a.list /\ b.members = a.members
    /\ \A r \in Sockets : r # s => b.socks[r] = a.socks[r]
    /\ b.socks[s].st = "conn" /\ b.socks[s].addr = a.socks[s].addr /\ b.socks[s].obs \in {0, b.torrent}
    /\ a.socks[s].obs # 0 => b.socks[s].obs # 0

LEMMA ShakenCloses ==
  ASSUME NEW a, NEW b, NEW s \in Sockets, SessionInv(a), a.socks[s].st = "conn", Shaken(a, b, s)
  PROVE  SessionInv(close(b, s))
<1> DEFINE S == {s}
           c == close(b, s)
<1>1. S \in SUBSET Sockets /\ \A r \in S : a.socks[r].st = "conn"
  OBVIOUS
<1>2. MembersOpen(b) /\ MarksListed(b)
  BY DEF Shaken, SessionInv, MembersOpen, MarksListed
<1>3. ClosedIn(b, c, S)
  BY <1>2, CloseClosed DEF Shaken
<1>4. s \in S /\ \A r \in S : r = s
  OBVIOUS
<1> HIDE DEF S, c
<1>5. ClosedIn(a, c, S)
  <2>1. SessionTypes(c) /\ c.torrent = a.torrent /\ \A r \in S : c.socks[r].st = "closed"
    BY <1>3 DEF ClosedIn, Shaken
  <2>2. \A r \in Sockets : r \notin S => c.socks[r] = a.socks[r]
    BY <1>3, <1>4 DEF ClosedIn, Shaken
  <2>3. (\A r \in c.members : r \in a.members /\ r \notin S) /\ (\A r \in a.members : r \notin S => r \in c.members)
    BY <1>3 DEF ClosedIn, Shaken
  <2>4. \A p \in Addrs : /\ a.list[p].known => c.list[p].known
                         /\ c.list[p].connecting => a.list[p].connecting
                         /\ c.list[p].connected => a.list[p].connected
    BY <1>3 DEF ClosedIn, Shaken
  <2>5. \A p \in Addrs : \A r \in S : a.socks[r].obs # 0 /\ a.socks[r].addr = p => ~c.list[p].connecting /\ ~c.list[p].connected
    <3>1. \A p \in Addrs : b.socks[s].obs # 0 /\ b.socks[s].addr = p => ~c.list[p].connecting /\ ~c.list[p].connected
      BY <1>3, <1>4 DEF ClosedIn
    <3> QED
      BY <3>1, <1>4 DEF Shaken
  <2> QED
    BY <2>1, <2>2, <2>3, <2>4, <2>5 DEF ClosedIn
<1>6. SessionInv(c)
  BY <1>1, <1>5, ClosedInKeeps
<1> QED
  BY <1>6 DEF c

LEMMA ShakenJoins ==
  ASSUME NEW a, NEW b, NEW s \in Sockets, SessionInv(a), a.socks[s].st = "conn", Shaken(a, b, s), b.socks[s].obs # 0
  PROVE  SessionInv(set_connected([b EXCEPT !.members = @ \cup {s}], b.socks[s].addr, TRUE))
<1> DEFINE d == [b EXCEPT !.members = @ \cup {s}]
           x == b.socks[s].addr
           e == set_connected(d, x, TRUE)
<1>1. SessionTypes(d) /\ d.torrent = a.torrent /\ d.list = a.list /\ d.members = a.members \cup {s} /\ d.socks = b.socks
  BY DEF Shaken, SessionTypes
<1>yes. \E yes \in BOOLEAN : e = set_connected(d, x, yes)
  <2> HIDE DEF d, x
  <2> QED
    BY Zenon
<1> HIDE DEF d, x, e
<1>2. /\ SessionTypes(e) /\ e.torrent = a.torrent /\ e.members = d.members /\ e.socks = b.socks
      /\ \A p \in Addrs : /\ a.list[p].known => e.list[p].known
                          /\ p # x => e.list[p] = a.list[p]
                          /\ p = x => ~e.list[p].connecting /\ (e.list[p].connected => e.list[p].known)
  <2>1. CASE Listed(d, x)
    <3>1. PICK yes \in BOOLEAN : e = set_connected(d, x, yes)
      BY <1>yes
    <3>2. /\ SessionTypes(e) /\ e.torrent = d.torrent /\ e.members = d.members /\ e.socks = d.socks
          /\ ~e.list[x].connecting /\ (d.list[x].known => e.list[x].known)
          /\ \A p \in Addrs : p # x => e.list[p] = d.list[p]
      BY <1>1, <2>1, <3>1, SetConnectedMarks
    <3> QED
      BY <1>1, <2>1, <3>2 DEF Listed
  <2>2. CASE ~Listed(d, x)
    <3>1. e = d
      BY <2>2 DEF set_connected, e
    <3>2. \A p \in Addrs : p = x => ~a.list[p].connecting /\ ~a.list[p].connected
      BY <1>1, <2>2 DEF Listed, SessionInv, MarksListed
    <3> QED
      BY <1>1, <3>1, <3>2
  <2> QED
    BY <2>1, <2>2
<1>3. \A r \in e.members : r \in a.members \/ r = s
  BY <1>1, <1>2
<1>4. s \in e.members /\ \A r \in a.members : r \in e.members
  BY <1>1, <1>2
<1>5. WayIn(e) /\ ReportsTo(e)
  BY <1>2 DEF Shaken, SessionInv, WayIn, ReportsTo
<1>6. MembersOpen(e)
  BY <1>2, <1>3 DEF Shaken, SessionInv, MembersOpen
<1>7. MarksListed(e)
  BY <1>2 DEF SessionInv, MarksListed
<1>8. ASSUME e.torrent # 0, NEW p \in Addrs, e.list[p].connecting
      PROVE  \E r \in Sockets : e.socks[r].addr = p /\ UnderWay(e, r)
  <2>1. p # x /\ a.list[p].connecting
    BY <1>2, <1>8
  <2>2. PICK r \in Sockets : a.socks[r].addr = p /\ UnderWay(a, r)
    BY <1>2, <1>8, <2>1 DEF SessionInv, MarksBacked
  <2>3. r # s
    BY <2>1, <2>2 DEF Shaken, x
  <2> QED
    BY <1>2, <2>2, <2>3 DEF Shaken, UnderWay
<1>9. ASSUME e.torrent # 0, NEW p \in Addrs, e.list[p].connected
      PROVE  \E r \in e.members : e.socks[r].addr = p
  <2>1. CASE p = x
    BY <1>2, <1>4, <2>1 DEF x
  <2>2. CASE p # x
    <3>1. PICK r \in a.members : a.socks[r].addr = p
      BY <1>2, <1>9, <2>2 DEF SessionInv, MarksBacked
    <3> QED
      BY <1>2, <1>4, <2>2, <3>1 DEF Shaken, SessionInv, MembersOpen, x
  <2> QED
    BY <2>1, <2>2
<1>10. MarksBacked(e)
  BY <1>8, <1>9 DEF MarksBacked
<1> QED
  BY <1>2, <1>5, <1>6, <1>7, <1>10 DEF SessionInv, e, d, x

LEMMA OnHandshakeKeeps ==
  ASSUME NEW a, NEW b, NEW s \in Sockets, SessionInv(a), a.socks[s].st = "conn", Shaken(a, b, s), b.socks[s].obs # 0
  PROVE  SessionInv(on_handshake(b, s))
  BY ShakenCloses, ShakenJoins DEF on_handshake

LEMMA ResumeKeeps ==
  ASSUME NEW b, SessionInv(b), NEW c \in resume(b) PROVE SessionInv(c)
<1> DEFINE d == [b EXCEPT !.paused = FALSE, !.announcing = @ \cup {b.torrent}]
<1>1. Alike(b, d)
  BY DEF SessionInv, SessionTypes, Alike
<1>2. c = b \/ c \in try_connect(d)
  BY DEF resume
<1> HIDE DEF d
<1> QED
  BY <1>1, <1>2, AlikeKeeps, TryConnectKeeps

(* What add does, then dial.                                               *)
LEMMA NamedKeeps ==
  ASSUME NEW b, SessionInv(b), NEW a \in Addrs, NEW c \in try_connect(add(b, a)) PROVE SessionInv(c)
  BY AddKeeps, TryConnectKeeps

LEMMA AddMagnetKeeps ==
  ASSUME NEW b, SessionInv(b), NEW f, NEW a \in Addrs \cup {None}, NEW c \in AddMagnet(b, f, a) PROVE SessionInv(c)
<1> DEFINE u == add_torrent(b, "fetch", FALSE)
           t == [u EXCEPT !.callback = f]
<1>1. SessionInv(u)
  BY AddTorrentKeeps
<1>2. c \in IF a = None \/ Listed(t, a) THEN {t} ELSE try_connect(add(t, a))
  BY DEF AddMagnet
<1> HIDE DEF u
<1>3. Alike(u, t)
  BY <1>1 DEF SessionInv, SessionTypes, Alike
<1> HIDE DEF t
<1>4. SessionInv(t)
  BY <1>1, <1>3, AlikeKeeps
<1> QED
  BY <1>2, <1>4, NamedKeeps

-----------------------------------------------------------------------------
(* One lemma per action.                                                   *)

LEMMA AddTorrentStep == ClientInv /\ AddTorrent => ClientInv'
<1> SUFFICES ASSUME ClientInv, AddTorrent PROVE SessionInv(bt')
  BY DEF ClientInv
<1> DEFINE c == add_torrent(bt, "app", TRUE)
<1>1. SessionInv(c)
  BY AddTorrentKeeps DEF ClientInv
<1>2. bt' = [c EXCEPT !.owner = "app"]
  BY DEF AddTorrent
<1> HIDE DEF c
<1>3. Alike(c, bt')
  BY <1>1, <1>2 DEF SessionInv, SessionTypes, Alike
<1> QED
  BY <1>1, <1>3, AlikeKeeps

LEMMA RemoveTorrentStep == ClientInv /\ RemoveTorrent => ClientInv'
  BY RemoveKeeps DEF ClientInv, RemoveTorrent

LEMMA PauseStep == ClientInv /\ PauseTorrent => ClientInv'
<1> SUFFICES ASSUME ClientInv, PauseTorrent PROVE SessionInv(bt')
  BY DEF ClientInv
<1> DEFINE c == pause(bt)
<1>1. SessionInv(c)
  BY PauseKeeps DEF ClientInv
<1>2. bt' = [c EXCEPT !.mishaps = @ + 1]
  BY DEF PauseTorrent
<1> HIDE DEF c
<1>3. Alike(c, bt')
  BY <1>1, <1>2 DEF SessionInv, SessionTypes, Alike
<1> QED
  BY <1>1, <1>3, AlikeKeeps

LEMMA ResumeStep == ClientInv /\ ResumeTorrent => ClientInv'
  BY ResumeKeeps DEF ClientInv, ResumeTorrent

LEMMA TickStep == ClientInv /\ Tick => ClientInv'
<1> SUFFICES ASSUME ClientInv, Tick PROVE SessionInv(bt')
  BY DEF ClientInv
<1> DEFINE c == [bt EXCEPT !.asked = @ \cup {bt.torrent}]
<1>1. Alike(bt, c)
  BY DEF ClientInv, SessionInv, SessionTypes, Alike
<1>2. bt' \in try_connect(c)
  BY DEF Tick
<1> HIDE DEF c
<1> QED
  BY <1>1, <1>2, AlikeKeeps, TryConnectKeeps DEF ClientInv

LEMMA AnswersStep ==
  ASSUME ClientInv, NEW a \in Addrs, RunAnswer(a) \/ DhtAnswers(a) PROVE ClientInv'
<1> SUFFICES SessionInv(bt')
  BY DEF ClientInv
<1>2. ASSUME NEW c, Alike(bt, c), bt' = c \/ bt' \in try_connect(add(c, a)) PROVE SessionInv(bt')
  <2>1. SessionInv(c)
    BY <1>2, AlikeKeeps DEF ClientInv
  <2> QED
    BY <1>2, <2>1, NamedKeeps
<1>3. ASSUME RunAnswer(a) PROVE SessionInv(bt')
  <2>1. PICK g \in bt.posted :
          bt' \in IF g = [bt EXCEPT !.posted = @ \ {g}].torrent /\ ~Listed([bt EXCEPT !.posted = @ \ {g}], a)
                  THEN try_connect(add([bt EXCEPT !.posted = @ \ {g}], a)) ELSE {[bt EXCEPT !.posted = @ \ {g}]}
    BY <1>3 DEF RunAnswer
  <2> DEFINE c == [bt EXCEPT !.posted = @ \ {g}]
  <2>2. Alike(bt, c)
    BY DEF ClientInv, SessionInv, SessionTypes, Alike
  <2>3. bt' = c \/ bt' \in try_connect(add(c, a))
    BY <2>1
  <2> HIDE DEF c
  <2> QED
    BY <1>2, <2>2, <2>3
<1>4. ASSUME DhtAnswers(a) PROVE SessionInv(bt')
  <2>1. PICK g \in bt.asked :
          bt' \in IF g = [bt EXCEPT !.asked = @ \ {g}].torrent /\ ~Listed([bt EXCEPT !.asked = @ \ {g}], a)
                  THEN try_connect(add([bt EXCEPT !.asked = @ \ {g}], a)) ELSE {[bt EXCEPT !.asked = @ \ {g}]}
    BY <1>4 DEF DhtAnswers
  <2> DEFINE c == [bt EXCEPT !.asked = @ \ {g}]
  <2>2. Alike(bt, c)
    BY DEF ClientInv, SessionInv, SessionTypes, Alike
  <2>3. bt' = c \/ bt' \in try_connect(add(c, a))
    BY <2>1
  <2> HIDE DEF c
  <2> QED
    BY <1>2, <2>2, <2>3
<1> QED
  BY <1>3, <1>4

LEMMA ConnectEndsStep ==
  ASSUME ClientInv, NEW s \in Sockets, ConnectEnds(s, TRUE) \/ ConnectEnds(s, FALSE) PROVE ClientInv'
<1> SUFFICES SessionInv(bt')
  BY DEF ClientInv
<1>1. ASSUME NEW b, Alike(bt, b), bt' = ConnectFailed(b, s), Is(bt, s, "pending") PROVE SessionInv(bt')
  <2>1. SessionInv(b) /\ b.socks[s].st = "pending"
    BY <1>1, AlikeKeeps DEF ClientInv, Alike, Is
  <2> QED
    BY <1>1, <2>1, ConnectFailedKeeps
<1>2. ASSUME bt.torrent # 0, Is(bt, s, "pending"), bt' = [bt EXCEPT !.socks[s].st = "conn", !.socks[s].obs = bt.torrent]
      PROVE  SessionInv(bt')
  <2> DEFINE c == bt'
             k == [bt.socks[s] EXCEPT !.st = "conn", !.obs = bt.torrent]
  <2>1. bt.socks[s] \in SocketStates /\ bt.socks[s].st = "pending" /\ bt.torrent \in Nat
    BY <1>2 DEF ClientInv, SessionInv, SessionTypes, Is
  <2>2. /\ k \in SocketStates /\ k.st = "conn" /\ k.obs = bt.torrent /\ k.addr = bt.socks[s].addr
        /\ k.done = bt.socks[s].done
    BY <2>1 DEF SocketStates
  <2>3. c = [bt EXCEPT !.socks = [bt.socks EXCEPT ![s] = k]]
    BY <1>2 DEF ClientInv, SessionInv, SessionTypes, SocketStates
  <2> HIDE DEF c, k
  <2>4. /\ c.socks = [bt.socks EXCEPT ![s] = k] /\ c.torrent = bt.torrent /\ c.made = bt.made /\ c.list = bt.list
        /\ c.members = bt.members /\ DOMAIN c = DOMAIN bt
    BY <2>3 DEF ClientInv, SessionInv, SessionTypes
  <2>5. SessionTypes(c) /\ c.socks[s] = k /\ \A r \in Sockets : r # s => c.socks[r] = bt.socks[r]
    BY <2>2, <2>4 DEF ClientInv, SessionInv, SessionTypes
  <2>6. WayIn(c) /\ ReportsTo(c) /\ MarksListed(c)
    BY <1>2, <2>2, <2>4, <2>5 DEF ClientInv, SessionInv, WayIn, ReportsTo, MarksListed
  <2>7. MembersOpen(c)
    BY <1>2, <2>2, <2>4, <2>5 DEF ClientInv, SessionInv, MembersOpen
  <2>8. ~bt.socks[s].done
    BY <2>1 DEF ClientInv, SessionInv, WayIn
  <2>9. \A r \in Sockets : c.socks[r].addr = bt.socks[r].addr /\ (UnderWay(bt, r) => UnderWay(c, r))
    BY <2>2, <2>5, <2>8 DEF UnderWay
  <2>10. MarksBacked(c)
    BY <2>4, <2>9 DEF ClientInv, SessionInv, MarksBacked, MembersOpen
  <2> QED
    BY <2>5, <2>6, <2>7, <2>10 DEF SessionInv, c
<1>3. ASSUME ConnectEnds(s, TRUE) PROVE SessionInv(bt')
  <2>1. Alike(bt, bt)
    BY DEF Alike, ClientInv, SessionInv, SessionTypes
  <2> QED
    BY <1>1, <1>2, <1>3, <2>1 DEF ConnectEnds
<1>4. ASSUME ConnectEnds(s, FALSE) PROVE SessionInv(bt')
  <2> DEFINE b == [bt EXCEPT !.mishaps = @ + 1]
  <2>1. Alike(bt, b)
    BY DEF Alike, ClientInv, SessionInv, SessionTypes
  <2>2. bt' = ConnectFailed(b, s) /\ Is(bt, s, "pending")
    BY <1>4 DEF ConnectEnds
  <2> HIDE DEF b
  <2> QED
    BY <1>1, <2>1, <2>2
<1> QED
  BY <1>3, <1>4

LEMMA AcceptStep == ClientInv /\ AcceptPeer => ClientInv'
<1> SUFFICES ASSUME ClientInv, AcceptPeer PROVE SessionInv(bt')
  BY DEF ClientInv
<1> DEFINE k == [FreeSocket EXCEPT !.st = "conn"]
<1>1. PICK s \in Sockets : bt.socks[s].st = "free" /\ bt' = [bt EXCEPT !.socks[s] = k]
  BY DEF AcceptPeer, Free, Is
<1>2. k \in SocketStates /\ k.st = "conn" /\ k.obs = 0 /\ ~k.out /\ k.addr = None
  BY DEF FreeSocket, SocketStates
<1> HIDE DEF k
<1> DEFINE c == bt'
<1>3. /\ c.socks = [bt.socks EXCEPT ![s] = k] /\ c.torrent = bt.torrent /\ c.made = bt.made /\ c.list = bt.list
      /\ c.members = bt.members /\ DOMAIN c = DOMAIN bt
  BY <1>1 DEF ClientInv, SessionInv, SessionTypes
<1> HIDE DEF c
<1>4. SessionTypes(c) /\ c.socks[s] = k /\ \A r \in Sockets : r # s => c.socks[r] = bt.socks[r]
  BY <1>2, <1>3 DEF ClientInv, SessionInv, SessionTypes
<1>5. WayIn(c) /\ ReportsTo(c) /\ MarksListed(c)
  BY <1>2, <1>3, <1>4 DEF ClientInv, SessionInv, WayIn, ReportsTo, MarksListed
<1>6. MembersOpen(c)
  BY <1>1, <1>3, <1>4 DEF ClientInv, SessionInv, MembersOpen
<1>7. \A r \in Sockets : UnderWay(bt, r) => r # s
  BY <1>1 DEF UnderWay
<1>8. MarksBacked(c)
  BY <1>1, <1>3, <1>4, <1>7 DEF ClientInv, SessionInv, MarksBacked, MembersOpen, UnderWay
<1> QED
  BY <1>4, <1>5, <1>6, <1>8 DEF SessionInv, c

LEMMA ReapStep == ClientInv /\ reap_closed => ClientInv'
<1> SUFFICES ASSUME ClientInv, reap_closed PROVE SessionInv(bt')
  BY DEF ClientInv
<1> DEFINE K == [s \in Sockets |-> IF Is(bt, s, "closed") THEN FreeSocket ELSE bt.socks[s]]
           c == bt'
<1>1. c = [bt EXCEPT !.socks = K]
  BY DEF reap_closed
<1>2. FreeSocket \in SocketStates /\ FreeSocket.st = "free"
  BY DEF FreeSocket, SocketStates
<1>3. K \in [Sockets -> SocketStates] /\ \A s \in Sockets : K[s].st = "free" \/ K[s] = bt.socks[s]
  BY <1>2 DEF ClientInv, SessionInv, SessionTypes
<1>4. \A s \in Sockets : bt.socks[s].st # "closed" => K[s] = bt.socks[s]
  BY DEF Is
<1> HIDE DEF K, c
<1>5. /\ c.socks = K /\ c.torrent = bt.torrent /\ c.made = bt.made /\ c.list = bt.list
      /\ c.members = bt.members /\ DOMAIN c = DOMAIN bt
  BY <1>1 DEF ClientInv, SessionInv, SessionTypes
<1>6. SessionTypes(c)
  BY <1>3, <1>5 DEF ClientInv, SessionInv, SessionTypes
<1>7. WayIn(c) /\ ReportsTo(c) /\ MarksListed(c)
  BY <1>3, <1>5 DEF ClientInv, SessionInv, WayIn, ReportsTo, MarksListed
<1>8. MembersOpen(c)
  BY <1>4, <1>5 DEF ClientInv, SessionInv, MembersOpen
<1>9. MarksBacked(c)
  BY <1>4, <1>5 DEF ClientInv, SessionInv, MarksBacked, MembersOpen, UnderWay
<1> QED
  BY <1>6, <1>7, <1>8, <1>9 DEF SessionInv, c

LEMMA HandshakeStep ==
  ASSUME ClientInv, NEW s \in Sockets, Handshake(s) PROVE ClientInv'
<1> SUFFICES SessionInv(bt')
  BY DEF ClientInv
<1> DEFINE b == [bt EXCEPT !.socks[s].done = TRUE]
           d == [b EXCEPT !.socks[s].obs = b.torrent]
<1>1. bt.socks[s].st = "conn" /\ bt.socks[s] \in SocketStates /\ SessionInv(bt)
  BY DEF Handshake, Is, ClientInv, SessionInv, SessionTypes
<1>2. SessionTypes(b) /\ b.torrent = bt.torrent /\ b.list = bt.list /\ b.members = bt.members
  BY <1>1 DEF SessionInv, SessionTypes, SocketStates
<1>3. /\ \A r \in Sockets : r # s => b.socks[r] = bt.socks[r]
      /\ b.socks[s].st = "conn" /\ b.socks[s].addr = bt.socks[s].addr /\ b.socks[s].obs = bt.socks[s].obs
      /\ b.socks[s].out = bt.socks[s].out
  BY <1>1 DEF SessionInv, SessionTypes, SocketStates
<1>4. Shaken(bt, b, s)
  <2> HIDE DEF b
  <2> QED
    BY <1>1, <1>2, <1>3 DEF Shaken, SessionInv, ReportsTo
<1>5. bt' = IF b.socks[s].out THEN on_handshake(b, s)
            ELSE IF b.torrent = 0 THEN close(b, s) ELSE on_handshake(d, s)
  BY DEF Handshake
<1> HIDE DEF b
<1>6. CASE b.socks[s].out
  <2>1. b.socks[s].obs # 0
    BY <1>1, <1>3, <1>6 DEF SessionInv, WayIn
  <2> QED
    BY <1>1, <1>4, <1>5, <1>6, <2>1, OnHandshakeKeeps
<1>7. CASE ~b.socks[s].out /\ b.torrent = 0
  BY <1>1, <1>4, <1>5, <1>7, ShakenCloses
<1>8. CASE ~b.socks[s].out /\ b.torrent # 0
  <2>1. SessionTypes(d) /\ d.torrent = b.torrent /\ d.list = b.list /\ d.members = b.members
    BY <1>2 DEF SessionTypes, SocketStates
  <2>2. /\ \A r \in Sockets : r # s => d.socks[r] = b.socks[r]
        /\ d.socks[s].st = b.socks[s].st /\ d.socks[s].addr = b.socks[s].addr /\ d.socks[s].obs = b.torrent
    BY <1>2 DEF SessionTypes, SocketStates
  <2> HIDE DEF d
  <2>3. Shaken(bt, d, s) /\ d.socks[s].obs # 0
    BY <1>2, <1>3, <1>8, <2>1, <2>2 DEF Shaken
  <2> QED
    BY <1>1, <1>5, <1>8, <2>3, OnHandshakeKeeps
<1> QED
  BY <1>6, <1>7, <1>8

LEMMA DropsStep ==
  ASSUME ClientInv, NEW s \in Sockets, Drops(s) PROVE ClientInv'
<1> SUFFICES SessionInv(bt')
  BY DEF ClientInv
<1> DEFINE c == close(bt, s)
<1>1. SessionInv(c)
  BY CloseKeeps DEF ClientInv, Drops, Is
<1>2. bt' = [c EXCEPT !.mishaps = @ + 1]
  BY DEF Drops
<1> HIDE DEF c
<1>3. Alike(c, bt')
  BY <1>1, <1>2 DEF SessionInv, SessionTypes, Alike
<1> QED
  BY <1>1, <1>3, AlikeKeeps

LEMMA FetchStep ==
  ASSUME ClientInv, NEW f \in Fetches, NEW a \in Addrs \cup {None},
         FetchStarts(f) \/ FetchEnds(f) \/ FetchRemoves(f) \/ FetchTask(f, a) \/ FetchLateTask(f, a)
  PROVE  ClientInv'
<1> SUFFICES SessionInv(bt')
  BY DEF ClientInv
<1>1. ASSUME FetchStarts(f) \/ FetchEnds(f) PROVE SessionInv(bt')
  <2>1. Alike(bt, bt')
    BY <1>1 DEF FetchStarts, FetchEnds, ClientInv, SessionInv, SessionTypes, Alike
  <2> QED
    BY <2>1, AlikeKeeps DEF ClientInv
<1>2. ASSUME NEW b, SessionInv(b), NEW st, bt' = [b EXCEPT !.fetch[f] = st] PROVE SessionInv(bt')
  <2>1. Alike(b, bt')
    BY <1>2 DEF SessionInv, SessionTypes, Alike
  <2> QED
    BY <1>2, <2>1, AlikeKeeps
<1>3. ASSUME FetchRemoves(f) PROVE SessionInv(bt')
  <2>1. SessionInv(remove_torrent(bt))
    BY RemoveKeeps DEF ClientInv
  <2> QED
    BY <1>2, <1>3, <2>1 DEF FetchRemoves
<1>4. ASSUME FetchTask(f, a) \/ FetchLateTask(f, a) PROVE SessionInv(bt')
  <2>1. PICK b \in AddMagnet(bt, f, a) : bt' = [b EXCEPT !.fetch[f] = "waiting"] \/ bt' = [b EXCEPT !.fetch[f] = "removing"]
    BY <1>4 DEF FetchTask, FetchLateTask
  <2>2. SessionInv(b)
    BY AddMagnetKeeps DEF ClientInv
  <2> QED
    BY <1>2, <2>1, <2>2
<1> QED
  BY <1>1, <1>3, <1>4

LEMMA MetadataStep == ClientInv /\ (MetadataArrives \/ StopBegins) => ClientInv'
<1> SUFFICES ASSUME ClientInv, MetadataArrives \/ StopBegins PROVE SessionInv(bt')
  BY DEF ClientInv
<1>1. Alike(bt, bt')
  BY DEF MetadataArrives, StopBegins, ClientInv, SessionInv, SessionTypes, Alike
<1> QED
  BY <1>1, AlikeKeeps DEF ClientInv

LEMMA ClientStopStep == ClientInv /\ ClientStop => ClientInv'
<1> SUFFICES ASSUME ClientInv, ClientStop PROVE SessionInv(bt')
  BY DEF ClientInv
<1> DEFINE t == IF bt.torrent = 0 THEN bt ELSE Erased(TorrentStop(bt))
           K == [s \in Sockets |-> FreeSocket]
           c == bt'
<1>1. c = [t EXCEPT !.open = FALSE, !.socks = K, !.members = {}]
  BY DEF ClientStop
<1>2. SessionTypes(t) /\ t.torrent = 0 /\ MarksListed(t)
  <2>1. CASE bt.torrent = 0
    BY <2>1 DEF ClientInv, SessionInv
  <2>2. CASE bt.torrent # 0
    <3>1. SessionInv(TorrentStop(bt))
      BY StopKeeps DEF ClientInv
    <3>2. SessionTypes(Erased(TorrentStop(bt))) /\ Erased(TorrentStop(bt)).torrent = 0
          /\ Erased(TorrentStop(bt)).list = TorrentStop(bt).list
      BY <3>1 DEF SessionInv, SessionTypes, Erased
    <3> QED
      BY <2>2, <3>1, <3>2 DEF SessionInv, MarksListed
  <2> QED
    BY <2>1, <2>2
<1>3. K \in [Sockets -> SocketStates] /\ \A s \in Sockets : K[s].st = "free"
  BY DEF FreeSocket, SocketStates
<1> HIDE DEF t, K, c
<1>4. /\ c.socks = K /\ c.torrent = 0 /\ c.made = t.made /\ c.list = t.list /\ c.members = {} /\ DOMAIN c = DOMAIN t
  BY <1>1, <1>2 DEF SessionTypes
<1>5. SessionTypes(c)
  BY <1>2, <1>3, <1>4 DEF SessionTypes
<1> QED
  BY <1>2, <1>3, <1>4, <1>5 DEF SessionInv, WayIn, ReportsTo, MembersOpen, MarksListed, MarksBacked, c

LEMMA ClientStep == ClientInv /\ [ClientNext]_bt => ClientInv'
<1> SUFFICES ASSUME ClientInv, [ClientNext]_bt PROVE ClientInv'
  OBVIOUS
<1>1. CASE bt' = bt
  BY <1>1 DEF ClientInv
<1>2. CASE AddTorrent \/ RemoveTorrent \/ PauseTorrent \/ ResumeTorrent \/ Tick
  BY <1>2, AddTorrentStep, RemoveTorrentStep, PauseStep, ResumeStep, TickStep
<1>3. CASE TrackerAnswers
  <2>1. Alike(bt, bt')
    BY <1>3 DEF TrackerAnswers, ClientInv, SessionInv, SessionTypes, Alike
  <2> QED
    BY <2>1, AlikeKeeps DEF ClientInv
<1>4. CASE AcceptPeer \/ reap_closed
  BY <1>4, AcceptStep, ReapStep
<1>5. ASSUME NEW a \in Addrs, RunAnswer(a) \/ DhtAnswers(a) PROVE ClientInv'
  BY <1>5, AnswersStep
<1>6. ASSUME NEW s \in Sockets, ConnectEnds(s, TRUE) \/ ConnectEnds(s, FALSE) \/ Handshake(s) \/ Drops(s) PROVE ClientInv'
  BY <1>6, ConnectEndsStep, HandshakeStep, DropsStep
<1>7. ASSUME NEW f \in Fetches, FetchStarts(f) \/ FetchEnds(f) \/ FetchRemoves(f) PROVE ClientInv'
  <2>1. None \in Addrs \cup {None}
    OBVIOUS
  <2> QED
    BY <1>7, <2>1, FetchStep
<1>8. ASSUME NEW f \in Fetches, NEW a \in Addrs \cup {None}, FetchTask(f, a) \/ FetchLateTask(f, a) PROVE ClientInv'
  BY <1>8, FetchStep
<1>9. CASE MetadataArrives \/ StopBegins \/ ClientStop
  BY <1>9, MetadataStep, ClientStopStep
<1> QED
  BY <1>1, <1>2, <1>3, <1>4, <1>5, <1>6, <1>7, <1>8, <1>9 DEF ClientNext

(* The BitTorrent session never leaves anything dangling: an open          *)
(* connection reports to the torrent that exists or to none, the members   *)
(* are open, and every peer marked as being dialled or connected has a     *)
(* dial or a connection, whatever is removed, paused, dropped or refused   *)
(* meanwhile (client.cpp, torrent.cpp, peer_list.cpp).                     *)
THEOREM NothingDangles == ClientSpec => []NoDangling
  BY SessionStarts, ClientStep, SessionImplies, PTL DEF ClientSpec

-----------------------------------------------------------------------------
(* ReceiveBuffer.                                                          *)

(* The parameters of the buffers.                                          *)
BufferParameters ==
    /\ kMinCapacity \in Nat /\ kAllocGranularity \in Nat \ {0} /\ kUsageAverage \in Nat \ {0}
    /\ Reads \subseteq Nat

ReceiveTypes(r) ==
    /\ DOMAIN r = {"mem", "cap", "start", "end", "peak", "watermark", "received"}
    /\ r.mem \in Seq(Nat)
    /\ r.cap \in Nat /\ r.start \in Nat /\ r.end \in Nat /\ r.peak \in Nat /\ r.watermark \in Nat
    /\ r.start <= r.end /\ r.end <= Len(r.mem) /\ r.end <= r.cap

(* From the cursor on lie the bytes p+1, .., g.                            *)
HoldsBytes(r, p, g) ==
    /\ p \in Nat /\ g \in Nat
    /\ r.end - r.start = g - p
    /\ \A i \in 1 .. g - p : r.mem[r.start + i] = p + i

Receives(r, p, g) == ReceiveTypes(r) /\ HoldsBytes(r, p, g)

LEMMA RoundsUp ==
  ASSUME BufferParameters, NEW n \in Nat PROVE round_up(n) \in Nat /\ round_up(n) >= n
<1> DEFINE k == kAllocGranularity
           q == (n + k - 1) \div k
<1>1. k \in Nat /\ k > 0
  BY DEF BufferParameters
<1>2. q \in Nat /\ k * q <= n + k - 1 /\ n + k - 1 < k * q + k
  BY <1>1
<1>3. round_up(n) = q * k
  BY DEF round_up
<1> HIDE DEF q, k
<1>4. q * k = k * q /\ q * k \in Nat
  BY <1>1, <1>2
<1> QED
  BY <1>1, <1>2, <1>3, <1>4

LEMMA SliceOf ==
  ASSUME NEW s \in Seq(Nat), NEW m \in Nat, NEW n \in Nat, m <= n, n <= Len(s)
  PROVE  /\ SubSeq(s, m + 1, n) \in Seq(Nat) /\ Len(SubSeq(s, m + 1, n)) = n - m
         /\ \A i \in 1 .. n - m : SubSeq(s, m + 1, n)[i] = s[m + i]
<1>1. \A i \in (m + 1) .. n : s[i] \in Nat
  OBVIOUS
<1>2. /\ SubSeq(s, m + 1, n) \in Seq(Nat)
      /\ Len(SubSeq(s, m + 1, n)) = IF m + 1 <= n THEN n - (m + 1) + 1 ELSE 0
      /\ \A i \in 1 .. n - (m + 1) + 1 : SubSeq(s, m + 1, n)[i] = s[(m + 1) + i - 1]
  BY <1>1, SubSeqProperties
<1> QED
  BY <1>2

LEMMA LiveBytes ==
  ASSUME NEW r, ReceiveTypes(r)
  PROVE  /\ live(r) \in Seq(Nat) /\ Len(live(r)) = size(r) /\ size(r) \in Nat
         /\ \A i \in 1 .. size(r) : live(r)[i] = r.mem[r.start + i]
<1>1. r.mem \in Seq(Nat) /\ r.start \in Nat /\ r.end \in Nat /\ r.start <= r.end /\ r.end <= Len(r.mem)
  BY DEF ReceiveTypes
<1>2. size(r) = r.end - r.start /\ size(r) \in Nat
  BY <1>1 DEF size
<1>3. live(r) = SubSeq(r.mem, r.start + 1, r.end)
  BY DEF live
<1>4. /\ SubSeq(r.mem, r.start + 1, r.end) \in Seq(Nat) /\ Len(SubSeq(r.mem, r.start + 1, r.end)) = r.end - r.start
      /\ \A i \in 1 .. r.end - r.start : SubSeq(r.mem, r.start + 1, r.end)[i] = r.mem[r.start + i]
  BY <1>1, SliceOf
<1> QED
  BY <1>2, <1>3, <1>4

LEMMA ReallocateKeeps ==
  ASSUME NEW r, NEW p, NEW g, Receives(r, p, g), NEW cap \in Nat, size(r) <= cap
  PROVE  /\ Receives(reallocate(r, cap), p, g)
         /\ reallocate(r, cap).start = 0 /\ reallocate(r, cap).end = size(r) /\ reallocate(r, cap).cap = cap
         /\ reallocate(r, cap).peak = r.peak /\ reallocate(r, cap).watermark = r.watermark
<1> DEFINE s == reallocate(r, cap)
           m == live(r)
           z == size(r)
<1>1. m \in Seq(Nat) /\ Len(m) = z /\ z \in Nat /\ z = g - p /\ \A i \in 1 .. z : m[i] = p + i
  BY LiveBytes DEF Receives, HoldsBytes, size
<1>2. s = [r EXCEPT !.mem = m, !.cap = cap, !.start = 0, !.end = z]
  BY DEF reallocate
<1> HIDE DEF m, z, s
<1>3. /\ s.mem = m /\ s.cap = cap /\ s.start = 0 /\ s.end = z /\ s.peak = r.peak /\ s.watermark = r.watermark
      /\ DOMAIN s = DOMAIN r
  BY <1>2 DEF Receives, ReceiveTypes
<1>4. ReceiveTypes(s)
  BY <1>1, <1>3 DEF Receives, ReceiveTypes, z
<1>5. HoldsBytes(s, p, g)
  BY <1>1, <1>3 DEF Receives, HoldsBytes
<1> QED
  BY <1>3, <1>4, <1>5 DEF Receives, s, z

(* Steps that leave the bytes where they are.                              *)
SameBytes(r, s) ==
    /\ DOMAIN s = DOMAIN r /\ s.mem = r.mem /\ s.cap = r.cap /\ s.start = r.start /\ s.end = r.end
    /\ s.peak \in Nat /\ s.watermark \in Nat

LEMMA SameBytesKeeps ==
  ASSUME NEW r, NEW s, NEW p, NEW g, Receives(r, p, g), SameBytes(r, s) PROVE Receives(s, p, g)
  BY DEF Receives, ReceiveTypes, HoldsBytes, SameBytes

LEMMA SampleSame ==
  ASSUME BufferParameters, NEW r, ReceiveTypes(r) PROVE SameBytes(r, sample_usage(r))
<1> DEFINE k == kUsageAverage
           w == (r.watermark * (k - 1) + r.peak + k - 1) \div k
<1>1. k \in Nat /\ k > 0 /\ k - 1 \in Nat /\ r.watermark \in Nat /\ r.peak \in Nat /\ size(r) \in Nat
  BY DEF BufferParameters, ReceiveTypes, size
<1>2. r.watermark * (k - 1) \in Nat
  BY <1>1
<1>3. r.watermark * (k - 1) + r.peak + k - 1 \in Nat
  BY <1>1, <1>2
<1>4. w \in Nat
  BY <1>1, <1>3
<1>5. sample_usage(r) = [r EXCEPT !.watermark = w, !.peak = size(r)]
  BY DEF sample_usage
<1> HIDE DEF w
<1> QED
  BY <1>1, <1>4, <1>5 DEF SameBytes, ReceiveTypes

LEMMA CompactKeeps ==
  ASSUME BufferParameters, NEW r, NEW p, NEW g, Receives(r, p, g) PROVE Receives(compact(r), p, g)
<1>1. CASE r.start = 0
  BY <1>1 DEF compact
<1>2. CASE r.start # 0
  <2> DEFINE s == reallocate(r, r.cap)
  <2>1. r.cap \in Nat /\ size(r) <= r.cap
    BY DEF Receives, ReceiveTypes, size
  <2>2. Receives(s, p, g)
    BY <2>1, ReallocateKeeps
  <2>3. compact(r) = sample_usage(s)
    BY <1>2 DEF compact
  <2> HIDE DEF s
  <2> QED
    BY <2>2, <2>3, SampleSame, SameBytesKeeps DEF Receives
<1> QED
  BY <1>1, <1>2

LEMMA GrowKeeps ==
  ASSUME BufferParameters, NEW r, NEW p, NEW g, Receives(r, p, g), NEW n \in Nat
  PROVE  Receives(grow_to(r, grown_capacity(r, size(r) + n)), p, g)
<1> DEFINE cap == grown_capacity(r, size(r) + n)
           s == reallocate(r, cap)
           t == grow_to(r, cap)
           x == MaxOf(MaxOf(r.cap + r.cap \div 2, kMinCapacity), size(r) + n)
<1>1. r.cap \in Nat /\ r.cap \div 2 \in Nat /\ size(r) \in Nat /\ kMinCapacity \in Nat
  BY DEF Receives, ReceiveTypes, size, BufferParameters
<1>2. x \in Nat /\ x >= size(r)
  BY <1>1 DEF MaxOf
<1>3. cap = round_up(x)
  BY DEF grown_capacity
<1> HIDE DEF x, cap
<1>4. cap \in Nat /\ size(r) <= cap
  BY <1>1, <1>2, <1>3, RoundsUp
<1>5. Receives(s, p, g) /\ s.watermark = r.watermark
  BY <1>4, ReallocateKeeps
<1>6. t = [s EXCEPT !.watermark = cap, !.peak = size(r)]
  BY DEF grow_to
<1> HIDE DEF s, t
<1>7. SameBytes(s, t)
  BY <1>1, <1>4, <1>5, <1>6 DEF SameBytes, Receives, ReceiveTypes
<1>8. Receives(t, p, g)
  BY <1>5, <1>7, SameBytesKeeps
<1> QED
  BY <1>8 DEF t, cap

LEMMA PrepareKeeps ==
  ASSUME BufferParameters, NEW r, NEW p, NEW g, Receives(r, p, g), NEW n \in Nat PROVE Receives(prepare(r, n), p, g)
<1> DEFINE s == IF r.cap - r.end < n THEN make_room(r, n) ELSE r
           t == prepare(r, n)
<1>1. Receives(s, p, g)
  BY CompactKeeps, GrowKeeps DEF make_room
<1>2. t = [s EXCEPT !.peak = MaxOf(@, size(s) + n)]
  BY DEF prepare
<1> HIDE DEF s, t
<1>3. MaxOf(s.peak, size(s) + n) \in Nat
  BY <1>1 DEF MaxOf, size, Receives, ReceiveTypes
<1>4. SameBytes(s, t)
  BY <1>1, <1>2, <1>3 DEF SameBytes, Receives, ReceiveTypes
<1>5. Receives(t, p, g)
  BY <1>1, <1>4, SameBytesKeeps
<1> QED
  BY <1>5 DEF t

LEMMA BytesAre ==
  ASSUME NEW g \in Nat, NEW k \in Nat
  PROVE  /\ Bytes(g, g + k) \in Seq(Nat) /\ Len(Bytes(g, g + k)) = k
         /\ \A i \in 1 .. k : Bytes(g, g + k)[i] = g + i
<1>1. g + k - g = k
  OBVIOUS
<1>2. Bytes(g, g + k) = [i \in 1 .. k |-> g + i]
  BY <1>1 DEF Bytes
<1> QED
  BY <1>2

(* From s on lie the n bytes after p.                                      *)
Run(bytes, s, p, n) == \A i \in 1 .. n : bytes[s + i] = p + i

Lies(bytes, st, en, p, g) ==
    bytes \in Seq(Nat) /\ st <= en /\ en <= Len(bytes) /\ en - st = g - p /\ Run(bytes, st, p, g - p)
Chunk(d, g, k) == d \in Seq(Nat) /\ Len(d) = k /\ Run(d, 0, g, k)
LongerBy(m, st, en, p, g, k) == Lies(m, st, en + k, p, g + k) /\ Len(m) = en + k
Behind(bytes, en, d) == SubSeq(bytes, 1, en) \o d

LEMMA Concatenated ==
  ASSUME NEW a \in Seq(Nat), NEW d \in Seq(Nat), NEW m, m = a \o d
  PROVE  /\ m \in Seq(Nat) /\ Len(m) = Len(a) + Len(d)
         /\ \A i \in 1 .. Len(a) + Len(d) : m[i] = IF i <= Len(a) THEN a[i] ELSE d[i - Len(a)]
  BY ConcatProperties

(* What is written behind the bytes that lie there.                        *)
LEMMA Appended ==
  ASSUME NEW bytes, NEW st \in Nat, NEW en \in Nat, NEW p \in Nat, NEW g \in Nat, Lies(bytes, st, en, p, g),
         NEW k \in Nat, NEW d, Chunk(d, g, k), NEW m, m = Behind(bytes, en, d)
  PROVE  LongerBy(m, st, en, p, g, k)
<1>d. d \in Seq(Nat) /\ Len(d) = k /\ Run(d, 0, g, k)
  BY DEF Chunk
<1>0. bytes \in Seq(Nat) /\ st <= en /\ en <= Len(bytes) /\ en - st = g - p /\ Run(bytes, st, p, g - p)
  BY DEF Lies
<1> DEFINE a == SubSeq(bytes, 1, en)
<1>1. a \in Seq(Nat) /\ Len(a) = en /\ \A i \in 1 .. en : a[i] = bytes[i]
  <2>1. \A i \in 1 .. en : bytes[i] \in Nat
    BY <1>0
  <2>2. /\ a \in Seq(Nat) /\ Len(a) = IF 1 <= en THEN en - 1 + 1 ELSE 0
        /\ \A i \in 1 .. en - 1 + 1 : a[i] = bytes[1 + i - 1]
    BY <2>1, SubSeqProperties
  <2> HIDE DEF a
  <2>3. en - 1 + 1 = en /\ \A i \in 1 .. en : 1 + i - 1 = i
    OBVIOUS
  <2> QED
    BY <2>2, <2>3
<1> HIDE DEF a
<1>2. m = a \o d
  BY DEF a, Behind
<1>3. /\ m \in Seq(Nat) /\ Len(m) = en + k
      /\ \A i \in 1 .. en + k : m[i] = IF i <= en THEN a[i] ELSE d[i - en]
  <2>1. /\ m \in Seq(Nat) /\ Len(m) = Len(a) + Len(d)
        /\ \A i \in 1 .. Len(a) + Len(d) : m[i] = IF i <= Len(a) THEN a[i] ELSE d[i - Len(a)]
    BY <1>1, <1>2, <1>d, Concatenated
  <2> QED
    BY <1>1, <1>d, <2>1
<1>4. ASSUME NEW i \in 1 .. (g + k) - p, i <= g - p PROVE m[st + i] = p + i
  <2>1. i \in 1 .. g - p /\ st + i \in 1 .. en /\ st + i \in 1 .. en + k /\ st + i <= en
    BY <1>0, <1>4
  <2>2. m[st + i] = a[st + i]
    BY <1>3, <2>1
  <2> QED
    BY <1>0, <1>1, <2>1, <2>2 DEF Run
<1>5. ASSUME NEW i \in 1 .. (g + k) - p, ~(i <= g - p) PROVE m[st + i] = p + i
  <2>1. st + i \in 1 .. en + k /\ ~(st + i <= en)
    BY <1>0, <1>5
  <2>2. (st + i) - en \in 1 .. k /\ g + ((st + i) - en) = p + i
    BY <1>0, <1>5
  <2>3. m[st + i] = d[(st + i) - en]
    BY <1>3, <2>1
  <2>4. d[0 + ((st + i) - en)] = g + ((st + i) - en)
    BY <1>d, <2>2 DEF Run
  <2>5. 0 + ((st + i) - en) = (st + i) - en
    BY <2>2
  <2> QED
    BY <2>2, <2>3, <2>4, <2>5
<1> QED
  <2>1. Run(m, st, p, (g + k) - p)
    BY <1>3, <1>4, <1>5 DEF Run
  <2>2. (en + k) - st = (g + k) - p /\ st <= en + k
    BY <1>0
  <2> QED
    BY <1>3, <2>1, <2>2 DEF Lies, LongerBy

LEMMA CommitKeeps ==
  ASSUME NEW r, NEW p, NEW g, Receives(r, p, g), NEW k \in Nat, k <= r.cap - r.end
  PROVE  Receives(commit(r, Bytes(g, g + k)), p, g + k)
<1> DEFINE d == Bytes(g, g + k)
           m == SubSeq(r.mem, 1, r.end) \o d
           s == [r EXCEPT !.mem = m, !.end = @ + Len(d), !.received = TRUE]
           t == commit(r, d)
<1>0. g \in Nat /\ p \in Nat /\ r.mem \in Seq(Nat) /\ r.end \in Nat /\ r.end <= Len(r.mem) /\ r.start \in Nat /\ r.start <= r.end
      /\ r.cap \in Nat /\ r.end - r.start = g - p /\ \A i \in 1 .. g - p : r.mem[r.start + i] = p + i
  BY DEF Receives, ReceiveTypes, HoldsBytes
<1>1. d \in Seq(Nat) /\ Len(d) = k /\ \A i \in 1 .. k : d[i] = g + i
  BY <1>0, BytesAre
<1> HIDE DEF d
<1>3. m \in Seq(Nat) /\ Len(m) = r.end + k /\ \A i \in 1 .. (g + k) - p : m[r.start + i] = p + i
  <2>1. m = SubSeq(r.mem, 1, r.end) \o d
    OBVIOUS
  <2> HIDE DEF m
  <2>2. Lies(r.mem, r.start, r.end, p, g) /\ Chunk(d, g, k) /\ m = Behind(r.mem, r.end, d)
    BY <1>0, <1>1, <2>1 DEF Lies, Run, Chunk, Behind
  <2>t. g \in Nat /\ p \in Nat /\ r.start \in Nat /\ r.end \in Nat
    BY <1>0
  <2>3. LongerBy(m, r.start, r.end, p, g, k)
    BY <2>t, <2>2, Appended
  <2> QED
    BY <2>3 DEF LongerBy, Lies, Run
<1>4. t = [s EXCEPT !.peak = MaxOf(@, size(s))]
  BY DEF commit
<1> HIDE DEF m
<1>5. /\ s.mem = m /\ s.end = r.end + k /\ s.start = r.start /\ s.cap = r.cap /\ s.peak = r.peak /\ s.watermark = r.watermark
      /\ DOMAIN s = DOMAIN r
  BY <1>1 DEF Receives, ReceiveTypes
<1> HIDE DEF s, t
<1>6. ReceiveTypes(s)
  BY <1>0, <1>3, <1>5 DEF Receives, ReceiveTypes
<1>7. \A i \in 1 .. (g + k) - p : s.mem[s.start + i] = p + i
  BY <1>3, <1>5
<1>8. Receives(s, p, g + k)
  BY <1>0, <1>5, <1>6, <1>7 DEF Receives, HoldsBytes
<1>9. MaxOf(s.peak, size(s)) \in Nat
  BY <1>6 DEF MaxOf, size, ReceiveTypes
<1>10. SameBytes(s, t)
  BY <1>4, <1>6, <1>9 DEF SameBytes, ReceiveTypes
<1>11. Receives(t, p, g + k)
  BY <1>8, <1>10, SameBytesKeeps
<1> QED
  BY <1>11 DEF t, d

LEMMA ShrinkKeeps ==
  ASSUME BufferParameters, NEW r, NEW p, NEW g, Receives(r, p, g) PROVE Receives(maybe_shrink(r), p, g)
<1> DEFINE x == MaxOf(MaxOf(kMinCapacity, size(r)), r.watermark)
           target == round_up(x)
<1>1. size(r) \in Nat /\ kMinCapacity \in Nat /\ r.watermark \in Nat
  BY DEF Receives, ReceiveTypes, size, BufferParameters
<1>2. x \in Nat /\ x >= size(r)
  BY <1>1 DEF MaxOf
<1>3. maybe_shrink(r) = r \/ maybe_shrink(r) = reallocate(r, target)
  BY DEF maybe_shrink
<1> HIDE DEF x
<1>4. target \in Nat /\ size(r) <= target
  BY <1>1, <1>2, RoundsUp
<1> HIDE DEF target
<1> QED
  BY <1>3, <1>4, ReallocateKeeps

LEMMA ConsumeKeeps ==
  ASSUME BufferParameters, NEW r, NEW p, NEW g, Receives(r, p, g), NEW n \in 1 .. size(r) PROVE Receives(consume(r, n), p + n, g)
<1> DEFINE s == [r EXCEPT !.start = @ + n]
<1>t. /\ g \in Nat /\ p \in Nat /\ r.start \in Nat /\ r.end \in Nat /\ r.start <= r.end /\ r.end - r.start = g - p
      /\ size(r) = r.end - r.start
  BY DEF Receives, ReceiveTypes, HoldsBytes, size
<1>0. size(r) = g - p /\ g \in Nat /\ p \in Nat /\ n \in Nat /\ n <= g - p /\ size(r) \in Nat
  <2>1. n \in 1 .. r.end - r.start
    BY <1>t
  <2> QED
    BY <1>t, <2>1
<1>1. s.mem = r.mem /\ s.cap = r.cap /\ s.start = r.start + n /\ s.end = r.end /\ s.peak = r.peak /\ s.watermark = r.watermark
      /\ DOMAIN s = DOMAIN r
  BY DEF Receives, ReceiveTypes
<1>2. consume(r, n) = IF s.start # s.end THEN s ELSE maybe_shrink(sample_usage([s EXCEPT !.start = 0, !.end = 0]))
  BY DEF consume
<1> HIDE DEF s
<1>3. ReceiveTypes(s)
  BY <1>0, <1>1 DEF Receives, ReceiveTypes, size
<1>4. HoldsBytes(s, p + n, g)
  <2>1. \A i \in 1 .. g - (p + n) : s.mem[s.start + i] = (p + n) + i
    <3> TAKE i \in 1 .. g - (p + n)
    <3>1. n + i \in 1 .. g - p
      BY <1>0
    <3>2. r.mem[r.start + (n + i)] = p + (n + i)
      BY <3>1 DEF Receives, HoldsBytes
    <3>3. r.start + (n + i) = s.start + i /\ p + (n + i) = (p + n) + i
      BY <1>0, <1>1 DEF Receives, ReceiveTypes
    <3> QED
      BY <1>1, <3>2, <3>3
  <2>2. s.end - s.start = g - (p + n)
    BY <1>0, <1>1, <1>t
  <2> QED
    BY <1>0, <2>1, <2>2 DEF HoldsBytes
<1>5. CASE s.start # s.end
  BY <1>2, <1>3, <1>4, <1>5 DEF Receives
<1>6. CASE s.start = s.end
  <2> DEFINE e == [s EXCEPT !.start = 0, !.end = 0]
  <2>1. e.mem = s.mem /\ e.cap = s.cap /\ e.start = 0 /\ e.end = 0 /\ e.peak = s.peak /\ e.watermark = s.watermark
        /\ DOMAIN e = DOMAIN s
    BY <1>3 DEF ReceiveTypes
  <2>2. consume(r, n) = maybe_shrink(sample_usage(e))
    BY <1>2, <1>6
  <2> HIDE DEF e
  <2>3. g = p + n
    BY <1>0, <1>3, <1>4, <1>6 DEF HoldsBytes, ReceiveTypes
  <2>4. Receives(e, p + n, g)
    BY <1>0, <1>3, <2>1, <2>3 DEF Receives, ReceiveTypes, HoldsBytes
  <2>5. Receives(sample_usage(e), p + n, g)
    BY <2>4, SampleSame, SameBytesKeeps DEF Receives
  <2> QED
    BY <2>2, <2>5, ShrinkKeeps
<1> QED
  BY <1>5, <1>6

LEMMA DecayKeeps ==
  ASSUME BufferParameters, NEW r, NEW p, NEW g, Receives(r, p, g) PROVE Receives(decay(r), p, g)
<1> DEFINE s == [r EXCEPT !.received = FALSE]
           t == [r EXCEPT !.watermark = @ \div 2]
<1>1. SameBytes(r, s)
  BY DEF SameBytes, Receives, ReceiveTypes
<1>2. SameBytes(r, t)
  BY DEF SameBytes, Receives, ReceiveTypes
<1>3. decay(r) = r \/ decay(r) = s \/ decay(r) = maybe_shrink(t)
  BY DEF decay
<1> HIDE DEF s, t
<1> QED
  BY <1>1, <1>2, <1>3, SameBytesKeeps, ShrinkKeeps

(* The inductive invariant.                                                *)
BufferInv ==
    /\ {"queued", "sent", "got", "parsed", "number", "idle"} \subseteq DOMAIN stream
    /\ stream.sent \in Nat
    /\ Receives(rx, stream.parsed, stream.got)

LEMMA BuffersStart == BuffersInit => BufferInv
<1> SUFFICES ASSUME BuffersInit PROVE BufferInv
  OBVIOUS
<1>1. /\ {"queued", "sent", "got", "parsed", "number", "idle"} \subseteq DOMAIN stream
      /\ stream.sent = 0 /\ stream.parsed = 0 /\ stream.got = 0
  BY DEF BuffersInit
<1>2. ReceiveTypes(rx)
  BY DEF BuffersInit, NoBuffer, ReceiveTypes
<1>3. HoldsBytes(rx, 0, 0)
  BY DEF BuffersInit, NoBuffer, HoldsBytes
<1> QED
  BY <1>1, <1>2, <1>3 DEF BufferInv, Receives

LEMMA BufferImplies == BufferInv => ReceivedInOrder
<1> SUFFICES ASSUME BufferInv PROVE ReceivedInOrder
  OBVIOUS
<1> DEFINE p == stream.parsed
           g == stream.got
<1>1. ReceiveTypes(rx) /\ HoldsBytes(rx, p, g)
  BY DEF BufferInv, Receives
<1>2. rx.end <= rx.cap
  BY <1>1 DEF ReceiveTypes
<1>3. size(rx) = g - p /\ g - p \in Nat
  BY <1>1 DEF ReceiveTypes, HoldsBytes, size
<1>4. /\ live(rx) \in Seq(Nat) /\ Len(live(rx)) = g - p
      /\ \A i \in 1 .. g - p : live(rx)[i] = rx.mem[rx.start + i]
  BY <1>1, <1>3, LiveBytes
<1>5. \A i \in 1 .. g - p : rx.mem[rx.start + i] = p + i
  BY <1>1 DEF HoldsBytes
<1>6. p \in Nat /\ g \in Nat
  BY <1>1 DEF HoldsBytes
<1> HIDE DEF p, g
<1>7. Bytes(p, g) \in Seq(Nat) /\ Len(Bytes(p, g)) = g - p /\ \A i \in 1 .. g - p : Bytes(p, g)[i] = p + i
  <2>1. p + (g - p) = g
    BY <1>6
  <2>2. PICK k \in Nat : k = g - p /\ p + k = g
    BY <1>3, <2>1
  <2>3. Bytes(p, p + k) \in Seq(Nat) /\ Len(Bytes(p, p + k)) = k /\ \A i \in 1 .. k : Bytes(p, p + k)[i] = p + i
    BY <1>6, BytesAre
  <2> QED
    BY <2>2, <2>3
<1>8. live(rx) = Bytes(p, g)
  <2>1. Len(live(rx)) = Len(Bytes(p, g)) /\ \A i \in 1 .. Len(live(rx)) : live(rx)[i] = Bytes(p, g)[i]
    BY <1>4, <1>5, <1>7
  <2> QED
    BY <1>4, <1>7, <2>1, SeqEqual, Zenon
<1> QED
  BY <1>2, <1>8 DEF ReceivedInOrder, p, g

LEMMA BufferStep ==
  ASSUME BufferParameters, BufferInv, BuffersNext PROVE BufferInv'
<1>1. ASSUME NEW n, NEW owned, Queue(n, owned) PROVE BufferInv'
  <2>1. /\ DOMAIN stream' = DOMAIN stream
        /\ stream'.sent = stream.sent /\ stream'.got = stream.got /\ stream'.parsed = stream.parsed /\ rx' = rx
    BY <1>1 DEF Queue, BufferInv
  <2> QED
    BY <2>1 DEF BufferInv
<1>2. ASSUME NEW n \in Reads, Read(n) PROVE BufferInv'
  <2> DEFINE r == prepare(rx, n)
             p == stream.parsed
             g == stream.got
  <2>1. n \in Nat
    BY DEF BufferParameters
  <2>2. Receives(r, p, g)
    BY <2>1, PrepareKeeps DEF BufferInv
  <2>3. PICK k \in 0 .. MinOf(stream.sent - stream.got, r.cap - r.end) :
            /\ rx' = IF k = 0 THEN r ELSE commit(r, Bytes(stream.got, stream.got + k))
            /\ stream' = [stream EXCEPT !.got = @ + k, !.idle = 0]
    BY <1>2 DEF Read
  <2>4. stream'.sent = stream.sent /\ stream'.got = g + k /\ stream'.parsed = p /\ DOMAIN stream' = DOMAIN stream
    BY <2>3 DEF BufferInv
  <2>5. rx' = IF k = 0 THEN r ELSE commit(r, Bytes(g, g + k))
    BY <2>3
  <2>6. g \in Nat
    BY <2>2 DEF Receives, HoldsBytes
  <2> HIDE DEF r, p
  <2>7. k \in Nat /\ k <= r.cap - r.end
    BY <2>2, <2>3, <2>6 DEF MinOf, BufferInv, Receives, ReceiveTypes
  <2> HIDE DEF g
  <2>8. Receives(rx', p, g + k)
    <3>1. CASE k = 0
      BY <2>2, <2>5, <2>6, <3>1
    <3>2. CASE k # 0
      BY <2>2, <2>5, <2>7, <3>2, CommitKeeps
    <3> QED
      BY <3>1, <3>2
  <2> QED
    BY <2>4, <2>8 DEF BufferInv
<1>3. ASSUME NEW n, Parse(n) PROVE BufferInv'
  <2>1. n \in 1 .. size(rx) /\ rx' = consume(rx, n)
    BY <1>3 DEF Parse
  <2>2. /\ DOMAIN stream' = DOMAIN stream
        /\ stream'.sent = stream.sent /\ stream'.got = stream.got /\ stream'.parsed = stream.parsed + n
    BY <1>3 DEF Parse, BufferInv
  <2>3. Receives(rx', stream.parsed + n, stream.got)
    BY <2>1, ConsumeKeeps DEF BufferInv
  <2> QED
    BY <2>2, <2>3 DEF BufferInv
<1>4. ASSUME Flush PROVE BufferInv'
  <2>1. PICK k \in 1 .. Len(gather(tx)) : stream' = [stream EXCEPT !.sent = @ + k] /\ rx' = rx
    BY <1>4 DEF Flush
  <2>2. k \in Nat
    BY <2>1
  <2>3. /\ DOMAIN stream' = DOMAIN stream
        /\ stream'.sent = stream.sent + k /\ stream'.got = stream.got /\ stream'.parsed = stream.parsed
    BY <2>1 DEF BufferInv
  <2> QED
    BY <2>1, <2>2, <2>3 DEF BufferInv
<1>5. ASSUME Decay PROVE BufferInv'
  <2>1. /\ DOMAIN stream' = DOMAIN stream
        /\ stream'.sent = stream.sent /\ stream'.got = stream.got /\ stream'.parsed = stream.parsed /\ rx' = decay(rx)
    BY <1>5 DEF Decay, BufferInv
  <2>2. Receives(rx', stream.parsed, stream.got)
    BY <2>1, DecayKeeps DEF BufferInv
  <2> QED
    BY <2>1, <2>2 DEF BufferInv
<1>6. ASSUME Clear PROVE BufferInv'
  <2>1. /\ {"queued", "sent", "got", "parsed", "number", "idle"} \subseteq DOMAIN stream'
        /\ stream'.sent = 0 /\ stream'.parsed = 0 /\ stream'.got = 0
    BY <1>6 DEF Clear
  <2>2. /\ DOMAIN rx' = DOMAIN rx /\ rx'.mem = <<>> /\ rx'.start = 0 /\ rx'.end = 0 /\ rx'.peak = 0
        /\ rx'.cap = rx.cap /\ rx'.watermark = rx.watermark
    BY <1>6 DEF Clear, BufferInv, Receives, ReceiveTypes
  <2>3. ReceiveTypes(rx')
    BY <2>2 DEF BufferInv, Receives, ReceiveTypes
  <2>4. HoldsBytes(rx', 0, 0)
    BY <2>2 DEF HoldsBytes
  <2> QED
    BY <2>1, <2>3, <2>4 DEF BufferInv, Receives
<1> QED
  BY <1>1, <1>2, <1>3, <1>4, <1>5, <1>6 DEF BuffersNext

(* ReceiveBuffer (receive_buffer.cpp): whatever sizes are read and parsed, *)
(* and however the buffer is moved, grown, shrunk, decayed and used again, *)
(* what lies between its cursors are the bytes that arrived and were not   *)
(* parsed, in order, and it stays within its allocation.                   *)
THEOREM BytesArriveInOrder == BufferParameters => (BuffersSpec => []ReceivedInOrder)
<1> SUFFICES ASSUME BufferParameters PROVE BuffersSpec => []ReceivedInOrder
  OBVIOUS
<1>1. BufferInv /\ [BuffersNext]_<<tx, rx, stream>> => BufferInv'
  <2>1. ASSUME BufferInv, UNCHANGED <<tx, rx, stream>> PROVE BufferInv'
    BY <2>1 DEF BufferInv
  <2> QED
    BY <2>1, BufferStep
<1> QED
  BY <1>1, BuffersStart, BufferImplies, PTL DEF BuffersSpec

=============================================================================
