--------------------------- MODULE Services_proofs --------------------------
(***************************************************************************)
(* Proofs about services beside the reactors: a file transfer that reports *)
(* success delivered whole files, the handlers of typed JSON messages are  *)
(* called as often as they should be, no task queued for the DHT thread is *)
(* left asleep, the book of known peers ranks and prunes by ages that are  *)
(* true, and a tracker announce ends with the answer to its own question.  *)
(***************************************************************************)
EXTENDS FileTransfer, TypedMessages, DhtClient, PeerBook, Tracker, FiniteSetTheorems, TLAPS

(* Typed messages.                                                         *)

Frames == {encode(t, bad) : t \in Types, bad \in BOOLEAN}

TypedTypes ==
    typed \in [handlers : [Types -> SUBSET Handlers], made : 0..MaxHandlers, sent : Nat,
               wire : [Reactors -> Seq(Frames)], to_call : [Reactors -> SUBSET Handlers], once : SUBSET Handlers,
               due : [Handlers -> Nat], fired : [Handlers -> Nat]]

(* A handler is registered under one type, has a number given out before,  *)
(* and as a one-shot one was not due while it is still registered.         *)
Registered ==
    /\ \A t, u \in Types : typed.handlers[t] \cap typed.handlers[u] # {} => t = u
    /\ \A t \in Types : typed.handlers[t] \subseteq 1..typed.made
    /\ typed.once \subseteq 1..typed.made
    /\ \A h \in Handlers : h > typed.made => typed.due[h] = 0
    /\ \A t \in Types : \A h \in typed.handlers[t] \cap typed.once : typed.due[h] = 0

TypedInv == TypedTypes /\ Registered /\ OnceIsOnce

LEMMA TypedInitInv == TypedInit => TypedInv
  <1> SUFFICES ASSUME TypedInit PROVE TypedInv
    OBVIOUS
  <1> USE TypedAssumption DEF TypedInit
  <1>1. TypedTypes
    BY DEF TypedTypes, Handlers
  <1>2. Registered
    BY DEF Registered
  <1>3. \A h \in Handlers : CallsOf(h) = {}
    BY DEF CallsOf
  <1>4. \A h \in Handlers : Cardinality(CallsOf(h)) = 0 /\ typed.fired[h] = 0 /\ typed.due[h] = 0
    BY <1>3, FS_EmptySet
  <1>5. OnceIsOnce
    BY <1>4 DEF OnceIsOnce
  <1> QED
    BY <1>1, <1>2, <1>5 DEF TypedInv

(* Steps that call nobody and make nothing due.                            *)
LEMMA SameCalls ==
    ASSUME OnceIsOnce, typed'.to_call = typed.to_call, typed'.due = typed.due, typed'.fired = typed.fired,
           \A h \in typed'.once : typed.due[h] <= 1
    PROVE  OnceIsOnce'
  BY DEF OnceIsOnce, CallsOf

LEMMA RegisterKeeps ==
    ASSUME TypedInv, NEW t \in Types, NEW one \in BOOLEAN, Register(t, one)
    PROVE  TypedInv'
  <1> USE TypedAssumption
  <1> DEFINE h == typed.made + 1
  <1>0. TypedTypes /\ Registered /\ OnceIsOnce
    BY DEF TypedInv
  <1>1. h \in Handlers /\ h \notin 1..typed.made /\ typed.made \in Nat
    BY <1>0 DEF Register, TypedTypes, Handlers
  <1>2. /\ typed'.made = h /\ typed'.once = (IF one THEN typed.once \cup {h} ELSE typed.once)
        /\ typed'.handlers = [typed.handlers EXCEPT ![t] = @ \cup {h}]
        /\ typed'.to_call = typed.to_call /\ typed'.due = typed.due /\ typed'.fired = typed.fired
    BY <1>0 DEF Register, TypedTypes
  <1>3. TypedTypes'
    <2>1. h \in 0..MaxHandlers /\ typed'.once \subseteq Handlers
      BY <1>0, <1>1, <1>2 DEF TypedTypes, Handlers
    <2>2. [typed.handlers EXCEPT ![t] = @ \cup {h}] \in [Types -> SUBSET Handlers]
      BY <1>0, <1>1 DEF TypedTypes
    <2>3. typed' = [typed EXCEPT !.made = h, !.handlers = [typed.handlers EXCEPT ![t] = @ \cup {h}], !.once = typed'.once]
      BY <1>0, <1>2 DEF Register, TypedTypes
    <2> HIDE DEF h
    <2> QED
      BY <1>0, <2>1, <2>2, <2>3 DEF TypedTypes
  <1>4. typed.due[h] = 0
    BY <1>0, <1>1 DEF Registered, Handlers
  <1>5. Registered'
    <2>1. \A u \in Types : typed'.handlers[u] = IF u = t THEN typed.handlers[u] \cup {h} ELSE typed.handlers[u]
      BY <1>0, <1>2 DEF TypedTypes
    <2>2. \A u \in Types : h \notin typed.handlers[u]
      BY <1>0, <1>1 DEF Registered
    <2>3. h \notin typed.once /\ 1..h = 1..typed.made \cup {h}
      BY <1>0, <1>1 DEF Registered
    <2> HIDE DEF h
    <2>4. \A u, w \in Types : typed'.handlers[u] \cap typed'.handlers[w] # {} => u = w
      BY <1>0, <2>1, <2>2 DEF Registered
    <2>5. \A u \in Types : typed'.handlers[u] \subseteq 1..typed'.made
      BY <1>0, <1>2, <2>1, <2>3 DEF Registered
    <2>6. typed'.once \subseteq 1..typed'.made
      BY <1>0, <1>2, <2>3 DEF Registered
    <2>7. \A g \in Handlers : g > typed'.made => typed'.due[g] = 0
      BY <1>0, <1>1, <1>2 DEF Registered, Handlers, h
    <2>8. \A u \in Types : \A g \in typed'.handlers[u] \cap typed'.once : typed'.due[g] = 0
      BY <1>0, <1>2, <1>4, <2>1, <2>2, <2>3 DEF Registered
    <2> QED
      BY <2>4, <2>5, <2>6, <2>7, <2>8 DEF Registered
  <1> HIDE DEF h
  <1>6. \A g \in typed'.once : typed.due[g] <= 1
    BY <1>0, <1>2, <1>4 DEF OnceIsOnce
  <1> QED
    BY <1>0, <1>2, <1>3, <1>5, <1>6, SameCalls DEF TypedInv

LEMMA OffKeeps ==
    ASSUME TypedInv, NEW t \in Types, off(t)
    PROVE  TypedInv'
  <1>0. TypedTypes /\ Registered /\ OnceIsOnce
    BY DEF TypedInv
  <1>1. /\ typed'.made = typed.made /\ typed'.once = typed.once
        /\ typed'.handlers = [typed.handlers EXCEPT ![t] = {}]
        /\ typed'.to_call = typed.to_call /\ typed'.due = typed.due /\ typed'.fired = typed.fired
    BY <1>0 DEF off, TypedTypes
  <1>2. TypedTypes'
    BY <1>0 DEF off, TypedTypes
  <1>3. \A u \in Types : typed'.handlers[u] \subseteq typed.handlers[u]
    BY <1>0, <1>1 DEF TypedTypes
  <1>4. Registered'
    BY <1>0, <1>1, <1>3 DEF Registered
  <1>5. OnceIsOnce'
    BY <1>0, <1>1, SameCalls DEF OnceIsOnce
  <1> QED
    BY <1>2, <1>4, <1>5 DEF TypedInv

LEMMA SendKeeps ==
    ASSUME TypedInv, NEW r \in Reactors, NEW t \in Types, NEW bad \in BOOLEAN, send(r, t, bad)
    PROVE  TypedInv'
  <1>0. TypedTypes /\ Registered /\ OnceIsOnce
    BY DEF TypedInv
  <1>1. /\ typed'.made = typed.made /\ typed'.once = typed.once /\ typed'.handlers = typed.handlers
        /\ typed'.to_call = typed.to_call /\ typed'.due = typed.due /\ typed'.fired = typed.fired
    BY <1>0 DEF send, TypedTypes
  <1>2. TypedTypes'
    <2>1. encode(t, bad) \in Frames
      BY DEF Frames
    <2>2. Append(typed.wire[r], encode(t, bad)) \in Seq(Frames)
      BY <1>0, <2>1 DEF TypedTypes
    <2>3. [typed.wire EXCEPT ![r] = Append(@, encode(t, bad))] \in [Reactors -> Seq(Frames)] /\ typed.sent + 1 \in Nat
      BY <1>0, <2>2 DEF TypedTypes
    <2>4. typed' = [typed EXCEPT !.sent = typed.sent + 1, !.wire = [typed.wire EXCEPT ![r] = Append(@, encode(t, bad))]]
      BY <1>0 DEF send, TypedTypes
    <2> QED
      BY <1>0, <2>3, <2>4 DEF TypedTypes
  <1>3. Registered' /\ OnceIsOnce'
    BY <1>0, <1>1, SameCalls DEF Registered, OnceIsOnce
  <1> QED
    BY <1>2, <1>3 DEF TypedInv

(* The handlers of the message's type become due and are taken.            *)
LEMMA OnTypedKeeps ==
    ASSUME TypedInv, NEW r \in Reactors, on_typed(r)
    PROVE  TypedInv'
  <1> DEFINE msg == Head(typed.wire[r])
             t == msg.type
             b == [typed EXCEPT !.wire[r] = Tail(@)]
             c == [b EXCEPT !.due = Due(b, t)]
  <1>0. TypedTypes /\ Registered /\ OnceIsOnce
    BY DEF TypedInv
  <1>1. msg \in Frames /\ Tail(typed.wire[r]) \in Seq(Frames)
    BY <1>0 DEF on_typed, TypedTypes
  <1>2. t \in Types
    BY <1>1 DEF Frames, encode
  <1>3. b = [typed EXCEPT !.wire = [typed.wire EXCEPT ![r] = Tail(typed.wire[r])]]
    BY <1>0 DEF TypedTypes
  <1> HIDE DEF msg
  <1>4. /\ b \in [handlers : [Types -> SUBSET Handlers], made : 0..MaxHandlers, sent : Nat,
                  wire : [Reactors -> Seq(Frames)], to_call : [Reactors -> SUBSET Handlers], once : SUBSET Handlers,
                  due : [Handlers -> Nat], fired : [Handlers -> Nat]]
        /\ b.handlers = typed.handlers /\ b.made = typed.made /\ b.to_call = typed.to_call /\ b.once = typed.once
        /\ b.due = typed.due /\ b.fired = typed.fired
    BY <1>0, <1>1 DEF TypedTypes
  <1> HIDE DEF b, t
  <1>5. typed' = IF decode(msg) THEN Taken(c, r, t) ELSE b
    BY DEF on_typed, msg, b, t
  <1>6. CASE ~decode(msg)
    <2>1. typed' = b
      BY <1>5, <1>6
    <2>2. TypedTypes'
      BY <1>4, <2>1 DEF TypedTypes
    <2>3. Registered'
      BY <1>0, <1>4, <2>1 DEF Registered
    <2>4. OnceIsOnce'
      BY <1>0, <1>4, <2>1, SameCalls DEF OnceIsOnce
    <2> QED
      BY <2>2, <2>3, <2>4 DEF TypedInv
  <1>7. CASE decode(msg)
    <2> DEFINE D == [h \in Handlers |-> typed.due[h] + IF h \in typed.handlers[t] THEN 1 ELSE 0]
    <2>1. Due(b, t) = D /\ D \in [Handlers -> Nat]
      BY <1>0, <1>2, <1>4 DEF Due, TypedTypes
    <2> HIDE DEF D
    <2>2. /\ typed' \in [handlers : [Types -> SUBSET Handlers], made : 0..MaxHandlers, sent : Nat,
                  wire : [Reactors -> Seq(Frames)], to_call : [Reactors -> SUBSET Handlers], once : SUBSET Handlers,
                  due : [Handlers -> Nat], fired : [Handlers -> Nat]]
          /\ typed'.made = typed.made /\ typed'.once = typed.once /\ typed'.fired = typed.fired /\ typed'.due = D
          /\ typed'.to_call = [typed.to_call EXCEPT ![r] = typed.handlers[t]]
          /\ typed'.handlers = [typed.handlers EXCEPT ![t] = @ \ typed.once]
      BY <1>2, <1>4, <1>5, <1>7, <2>1 DEF Taken
    <2>3. TypedTypes'
      BY <2>2 DEF TypedTypes
    <2>4. \A u \in Types : typed'.handlers[u] = IF u = t THEN typed.handlers[u] \ typed.once ELSE typed.handlers[u]
      BY <1>0, <2>2 DEF TypedTypes
    <2>5. \A h \in Handlers : D[h] = IF h \in typed.handlers[t] THEN typed.due[h] + 1 ELSE typed.due[h]
      BY <1>0 DEF D, TypedTypes
    <2>6. Registered'
      <3>1. \A u, w \in Types : typed'.handlers[u] \cap typed'.handlers[w] # {} => u = w
        BY <1>0, <2>4 DEF Registered
      <3>2. \A u \in Types : typed'.handlers[u] \subseteq 1..typed'.made
        BY <1>0, <2>2, <2>4 DEF Registered
      <3>3. \A h \in Handlers : h > typed'.made => typed'.due[h] = 0
        <4>1. \A h \in Handlers : h > typed.made => h \notin typed.handlers[t] /\ typed.due[h] = 0
          BY <1>0, <1>2 DEF Registered, TypedTypes, Handlers
        <4> QED
          BY <2>2, <2>5, <4>1
      <3>4. \A u \in Types : \A h \in typed'.handlers[u] \cap typed'.once : typed'.due[h] = 0
        BY <1>0, <1>2, <2>2, <2>4, <2>5 DEF Registered, TypedTypes
      <3> QED
        BY <1>0, <2>2, <3>1, <3>2, <3>3, <3>4 DEF Registered
    <2>7. \A h \in typed'.once : typed'.due[h] <= 1
      <3>1. \A h \in typed.once : h \in typed.handlers[t] => D[h] = 1
        BY <1>0, <1>2, <2>5 DEF Registered, TypedTypes
      <3> QED
        <4>1. typed'.once \subseteq Handlers /\ typed'.once = typed.once /\ typed'.due = D
          BY <1>0, <2>2 DEF TypedTypes
        <4>2. \A h \in typed.once : typed.due[h] <= 1
          BY <1>0 DEF OnceIsOnce
        <4> QED
          BY <2>5, <3>1, <4>1, <4>2
    <2>8. ASSUME NEW h \in Handlers
          PROVE  typed'.fired[h] + Cardinality(CallsOf(h)') = typed'.due[h]
      <3>0. typed.to_call[r] = {}
        BY DEF on_typed
      <3>1. typed.fired[h] + Cardinality(CallsOf(h)) = typed.due[h] /\ typed.fired[h] \in Nat /\ typed.due[h] \in Nat
        BY <1>0 DEF OnceIsOnce, CallsOf, TypedTypes
      <3>2. IsFiniteSet(CallsOf(h)) /\ Cardinality(CallsOf(h)) \in Nat
        BY TypedAssumption, FS_Subset, FS_CardinalityType DEF CallsOf
      <3>3. CASE h \in typed.handlers[t]
        <4>1. CallsOf(h)' = CallsOf(h) \cup {r} /\ r \notin CallsOf(h)
          BY <1>0, <2>2, <3>0, <3>3 DEF CallsOf, TypedTypes
        <4>2. Cardinality(CallsOf(h)') = Cardinality(CallsOf(h)) + 1
          BY <3>2, <4>1, FS_AddElement
        <4> QED
          <5>1. typed'.due[h] = typed.due[h] + 1 /\ typed'.fired[h] = typed.fired[h]
            BY <2>2, <2>5, <3>3
          <5> QED
            BY <3>1, <3>2, <4>2, <5>1
      <3>4. CASE h \notin typed.handlers[t]
        <4>1. CallsOf(h)' = CallsOf(h)
          BY <1>0, <2>2, <3>0, <3>4 DEF CallsOf, TypedTypes
        <4> QED
          BY <2>2, <2>5, <3>1, <3>4, <4>1
      <3> QED
        BY <3>3, <3>4
    <2>9. OnceIsOnce'
      BY <2>7, <2>8 DEF OnceIsOnce, CallsOf
    <2> QED
      BY <2>3, <2>6, <2>9 DEF TypedInv
  <1> QED
    BY <1>6, <1>7

LEMMA CallsKeeps ==
    ASSUME TypedInv, NEW r \in Reactors, Calls(r)
    PROVE  TypedInv'
  <1>0. TypedTypes /\ Registered /\ OnceIsOnce
    BY DEF TypedInv
  <1>1. PICK g \in typed.to_call[r] : typed' = [typed EXCEPT !.to_call[r] = @ \ {g}, !.fired[g] = @ + 1]
    BY DEF Calls
  <1>2. g \in Handlers
    BY <1>0 DEF TypedTypes
  <1>3. /\ typed'.made = typed.made /\ typed'.once = typed.once /\ typed'.handlers = typed.handlers
        /\ typed'.due = typed.due /\ typed'.fired = [typed.fired EXCEPT ![g] = @ + 1]
        /\ typed'.to_call = [typed.to_call EXCEPT ![r] = @ \ {g}]
    BY <1>0, <1>1 DEF TypedTypes
  <1>t. TypedTypes'
    <2>1. [typed.fired EXCEPT ![g] = @ + 1] \in [Handlers -> Nat]
      BY <1>0, <1>2 DEF TypedTypes
    <2>2. [typed.to_call EXCEPT ![r] = @ \ {g}] \in [Reactors -> SUBSET Handlers]
      BY <1>0 DEF TypedTypes
    <2>3. typed' = [typed EXCEPT !.to_call = [typed.to_call EXCEPT ![r] = @ \ {g}],
                                 !.fired = [typed.fired EXCEPT ![g] = @ + 1]]
      BY <1>0, <1>1 DEF TypedTypes
    <2> QED
      BY <1>0, <2>1, <2>2, <2>3 DEF TypedTypes
  <1>4. Registered'
    BY <1>0, <1>3 DEF Registered
  <1>5. ASSUME NEW h \in Handlers
        PROVE  typed'.fired[h] + Cardinality(CallsOf(h)') = typed'.due[h]
    <2>1. typed.fired[h] + Cardinality(CallsOf(h)) = typed.due[h] /\ typed.fired[h] \in Nat /\ typed.due[h] \in Nat
      BY <1>0 DEF OnceIsOnce, CallsOf, TypedTypes
    <2>2. IsFiniteSet(CallsOf(h)) /\ Cardinality(CallsOf(h)) \in Nat
      BY TypedAssumption, FS_Subset, FS_CardinalityType DEF CallsOf
    <2>3. CASE h = g
      <3>1. CallsOf(h)' = CallsOf(h) \ {r} /\ r \in CallsOf(h)
        BY <1>0, <1>3, <2>3 DEF CallsOf, TypedTypes
      <3>2. Cardinality(CallsOf(h)') = Cardinality(CallsOf(h)) - 1
        BY <2>2, <3>1, FS_RemoveElement
      <3>3. typed'.fired[h] = typed.fired[h] + 1
        BY <1>0, <1>3, <2>3 DEF TypedTypes
      <3> QED
        BY <1>3, <2>1, <2>2, <3>2, <3>3
    <2>4. CASE h # g
      <3>1. CallsOf(h)' = CallsOf(h)
        BY <1>0, <1>3, <2>4 DEF CallsOf, TypedTypes
      <3>2. typed'.fired[h] = typed.fired[h]
        BY <1>0, <1>3, <2>4 DEF TypedTypes
      <3> QED
        BY <1>3, <2>1, <3>1, <3>2
    <2> QED
      BY <2>3, <2>4
  <1>6. OnceIsOnce'
    BY <1>0, <1>3, <1>5 DEF OnceIsOnce, CallsOf
  <1> QED
    BY <1>t, <1>4, <1>6 DEF TypedInv

(* However many reactors take messages side by side, and whenever handlers *)
(* come and go, every handler gets each of its messages once, and a        *)
(* one-shot handler one in all.                                            *)
THEOREM HandlersCalledOnce == TypedSpec => []OnceIsOnce
  <1>1. TypedInv /\ [TypedNext]_typed => TypedInv'
    <2> SUFFICES ASSUME TypedInv, [TypedNext]_typed PROVE TypedInv'
      OBVIOUS
    <2>1. CASE UNCHANGED typed
      BY <2>1 DEF TypedInv, TypedTypes, Registered, OnceIsOnce, CallsOf
    <2> QED
      BY <2>1, RegisterKeeps, OffKeeps, SendKeeps, OnTypedKeeps, CallsKeeps DEF TypedNext, on, once
  <1>2. TypedInv => OnceIsOnce
    BY DEF TypedInv
  <1> QED
    BY <1>1, <1>2, TypedInitInv, PTL DEF TypedSpec

-----------------------------------------------------------------------------
(* The DHT thread and its queue.                                           *)

ClientTypes ==
    /\ DOMAIN facade = {"running", "up", "engine", "self", "dir"}
    /\ runner \in [running : BOOLEAN, pc : {"none", "recv", "queue", "tick", "saving", "exited"},
                   tasks : SUBSET {"bootstrap", "extip", "announce", "find", "get"}, byte : BOOLEAN]
    /\ DOMAIN disc = {"pc", "running", "recover", "due", "dialed", "unsignalled"}

(* From the moment the queue has been taken until recv() returns, a queued *)
(* task has its wake-up byte in the pipe or on its way.                    *)
WakeupComing ==
    runner.pc \in {"tick", "saving", "recv"} /\ runner.tasks # {} => runner.byte \/ Posting \/ reader = "queued"

ClientInv == ClientTypes /\ WakeupComing

LEMMA ClientInitInv == ClientInit => ClientInv
  BY DEF ClientInit, NoRunner, NoDisc, ClientInv, ClientTypes, WakeupComing

LEMMA ClientNextInv == ClientInv /\ [ClientNext]_clientVars => ClientInv'
  <1> SUFFICES ASSUME ClientInv, [ClientNext]_clientVars PROVE ClientInv'
    OBVIOUS
  <1> USE DEF ClientInv, ClientTypes, WakeupComing, Posting
  <1>1. CASE Start
    BY <1>1 DEF Start, bootstrapping, DiscStarts
  <1>2. CASE Recv
    BY <1>2 DEF Recv, DrainPipe, on_peers
  <1>3. CASE Quit
    BY <1>3 DEF Quit
  <1>4. CASE drain_tasks
    BY <1>4 DEF drain_tasks
  <1>5. ASSUME NEW due \in BOOLEAN, Tick(due) PROVE ClientInv'
    BY <1>5 DEF Tick, DrainPipe
  <1>6. CASE AutosaveEnds
    BY <1>6 DEF AutosaveEnds
  <1>7. CASE DiscSignals
    BY <1>7 DEF DiscSignals, Signalled
  <1>8. CASE probe_external_ip
    <2>1. CASE UNCHANGED runner
      BY <1>8, <2>1 DEF probe_external_ip, DiscPosts, Queued
    <2>2. CASE runner' = Queued(runner, "extip") /\ disc' = [disc EXCEPT !.pc = "cycle", !.unsignalled = TRUE]
      BY <1>8, <2>2 DEF probe_external_ip, Queued
    <2> QED
      BY <1>8, <2>1, <2>2 DEF probe_external_ip, DiscPosts
  <1>9. CASE Recover \/ WaitEnds \/ DiscExits \/ NetworkChanged
    BY <1>9 DEF Recover, WaitEnds, DiscExits, NetworkChanged
  <1>10. CASE Cycle
    BY <1>10 DEF Cycle, Queued
  <1>11. CASE ReaderChecks
    BY <1>11 DEF ReaderChecks
  <1>12. CASE ReaderPosts
    BY <1>12 DEF ReaderPosts, Queued
  <1>13. CASE ReaderSignals
    BY <1>13 DEF ReaderSignals, Signalled
  <1>14. CASE Stop
    BY <1>14 DEF Stop
  <1>15. CASE StopClient
    BY <1>15 DEF StopClient, Signalled
  <1>16. CASE StopSaves
    BY <1>16 DEF StopSaves
  <1>17. CASE StopEnds
    BY <1>17 DEF StopEnds, NoRunner
  <1>18. CASE Crash
    BY <1>18 DEF Crash, NoRunner, NoDisc
  <1>19. CASE UNCHANGED clientVars
    BY <1>19 DEF clientVars
  <1> QED
    BY <1>1, <1>2, <1>3, <1>4, <1>5, <1>6, <1>7, <1>8, <1>9, <1>10, <1>11, <1>12, <1>13, <1>14, <1>15, <1>16, <1>17,
       <1>18, <1>19 DEF ClientNext

(* No interleaving of the loop, the discovery thread, the getters and      *)
(* stop() makes the loop wait on a task whose wake-up was taken: the pipe  *)
(* is emptied before the queue, never after.                               *)
THEOREM WakeupsAreNotLost == ClientSpec => []NoLostWakeup
  <1>1. ClientInv => NoLostWakeup
    BY DEF ClientInv, WakeupComing, NoLostWakeup
  <1> QED
    BY <1>1, ClientInitInv, ClientNextInv, PTL DEF ClientSpec

-----------------------------------------------------------------------------
(* The book of known peers.  std::sort ranks it; a crash or late save may  *)
(* bring back an older file.                                               *)

USE DEF Records

(* better() is a strict weak order on the records of the book (std::sort   *)
(* has undefined behaviour otherwise).                                     *)
THEOREM BetterOrders == StrictWeakOrder(Records)
<1> USE BookAssumption DEF better
<1>1. \A r \in Records : ~better(r, r)
  OBVIOUS
<1>2. \A r, s, t \in Records : better(r, s) /\ better(s, t) => better(r, t)
  OBVIOUS
<1>3. \A r, s, t \in Records : better(r, t) => better(r, s) \/ better(s, t)
  OBVIOUS
<1> QED BY <1>1, <1>2, <1>3 DEF StrictWeakOrder

-----------------------------------------------------------------------------
(* A book none of whose records claims a sighting later than the real one. *)
Honest(b) == \A a \in Addrs : b[a].known => b[a].last_seen <= sighted[a]

(* The file and the snapshots on their way to it may be read back by a     *)
(* restart, so they have to be honest too.                                 *)
IndInv ==
    /\ BookTypeOK
    /\ \A a \in Addrs : sighted[a] <= now
    /\ Honest(records)
    /\ \A t \in Threads : Honest(saving[t])
    /\ file # Torn => Honest(file)

(* A book is a function on Addrs; without addresses it is the torn file.   *)
LEMMA EmptyBook == Empty \in [Addrs -> Records] /\ Honest(Empty)
BY BookAssumption DEF Empty, Absent, Honest

(* What prune() leaves is typed and honest if what it was given is.        *)
LEMMA PrunedHonest ==
    ASSUME BookTypeOK, NEW b \in [Addrs -> Records], Honest(b), NEW c \in Pruned(b)
    PROVE  c \in [Addrs -> Records] /\ Honest(c)
<1>1. PICK k : c = [a \in Addrs |-> IF a \in k THEN b[a] ELSE Absent]
  BY Zenon DEF Pruned
<1>2. Absent \in Records /\ Absent.known = FALSE
  BY BookAssumption DEF Absent
<1>3. \A a \in Addrs : c[a] = b[a] \/ c[a] = Absent
  BY <1>1
<1>4. c \in [Addrs -> Records]
  BY <1>1, <1>2
<1>5. Honest(c)
  BY <1>2, <1>3 DEF Honest
<1> QED BY <1>4, <1>5

(* The two halves of the induction.                                        *)
LEMMA InitInd == BookInit => IndInv
BY BookAssumption, EmptyBook DEF BookInit, IndInv, BookTypeOK, Honest, Empty, Absent

LEMMA NextInd == IndInv /\ [BookNext]_bookVars => IndInv'
<1> SUFFICES ASSUME IndInv, [BookNext]_bookVars PROVE IndInv'
  OBVIOUS
<1> USE BookAssumption
<1>1. ASSUME NEW t \in Threads, NEW a \in Addrs, Change(t, a) PROVE IndInv'
  <2>1. /\ UNCHANGED <<file, saving, now>>
        /\ at' \in [Threads -> {"idle", "save", "open", "write"}]
    BY <1>1 DEF Change, IndInv, BookTypeOK
  <2>2. /\ sighted' \in [Addrs -> 0..MaxNow]
        /\ \A d \in Addrs : sighted[d] <= sighted'[d] /\ sighted'[d] <= now
    <3>1. sighted' = sighted \/ sighted' = [sighted EXCEPT ![a] = now]
      BY <1>1 DEF Change
    <3>2. CASE sighted' = sighted
      BY <3>2 DEF IndInv, BookTypeOK
    <3>3. CASE sighted' = [sighted EXCEPT ![a] = now]
      <4>1. sighted \in [Addrs -> 0..MaxNow] /\ now \in 0..MaxNow /\ sighted[a] <= now
        BY DEF IndInv, BookTypeOK
      <4>2. \A d \in Addrs : sighted[d] \in Nat /\ sighted[d] <= now
        BY <4>1 DEF IndInv
      <4> QED BY <3>3, <4>1, <4>2
    <3> QED BY <3>1, <3>2, <3>3
  <2>3. /\ records' \in [Addrs -> Records]
        /\ \A d \in Addrs : records'[d].known => records'[d].last_seen <= sighted'[d]
    <3>1. CASE records' = [records EXCEPT ![a] = Connected(@)] /\ sighted' = [sighted EXCEPT ![a] = now]
      BY <3>1, <1>1 DEF Connected, Capped, IndInv, BookTypeOK, Honest
    <3>2. CASE records' = [records EXCEPT ![a] = Seen(@)] /\ sighted' = [sighted EXCEPT ![a] = now]
      <4>1. Seen(records[a]) \in Records /\ Seen(records[a]).last_seen = now
        BY DEF Seen, IndInv, BookTypeOK
      <4> QED BY <4>1, <3>2 DEF IndInv, BookTypeOK, Honest
    <3>3. CASE records' = [records EXCEPT ![a] = Failed(@)] /\ sighted' = sighted
      <4>1. /\ Failed(records[a]) \in Records
            /\ Failed(records[a]).last_seen = records[a].last_seen
            /\ Failed(records[a]).known = records[a].known
        BY DEF Failed, Capped, IndInv, BookTypeOK
      <4> QED BY <4>1, <3>3 DEF IndInv, BookTypeOK, Honest
    <3>4. CASE records' = [records EXCEPT ![a] = Absent] /\ sighted' = sighted
      BY <3>4 DEF Absent, IndInv, BookTypeOK, Honest
    <3> QED BY <3>1, <3>2, <3>3, <3>4, <1>1 DEF Change
  <2>4. \A t2 \in Threads, d \in Addrs :
          saving[t2][d].known => saving[t2][d].last_seen <= sighted'[d]
    BY <2>2 DEF IndInv, BookTypeOK, Honest
  <2>5. file # Torn => \A d \in Addrs : file[d].known => file[d].last_seen <= sighted'[d]
    BY <2>2 DEF IndInv, BookTypeOK, Honest
  <2> QED BY <2>1, <2>2, <2>3, <2>4, <2>5 DEF IndInv, BookTypeOK, Honest
<1>2. ASSUME NEW t \in Threads, Snapshot(t) PROVE IndInv'
  BY <1>2 DEF Snapshot, IndInv, BookTypeOK, Honest
<1>3. ASSUME NEW t \in Threads, Truncate(t) PROVE IndInv'
  BY <1>3 DEF Truncate, IndInv, BookTypeOK, Honest
<1>4. ASSUME NEW t \in Threads, Write(t) PROVE IndInv'
  <2>1. /\ UNCHANGED <<records, now, sighted>>
        /\ file' = saving[t]
        /\ saving' = [saving EXCEPT ![t] = Empty]
        /\ at' \in [Threads -> {"idle", "save", "open", "write"}]
    BY <1>4 DEF Write, IndInv, BookTypeOK
  <2>2. \A t2 \in Threads : saving'[t2] = saving[t2] \/ saving'[t2] = Empty
    BY <2>1 DEF IndInv, BookTypeOK
  <2>3. saving' \in [Threads -> [Addrs -> Records]]
    BY <2>1, EmptyBook DEF IndInv, BookTypeOK
  <2>4. \A t2 \in Threads : Honest(saving'[t2])
    BY <2>2, EmptyBook DEF IndInv, Honest
  <2> QED BY <2>1, <2>3, <2>4 DEF IndInv, BookTypeOK, Honest
<1>5. CASE Restart
  <2>1. Loaded \in [Addrs -> Records] /\ Honest(Loaded)
    BY EmptyBook DEF Loaded, IndInv, BookTypeOK
  <2>2. PICK b \in Pruned(Loaded) : records' = b /\ file' = b
    BY <1>5 DEF Restart
  <2>3. b \in [Addrs -> Records] /\ Honest(b)
    BY <2>1, PrunedHonest DEF IndInv
  <2>4. /\ saving' = [t \in Threads |-> Empty]
        /\ at' = [t \in Threads |-> "idle"]
        /\ UNCHANGED <<now, sighted>>
    BY <1>5 DEF Restart
  <2>5. saving' \in [Threads -> [Addrs -> Records]] /\ \A t \in Threads : Honest(saving'[t])
    BY <2>4, EmptyBook
  <2> QED BY <2>2, <2>3, <2>4, <2>5 DEF IndInv, BookTypeOK, Honest
<1>6. CASE ClockTicks
  BY <1>6 DEF ClockTicks, IndInv, BookTypeOK, Honest
<1>7. CASE UNCHANGED bookVars
  BY <1>7 DEF bookVars, IndInv, BookTypeOK, Honest
<1> QED BY <1>1, <1>2, <1>3, <1>4, <1>5, <1>6, <1>7 DEF BookNext

(* Type correctness of the book, its file and its writers.                 *)
THEOREM BookTypeCorrect == BookSpec => []BookTypeOK
BY InitInd, NextInd, PTL DEF BookSpec, IndInv

(* Whatever mixture of failures, saves, crashes and reloads happens, a     *)
(* record's last_seen is never later than the last real sighting: a peer   *)
(* that only fails ages out.                                               *)
THEOREM AgesHonestly == BookSpec => []AgeIsHonest
<1>1. IndInv => AgeIsHonest
  BY DEF IndInv, Honest, AgeIsHonest
<1> QED BY InitInd, NextInd, <1>1, PTL DEF BookSpec

(* However the sort breaks ties, the cap of prune keeps an address that    *)
(* never worked only beside every fresh one that did.                      *)
LEMMA CapKeepsProven ==
    ASSUME BookTypeOK, NEW b \in [Addrs -> Records], NEW c \in Pruned(b), NEW a \in Addrs, NEW d \in Addrs,
           c[a].known, c[a].last_connected = 0,
           b[d].known, b[d].last_connected > 0, ~is_stale(b[d])
    PROVE  c[d].known
<1> DEFINE fresh == {x \in KnownIn(b) : ~is_stale(b[x])}
           kept == IF MaxSize > 0 THEN BestOf(b, fresh, MaxSize) ELSE {fresh}
<1>1. PICK k \in kept : c = [x \in Addrs |-> IF x \in k THEN b[x] ELSE Absent]
  BY DEF Pruned
<1>2. d \in fresh
  BY DEF KnownIn
<1>3. a \in k /\ b[a].last_connected = 0
  BY <1>1 DEF Absent
<1>4. better(b[d], b[a])
  BY <1>3 DEF better
<1>5. d \in k
  <2>1. CASE MaxSize > 0
    <3>1. \A x \in k, y \in fresh \ k : ~better(b[y], b[x])
      BY <1>1, <2>1 DEF BestOf
    <3> QED BY <1>2, <1>3, <1>4, <3>1
  <2>2. CASE ~(MaxSize > 0)
    BY <1>1, <1>2, <2>2
  <2> QED BY <2>1, <2>2
<1> QED BY <1>1, <1>5

(* The constructor's load, prune and save (peer_book.cpp) never trade an   *)
(* address that once worked for one that never did, whatever was on disk.  *)
THEOREM RestartsKeepProven == BookSpec => RestartKeepsProven
<1> DEFINE Kept == Restart =>
         \A a, d \in Addrs :
            (/\ records'[a].known /\ records'[a].last_connected = 0
             /\ Loaded[d].known /\ Loaded[d].last_connected > 0
             /\ ~is_stale(Loaded[d]))
                => records'[d].known
<1>1. ASSUME BookTypeOK PROVE Kept
  <2> SUFFICES ASSUME Restart PROVE \A a, d \in Addrs :
            (/\ records'[a].known /\ records'[a].last_connected = 0
             /\ Loaded[d].known /\ Loaded[d].last_connected > 0
             /\ ~is_stale(Loaded[d]))
                => records'[d].known
    OBVIOUS
  <2>1. Loaded \in [Addrs -> Records]
    BY <1>1, EmptyBook DEF Loaded, BookTypeOK
  <2>2. records' \in Pruned(Loaded)
    BY DEF Restart
  <2> QED BY <1>1, <2>1, <2>2, CapKeepsProven
<1> QED BY <1>1, BookTypeCorrect, PTL DEF RestartKeepsProven

-----------------------------------------------------------------------------
(* File transfer.                                                          *)

(* The chunks that make up a file.                                         *)
LEMMA Rounds ==
    ASSUME NEW s \in Nat, NEW q \in Nat, q * Chunk < s, s <= q * Chunk + Chunk
    PROVE  (s + Chunk - 1) \div Chunk = q + 1
  <1>1. Chunk \in Nat /\ Chunk > 0
    BY TransferAssumption
  <1> QED
    BY <1>1

LEMMA Quotients ==
    ASSUME NEW a \in Nat, NEW c \in Nat, c > 0
    PROVE  a \div c \in Nat
  OBVIOUS

LEMMA NoRounds == (0 + Chunk - 1) \div Chunk = 0
  <1>1. Chunk \in Nat /\ Chunk > 0
    BY TransferAssumption
  <1> QED
    BY <1>1

-----------------------------------------------------------------------------
(* What there is.  A FILE_END job of x names a file of x and carries the   *)
(* digest of the whole file.                                               *)
Jobs(x) ==
    {m \in [op : {"CHUNK"}, id : Nat, a : [file : Nat, off : Nat, len : Nat]]
              \cup [op : {"FILE_END"}, id : Nat, a : [file : Nat, sha : Seq(Nat)]] :
        m.op = "FILE_END" => m.a.file \in Files(x) /\ m.a.sha = Whole(x, m.a.file)}

OutType ==
    [st : Statuses, fin : BOOLEAN, file : Nat, off : Nat, sent : Nat, acked : Nat, active : BOOLEAN, hash : Seq(Nat)]
IncType(x) ==
    [st : Statuses, fin : BOOLEAN, erased : BOOLEAN, file : Nat, enq : Nat, wq : Seq(Jobs(x)), scheduled : BOOLEAN,
     done : Nat, lastAck : Nat, got : Nat, hash : Seq(Nat), hashing : Nat, final : SUBSET Nat]
WorkerType == [at : {"idle", "top", "send", "sent", "wait", "exit"}, x : Xfers \cup {0}, file : Nat, off : Nat]

TransferTypes ==
    /\ out \in [Xfers -> OutType]
    /\ DOMAIN inc = Xfers /\ \A x \in Xfers : inc[x] \in IncType(x)
    /\ wk \in [Nodes -> [Workers -> WorkerType]]
    /\ ready \in [Nodes -> Seq(Xfers)]
    /\ DOMAIN dk = Nodes /\ \A n \in Nodes : DOMAIN dk[n] = Disks
    /\ \A n \in Nodes, d \in Disks : DOMAIN dk[n][d] = {"at", "x", "job"}
    /\ DOMAIN placed = Xfers

(* Every file of x is in its place.                                        *)
Delivered(x) == {p.file : p \in placed[x]} = Files(x)

(* What may be said on a way: the digest of a file is that of the whole    *)
(* file, and success means that every file is in its place.                *)
Plain == [op : {"RESPONSE", "COMPLETE", "CANCEL", "PAUSE", "RESUME"}, id : Nat, a : [ok : BOOLEAN]]
Said(way) ==
    [op : {"OFFER"}, id : Nat, a : [xfer : Xfers]]
      \cup {m \in Plain : m.op = "COMPLETE" /\ m.a.ok =>
                             \A x \in Xfers : From[x] = way[2] /\ Id[x] = m.id => Delivered(x)}
      \cup [op : {"PROGRESS"}, id : Nat, a : [bytes : Nat]]
      \cup {m \in [op : {"CHUNK"}, id : Nat, a : [file : Nat, off : Nat, len : Nat]]
                     \cup [op : {"FILE_END"}, id : Nat, a : [file : Nat, sha : Seq(Nat)]] :
               \A x \in Xfers : Down(x) = way /\ Id[x] = m.id => m \in Jobs(x)}

Traffic == DOMAIN chan = Nodes \X Nodes /\ \A way \in Nodes \X Nodes : chan[way] \in Seq(Said(way))

(* The sender's hash covers the chunks before the cursor, in order.        *)
Run(h) == \A k \in 1..Len(h) : h[k] = (k - 1) * Chunk
Hashed(t) == Run(t.hash) /\ t.off = Len(t.hash) * Chunk

Cursor(x, t) ==
    t.off > 0 => Hashed(t) /\ t.file \in Files(x) /\ t.off < Sizes[x][t.file]

(* What a worker remembers of its transfer is the cursor.                  *)
Owns(r, t) ==
    /\ t.active
    /\ r.at \in {"send", "sent"} =>
         r.file = t.file /\ r.off = t.off /\ t.file \in Files(r.x) /\ Hashed(t)

(* A transfer has one send worker at most.                                 *)
Sending ==
    /\ \A x \in Xfers : Cursor(x, out[x])
    /\ \A n \in Nodes, w \in Workers :
          wk[n][w].at # "idle" =>
             /\ wk[n][w].x \in Xfers /\ From[wk[n][w].x] = n /\ Owns(wk[n][w], out[wk[n][w].x])
             /\ \A v \in Workers : wk[n][v].at # "idle" /\ wk[n][v].x = wk[n][w].x => v = w

(* A transfer is in the disk queue or with one disk writer, once.          *)
OnceQueued ==
    /\ \A n \in Nodes : \A k \in 1..Len(ready[n]) :
          /\ To[ready[n][k]] = n /\ inc[ready[n][k]].scheduled
          /\ \A j \in 1..Len(ready[n]) : ready[n][j] = ready[n][k] => j = k
    /\ \A n \in Nodes, d \in Disks :
          dk[n][d].at # "idle" =>
             /\ dk[n][d].x \in Xfers /\ To[dk[n][d].x] = n /\ inc[dk[n][d].x].scheduled
             /\ \A c \in Disks : dk[n][c].at # "idle" /\ dk[n][c].x = dk[n][d].x => c = d
             /\ \A k \in 1..Len(ready[n]) : ready[n][k] # dk[n][d].x

(* What is about to be moved into place was verified, and no other writer  *)
(* has touched the hash since.                                             *)
Verified(r, t) ==
    /\ r.at \in {"job", "place"} => r.job \in Jobs(r.x)
    /\ r.at = "place" => r.job.op = "FILE_END" /\ t.hash = r.job.a.sha
Writing == \A n \in Nodes, d \in Disks : Verified(dk[n][d], inc[dk[n][d].x])

(* The files in place are whole files of the transfer, and those counted   *)
(* as final are among them.                                                *)
Placed ==
    \A x \in Xfers :
        /\ \A p \in placed[x] : p.file \in Files(x) /\ p.chunks = Whole(x, p.file)
        /\ inc[x].final \subseteq {p.file : p \in placed[x]}
        /\ out[x].st = "Completed" => Delivered(x)

TransferInv == TransferTypes /\ Traffic /\ Sending /\ OnceQueued /\ Writing /\ Placed

LEMMA TransferInit == Init => TransferInv
  <1> SUFFICES ASSUME Init PROVE TransferInv
    OBVIOUS
  <1> USE DEF Init
  <1>1. NoOutgoing \in OutType /\ IdleWorker \in WorkerType /\ \A x \in Xfers : NoIncoming \in IncType(x)
    BY DEF NoOutgoing, OutType, IdleWorker, WorkerType, NoIncoming, IncType, Statuses
  <1>2. TransferTypes
    BY <1>1 DEF TransferTypes, IdleDisk
  <1>3. Traffic
    BY DEF Traffic
  <1>4. Sending
    BY DEF Sending, Cursor, NoOutgoing, IdleWorker
  <1>5. OnceQueued /\ Writing
    BY DEF OnceQueued, Writing, Verified, IdleDisk
  <1>6. Placed
    BY DEF Placed, NoOutgoing, NoIncoming
  <1> QED
    BY <1>2, <1>3, <1>4, <1>5, <1>6 DEF TransferInv

-----------------------------------------------------------------------------
(* What is left alone.                                                     *)
LEMMA SeqGrows ==
    ASSUME NEW S, NEW T, S \subseteq T
    PROVE  Seq(S) \subseteq Seq(T)
  OBVIOUS

LEMMA PairSaid ==
    ASSUME NEW S, NEW a \in S, NEW b \in S
    PROVE  <<a, b>> \in Seq(S)
  OBVIOUS

LEMMA SeqJoins ==
    ASSUME NEW S, NEW s \in Seq(S), NEW t \in Seq(S)
    PROVE  s \o t \in Seq(S)
  OBVIOUS

LEMMA SeqSplits ==
    ASSUME NEW S, NEW s \in Seq(S), s # <<>>
    PROVE  Head(s) \in S /\ Tail(s) \in Seq(S)
  OBVIOUS

LEMMA SaidGrows ==
    ASSUME NEW way \in Nodes \X Nodes, \A x \in Xfers : Delivered(x) => Delivered(x)'
    PROVE  Said(way) \subseteq Said(way)' /\ Seq(Said(way)) \subseteq Seq(Said(way)')
  <1>1. Said(way) \subseteq Said(way)'
    BY DEF Said
  <1> QED
    BY <1>1, SeqGrows

LEMMA SaidStays ==
    ASSUME placed' = placed, NEW way \in Nodes \X Nodes
    PROVE  Said(way)' = Said(way)
  BY DEF Said, Delivered

LEMMA TrafficAppend ==
    ASSUME Traffic, placed' = placed, NEW way \in Nodes \X Nodes, NEW m \in Said(way),
           chan' = [chan EXCEPT ![way] = Append(@, m)]
    PROVE  Traffic'
  <1>1. DOMAIN chan' = Nodes \X Nodes
    BY DEF Traffic
  <1>2. ASSUME NEW u \in Nodes \X Nodes PROVE chan'[u] \in Seq(Said(u))
    <2>1. chan[u] \in Seq(Said(u)) /\ chan[way] \in Seq(Said(way))
      BY DEF Traffic
    <2>2. CASE u = way
      BY <2>1, <2>2 DEF Traffic
    <2>3. CASE u # way
      BY <2>1, <2>3 DEF Traffic
    <2> QED
      BY <2>2, <2>3
  <1> QED
    BY <1>1, <1>2, SaidStays DEF Traffic

LEMMA TrafficStays ==
    ASSUME Traffic, placed' = placed, chan' = chan
    PROVE  Traffic'
  BY SaidStays DEF Traffic

LEMMA WaysExist ==
    ASSUME NEW x \in Xfers
    PROVE  /\ Down(x) \in Nodes \X Nodes /\ Up(x) \in Nodes \X Nodes
           /\ Down(x)[1] = From[x] /\ Down(x)[2] = To[x] /\ Up(x)[1] = To[x] /\ Up(x)[2] = From[x]
  BY TransferAssumption DEF Down, Up

(* Whatever does not claim success may be said anywhere.                   *)
LEMMA PlainSaid ==
    ASSUME NEW way \in Nodes \X Nodes, NEW id \in Nat, NEW ok \in BOOLEAN,
           NEW op \in {"RESPONSE", "COMPLETE", "CANCEL", "PAUSE", "RESUME"}, op = "COMPLETE" => ~ok
    PROVE  [op |-> op, id |-> id, a |-> Ok(ok)] \in Said(way)
  BY DEF Said, Plain, Ok

(* An Outgoing whose cursor, hash and owner stay, an Incoming whose hash,  *)
(* queue place and files do.                                               *)
OutSame(t, u) ==
    u \in OutType /\ u.file = t.file /\ u.off = t.off /\ u.active = t.active /\ u.hash = t.hash
IncSame(x, t, u) ==
    u \in IncType(x) /\ u.scheduled = t.scheduled /\ u.hash = t.hash /\ u.final = t.final

LEMMA OutFinished ==
    ASSUME NEW t \in OutType, NEW ok \in BOOLEAN
    PROVE  /\ OutSame(t, t) /\ OutSame(t, Finished(t, ok)) /\ OutSame(t, Cancelled(t))
           /\ Finished(t, ok).st = "Completed" => t.st = "Completed" \/ ok
           /\ Cancelled(t).st # "Completed"
           /\ \A s \in Statuses : OutSame(t, [t EXCEPT !.st = s]) /\ [t EXCEPT !.st = s].st = s
           /\ \A b \in Nat : OutSame(t, [t EXCEPT !.acked = b]) /\ [t EXCEPT !.acked = b].st = t.st
  <1> USE DEF OutSame, OutType, Statuses
  <1>1. OutSame(t, t) /\ \A s \in Statuses : OutSame(t, [t EXCEPT !.st = s]) /\ [t EXCEPT !.st = s].st = s
    OBVIOUS
  <1>2. \A b \in Nat : OutSame(t, [t EXCEPT !.acked = b]) /\ [t EXCEPT !.acked = b].st = t.st
    OBVIOUS
  <1>3. /\ OutSame(t, Finished(t, ok))
        /\ Finished(t, ok).st = "Completed" => t.st = "Completed" \/ ok
    BY DEF Finished
  <1>4. OutSame(t, Cancelled(t)) /\ Cancelled(t).st # "Completed"
    BY DEF Finished, Cancelled
  <1> QED
    BY <1>1, <1>2, <1>3, <1>4

LEMMA IncFinished ==
    ASSUME NEW x \in Xfers, NEW t \in IncType(x), NEW ok \in BOOLEAN
    PROVE  /\ IncSame(x, t, t) /\ IncSame(x, t, Finished(t, ok)) /\ IncSame(x, t, Cancelled(t))
           /\ \A s \in Statuses : IncSame(x, t, [t EXCEPT !.st = s])
           /\ IncSame(x, t, [t EXCEPT !.erased = TRUE])
  <1> USE DEF IncSame, IncType, Statuses
  <1>1. IncSame(x, t, t) /\ \A s \in Statuses : IncSame(x, t, [t EXCEPT !.st = s])
    OBVIOUS
  <1>2. IncSame(x, t, [t EXCEPT !.erased = TRUE])
    OBVIOUS
  <1>3. IncSame(x, t, Finished(t, ok))
    BY DEF Finished
  <1>4. IncSame(x, t, Cancelled(t))
    BY DEF Finished, Cancelled
  <1> QED
    BY <1>1, <1>2, <1>3, <1>4

LEMMA OutOne ==
    ASSUME TransferTypes, NEW x \in Xfers, NEW u, OutSame(out[x], u), out' = [out EXCEPT ![x] = u]
    PROVE  /\ out' \in [Xfers -> OutType] /\ out'[x] = u
           /\ \A y \in Xfers : OutSame(out[y], out'[y]) /\ (y # x => out'[y] = out[y])
  <1>1. \A y \in Xfers : out[y] \in OutType
    BY DEF TransferTypes
  <1>2. \A y \in Xfers : OutSame(out[y], out[y])
    BY <1>1 DEF OutSame
  <1>3. u \in OutType
    BY DEF OutSame
  <1>4. out'[x] = u /\ \A y \in Xfers : y # x => out'[y] = out[y]
    BY DEF TransferTypes
  <1>5. out' \in [Xfers -> OutType]
    BY <1>3 DEF TransferTypes
  <1> QED
    BY <1>2, <1>4, <1>5

LEMMA OutMany ==
    ASSUME TransferTypes, out' = [y \in Xfers |-> out'[y]], \A y \in Xfers : OutSame(out[y], out'[y])
    PROVE  out' \in [Xfers -> OutType]
  BY DEF OutSame

LEMMA SendingStays ==
    ASSUME TransferTypes, Sending, wk' = wk, out' \in [Xfers -> OutType], \A x \in Xfers : OutSame(out[x], out'[x])
    PROVE  Sending'
  <1>1. \A x \in Xfers : /\ Cursor(x, out[x]) => Cursor(x, out'[x])
                         /\ \A r : Owns(r, out[x]) => Owns(r, out'[x])
    BY DEF OutSame, Hashed, Cursor, Owns
  <1> QED
    BY <1>1 DEF Sending

LEMMA ReceivingStays ==
    ASSUME TransferTypes, OnceQueued, Writing, ready' = ready, dk' = dk,
           \A x \in Xfers : inc'[x].scheduled = inc[x].scheduled /\ inc'[x].hash = inc[x].hash
    PROVE  OnceQueued' /\ Writing'
  <1>1. OnceQueued'
    <2>1. \A n \in Nodes : \A k \in 1..Len(ready[n]) : ready[n][k] \in Xfers
      BY DEF TransferTypes
    <2> QED
      BY <2>1 DEF OnceQueued
  <1>2. Writing'
    BY DEF TransferTypes, OnceQueued, Writing, Verified
  <1> QED
    BY <1>1, <1>2

(* A step that only changes statuses and says something true.              *)
LEMMA ControlStep ==
    ASSUME TransferInv, Traffic', UNCHANGED <<wk, ready, dk, placed>>,
           out' \in [Xfers -> OutType], \A x \in Xfers : OutSame(out[x], out'[x]),
           \A x \in Xfers : out'[x].st = "Completed" => out[x].st = "Completed" \/ Delivered(x),
           DOMAIN inc' = Xfers, \A x \in Xfers : IncSame(x, inc[x], inc'[x])
    PROVE  TransferInv'
  <1>1. TransferTypes'
    BY DEF TransferInv, TransferTypes, IncSame
  <1>2. Sending'
    BY SendingStays DEF TransferInv
  <1>3. OnceQueued' /\ Writing'
    BY ReceivingStays DEF TransferInv, IncSame
  <1>4. Placed'
    BY DEF TransferInv, Placed, IncSame, Delivered
  <1> QED
    BY <1>1, <1>2, <1>3, <1>4 DEF TransferInv

-----------------------------------------------------------------------------
(* The application, the clock and the network.                             *)
LEMMA StartSendKeeps ==
    ASSUME TransferInv, NEW x \in Xfers, StartSend(x)
    PROVE  TransferInv'
  <1>1. /\ out' = [out EXCEPT ![x].st = "Pending"] /\ inc' = inc
        /\ chan' = [chan EXCEPT ![Down(x)] = Append(@, Msg("OFFER", x, [xfer |-> x]))]
        /\ UNCHANGED <<wk, ready, dk, placed>>
    BY DEF StartSend, Send
  <1>2. Msg("OFFER", x, [xfer |-> x]) \in Said(Down(x))
    BY TransferAssumption DEF Msg, Said
  <1>3. Traffic'
    BY <1>1, <1>2, TrafficAppend, WaysExist DEF TransferInv
  <1>4. /\ out' \in [Xfers -> OutType]
        /\ \A y \in Xfers : OutSame(out[y], out'[y]) /\ (out'[y].st = "Completed" => out[y].st = "Completed")
    <2>1. out[x] \in OutType /\ "Pending" \in Statuses /\ TransferTypes
      BY DEF TransferInv, TransferTypes, Statuses
    <2>2. OutSame(out[x], [out[x] EXCEPT !.st = "Pending"]) /\ [out[x] EXCEPT !.st = "Pending"].st = "Pending"
      BY <2>1, OutFinished
    <2>3. out' = [out EXCEPT ![x] = [out[x] EXCEPT !.st = "Pending"]]
      BY <1>1
    <2> QED
      BY <2>1, <2>2, <2>3, OutOne
  <1>5. DOMAIN inc' = Xfers /\ \A y \in Xfers : IncSame(y, inc[y], inc'[y])
    BY <1>1, IncFinished DEF TransferInv, TransferTypes
  <1> QED
    BY <1>1, <1>3, <1>4, <1>5, ControlStep

LEMMA AcceptKeeps ==
    ASSUME TransferInv, NEW x \in Xfers, Accept(x)
    PROVE  TransferInv'
  <1>1. out' = out /\ UNCHANGED <<wk, ready, dk, placed>> /\ Traffic /\ TransferTypes /\ Placed
    BY DEF Accept, TransferInv
  <1>2. Msg("RESPONSE", x, Ok(TRUE)) \in Said(Up(x))
    BY PlainSaid, WaysExist, TransferAssumption DEF Msg
  <1>3. DOMAIN inc' = Xfers /\ \A y \in Xfers : IncSame(y, inc[y], inc'[y])
    <2>1. \/ inc' = [inc EXCEPT ![x] = Finished([@ EXCEPT !.st = "Active"], TRUE)]
          \/ inc' = [inc EXCEPT ![x].st = "Active"]
      BY DEF Accept
    <2>2. \A y \in Xfers : inc[y] \in IncType(y) /\ IncSame(y, inc[y], inc[y])
      BY <1>1, IncFinished DEF TransferTypes
    <2>3. IncSame(x, inc[x], [inc[x] EXCEPT !.st = "Active"])
      BY <2>2, IncFinished DEF Statuses
    <2>4. IncSame(x, inc[x], Finished([inc[x] EXCEPT !.st = "Active"], TRUE))
      BY <2>3, IncFinished DEF IncSame
    <2> QED
      BY <1>1, <2>1, <2>2, <2>3, <2>4 DEF TransferTypes
  <1>4. Traffic'
    <2>1. CASE Files(x) = {}
      <3>1. Delivered(x)
        BY <1>1, <2>1 DEF Placed, Delivered
      <3>2. Msg("COMPLETE", x, Ok(TRUE)) \in Said(Up(x))
        BY <3>1, WaysExist, TransferAssumption DEF Msg, Ok, Said, Plain
      <3>3. chan' = [chan EXCEPT ![Up(x)] = @ \o <<Msg("RESPONSE", x, Ok(TRUE)), Msg("COMPLETE", x, Ok(TRUE))>>]
        BY <2>1 DEF Accept
      <3>4. <<Msg("RESPONSE", x, Ok(TRUE)), Msg("COMPLETE", x, Ok(TRUE))>> \in Seq(Said(Up(x)))
        BY <1>2, <3>2, PairSaid
      <3>5. ASSUME NEW u \in Nodes \X Nodes PROVE chan'[u] \in Seq(Said(u))
        <4>1. chan[u] \in Seq(Said(u))
          BY <1>1 DEF Traffic
        <4>2. CASE u = Up(x)
          <5>1. chan'[u] = chan[u] \o <<Msg("RESPONSE", x, Ok(TRUE)), Msg("COMPLETE", x, Ok(TRUE))>>
            BY <1>1, <3>3, <4>2 DEF Traffic
          <5> QED
            BY <3>4, <4>1, <4>2, <5>1, SeqJoins
        <4>3. CASE u # Up(x)
          BY <1>1, <3>3, <4>1, <4>3 DEF Traffic
        <4> QED
          BY <4>2, <4>3
      <3> QED
        BY <1>1, <3>3, <3>5, SaidStays DEF Traffic
    <2>2. CASE Files(x) # {}
      <3>1. chan' = [chan EXCEPT ![Up(x)] = Append(@, Msg("RESPONSE", x, Ok(TRUE)))]
        BY <2>2 DEF Accept, Send
      <3> QED
        BY <1>1, <1>2, <3>1, TrafficAppend, WaysExist
    <2> QED
      BY <2>1, <2>2
  <1>5. out' \in [Xfers -> OutType] /\ \A y \in Xfers : OutSame(out[y], out'[y])
    BY <1>1, OutFinished DEF TransferTypes
  <1> QED
    BY <1>1, <1>3, <1>4, <1>5, ControlStep

LEMMA OneIncomingKeeps ==
    ASSUME TransferInv, NEW x \in Xfers, Reject(x) \/ TimeoutIncoming(x)
    PROVE  TransferInv'
  <1>1. out' = out /\ UNCHANGED <<wk, ready, dk, placed>> /\ Traffic /\ TransferTypes
    BY DEF Reject, TimeoutIncoming, TransferInv
  <1>2. PICK op \in {"RESPONSE", "COMPLETE"} : chan' = [chan EXCEPT ![Up(x)] = Append(@, Msg(op, x, Ok(FALSE)))]
    BY DEF Reject, TimeoutIncoming, Send
  <1>3. Msg(op, x, Ok(FALSE)) \in Said(Up(x))
    BY PlainSaid, WaysExist, TransferAssumption DEF Msg
  <1>4. Traffic'
    BY <1>1, <1>2, <1>3, TrafficAppend, WaysExist
  <1>5. DOMAIN inc' = Xfers /\ \A y \in Xfers : IncSame(y, inc[y], inc'[y])
    <2>1. inc' = [inc EXCEPT ![x].erased = TRUE] \/ inc' = [inc EXCEPT ![x] = Finished(@, FALSE)]
      BY DEF Reject, TimeoutIncoming
    <2> QED
      BY <1>1, <2>1, IncFinished DEF TransferTypes
  <1>6. out' \in [Xfers -> OutType] /\ \A y \in Xfers : OutSame(out[y], out'[y])
    BY <1>1, OutFinished DEF TransferTypes
  <1> QED
    BY <1>1, <1>4, <1>5, <1>6, ControlStep

LEMMA TimeoutOutgoingKeeps ==
    ASSUME TransferInv, NEW x \in Xfers, TimeoutOutgoing(x)
    PROVE  TransferInv'
  <1>1. /\ out' = [out EXCEPT ![x] = Finished(@, FALSE)] /\ inc' = inc
        /\ chan' = [chan EXCEPT ![Down(x)] = Append(@, Msg("COMPLETE", x, Ok(FALSE)))]
        /\ UNCHANGED <<wk, ready, dk, placed>>
    BY DEF TimeoutOutgoing, Send
  <1>2. Msg("COMPLETE", x, Ok(FALSE)) \in Said(Down(x))
    BY PlainSaid, WaysExist, TransferAssumption DEF Msg
  <1>3. Traffic'
    BY <1>1, <1>2, TrafficAppend, WaysExist DEF TransferInv
  <1>4. /\ out' \in [Xfers -> OutType]
        /\ \A y \in Xfers : OutSame(out[y], out'[y]) /\ (out'[y].st = "Completed" => out[y].st = "Completed")
    <2>1. out[x] \in OutType /\ TransferTypes
      BY DEF TransferInv, TransferTypes
    <2>2. /\ OutSame(out[x], Finished(out[x], FALSE))
          /\ Finished(out[x], FALSE).st = "Completed" => out[x].st = "Completed"
      BY <2>1, OutFinished
    <2>3. out' = [out EXCEPT ![x] = Finished(out[x], FALSE)]
      BY <1>1
    <2> QED
      BY <2>1, <2>2, <2>3, OutOne
  <1>5. DOMAIN inc' = Xfers /\ \A y \in Xfers : IncSame(y, inc[y], inc'[y])
    BY <1>1, IncFinished DEF TransferInv, TransferTypes
  <1> QED
    BY <1>1, <1>3, <1>4, <1>5, ControlStep

LEMMA TrafficEach ==
    ASSUME placed' = placed, DOMAIN chan' = Nodes \X Nodes, \A u \in Nodes \X Nodes : chan'[u] \in Seq(Said(u))
    PROVE  Traffic'
  BY SaidStays DEF Traffic

WithStatus(t, s) == [t EXCEPT !.st = s]

(* The ways an Outgoing is ended, paused or resumed.                       *)
LEMMA OutControlled ==
    ASSUME NEW t \in OutType
    PROVE  /\ OutSame(t, t)
           /\ OutSame(t, Cancelled(t)) /\ Cancelled(t).st # "Completed"
           /\ OutSame(t, Finished(t, FALSE)) /\ (Finished(t, FALSE).st = "Completed" => t.st = "Completed")
           /\ OutSame(t, Finished(t, TRUE))
           /\ OutSame(t, WithStatus(t, "Paused")) /\ WithStatus(t, "Paused").st # "Completed"
           /\ OutSame(t, WithStatus(t, "Active")) /\ WithStatus(t, "Active").st # "Completed"
  <1>1. "Paused" \in Statuses /\ "Active" \in Statuses /\ "Paused" # "Completed" /\ "Active" # "Completed"
    BY DEF Statuses
  <1> QED
    BY <1>1, OutFinished DEF WithStatus

LEMMA IncControlled ==
    ASSUME NEW x \in Xfers, NEW t \in IncType(x)
    PROVE  /\ IncSame(x, t, t) /\ IncSame(x, t, Cancelled(t)) /\ IncSame(x, t, Finished(t, FALSE))
           /\ IncSame(x, t, WithStatus(t, "Paused")) /\ IncSame(x, t, WithStatus(t, "Active"))
           /\ IncSame(x, t, WithStatus(t, "Pending"))
  <1>1. "Paused" \in Statuses /\ "Active" \in Statuses /\ "Pending" \in Statuses
    BY DEF Statuses
  <1> QED
    BY <1>1, IncFinished DEF WithStatus

(* Many transfers at once.                                                 *)
LEMMA ManyControlled ==
    ASSUME TransferInv, Traffic', UNCHANGED <<wk, ready, dk, placed>>,
           out' = [y \in Xfers |-> out'[y]],
           \A y \in Xfers : \/ out'[y] \in {out[y], Cancelled(out[y]), Finished(out[y], FALSE),
                                            WithStatus(out[y], "Paused"), WithStatus(out[y], "Active")}
                            \/ Delivered(y) /\ out'[y] = Finished(out[y], TRUE),
           DOMAIN inc' = Xfers,
           \A y \in Xfers : inc'[y] \in {inc[y], Cancelled(inc[y]), Finished(inc[y], FALSE),
                                         WithStatus(inc[y], "Paused"), WithStatus(inc[y], "Active"),
                                         WithStatus(inc[y], "Pending")}
    PROVE  TransferInv'
  <1>1. \A y \in Xfers : out[y] \in OutType /\ inc[y] \in IncType(y)
    BY DEF TransferInv, TransferTypes
  <1>2. \A y \in Xfers : /\ OutSame(out[y], out'[y])
                         /\ out'[y].st = "Completed" => out[y].st = "Completed" \/ Delivered(y)
    <2> SUFFICES ASSUME NEW y \in Xfers
                 PROVE  /\ OutSame(out[y], out'[y])
                        /\ out'[y].st = "Completed" => out[y].st = "Completed" \/ Delivered(y)
      OBVIOUS
    <2>1. out[y] \in OutType
      BY <1>1
    <2> QED
      BY <2>1, OutControlled
  <1>3. \A y \in Xfers : IncSame(y, inc[y], inc'[y])
    <2> SUFFICES ASSUME NEW y \in Xfers PROVE IncSame(y, inc[y], inc'[y])
      OBVIOUS
    <2>1. inc[y] \in IncType(y)
      BY <1>1
    <2> QED
      BY <2>1, IncControlled
  <1>4. out' \in [Xfers -> OutType]
    BY <1>2, OutMany DEF TransferInv
  <1> QED
    BY <1>2, <1>3, <1>4, ControlStep

LEMMA CancelKeeps ==
    ASSUME TransferInv, NEW n \in Nodes, NEW peer \in Nodes, NEW i \in Nat, Cancel(n, peer, i)
    PROVE  TransferInv'
  <1> DEFINE note == [op |-> "CANCEL", id |-> i, a |-> Ok(TRUE)]
  <1>1. Traffic'
    <2>1. DOMAIN chan' = Nodes \X Nodes /\ placed' = placed
      BY DEF Cancel
    <2>2. ASSUME NEW u \in Nodes \X Nodes PROVE chan'[u] \in Seq(Said(u))
      <3>1. note \in Said(u)
        BY PlainSaid
      <3>2. <<note>> \in Seq(Said(u)) /\ <<>> \in Seq(Said(u))
        BY <3>1
      <3>3. chan[u] \in Seq(Said(u))
        BY DEF TransferInv, Traffic
      <3>4. PICK a \in {<<note>>, <<>>}, b \in {<<note>>, <<>>} : chan'[u] = chan[u] \o a \o b
        BY DEF Cancel
      <3>5. a \in Seq(Said(u)) /\ b \in Seq(Said(u))
        BY <3>2
      <3> HIDE DEF note
      <3> QED
        BY <3>3, <3>4, <3>5, SeqJoins
    <2> QED
      BY <2>1, <2>2, TrafficEach
  <1>2. UNCHANGED <<wk, ready, dk, placed>>
    BY DEF Cancel
  <1>3. /\ out' = [y \in Xfers |-> out'[y]]
        /\ \A y \in Xfers : out'[y] \in {out[y], Cancelled(out[y])}
    BY DEF Cancel
  <1>4. DOMAIN inc' = Xfers /\ \A y \in Xfers : inc'[y] \in {inc[y], Cancelled(inc[y])}
    BY DEF Cancel
  <1> QED
    BY <1>1, <1>2, <1>3, <1>4, ManyControlled

LEMMA PauseKeeps ==
    ASSUME TransferInv, NEW n \in Nodes, NEW peer \in Nodes, NEW i \in Nat,
           Pause(n, peer, i) \/ Resume(n, peer, i)
    PROVE  TransferInv'
  <1>1. Traffic'
    <2>1. PICK op \in {"PAUSE", "RESUME"}, way \in Nodes \X Nodes :
             chan' = [chan EXCEPT ![way] = Append(@, [op |-> op, id |-> i, a |-> Ok(TRUE)])]
      <3>1. \A x \in Xfers : Down(x) \in Nodes \X Nodes
        BY WaysExist
      <3>2. CASE Pause(n, peer, i)
        <4> DEFINE os == {x \in FindOutgoing(n, i) : out[x].st = "Active"}
                   way == IF os # {} THEN Down(CHOOSE x \in os : TRUE) ELSE <<n, peer>>
        <4>1. way \in Nodes \X Nodes
          <5>1. os # {} => (CHOOSE x \in os : TRUE) \in Xfers
            BY DEF FindOutgoing
          <5> QED
            BY <3>1, <5>1
        <4>2. chan' = [chan EXCEPT ![way] = Append(@, [op |-> "PAUSE", id |-> i, a |-> Ok(TRUE)])]
          BY <3>2 DEF Pause, Send
        <4> QED
          BY <4>1, <4>2
      <3>3. CASE Resume(n, peer, i)
        <4> DEFINE os == {x \in FindOutgoing(n, i) : out[x].st = "Paused"}
                   way == IF os # {} THEN Down(CHOOSE x \in os : TRUE) ELSE <<n, peer>>
        <4>1. way \in Nodes \X Nodes
          <5>1. os # {} => (CHOOSE x \in os : TRUE) \in Xfers
            BY DEF FindOutgoing
          <5> QED
            BY <3>1, <5>1
        <4>2. chan' = [chan EXCEPT ![way] = Append(@, [op |-> "RESUME", id |-> i, a |-> Ok(TRUE)])]
          BY <3>3 DEF Resume, Send
        <4> QED
          BY <4>1, <4>2
      <3> QED
        BY <3>2, <3>3
    <2>2. [op |-> op, id |-> i, a |-> Ok(TRUE)] \in Said(way)
      BY PlainSaid
    <2>3. placed' = placed
      BY DEF Pause, Resume
    <2> QED
      BY <2>1, <2>2, <2>3, TrafficAppend DEF TransferInv
  <1>2. UNCHANGED <<wk, ready, dk, placed>>
    BY DEF Pause, Resume
  <1>3. /\ out' = [y \in Xfers |-> out'[y]]
        /\ \A y \in Xfers : out'[y] \in {out[y], WithStatus(out[y], "Paused"), WithStatus(out[y], "Active")}
    BY DEF Pause, Resume, WithStatus
  <1>4. /\ DOMAIN inc' = Xfers
        /\ \A y \in Xfers : inc'[y] \in {inc[y], WithStatus(inc[y], "Paused"), WithStatus(inc[y], "Active")}
    BY DEF Pause, Resume, TransferInv, TransferTypes, WithStatus
  <1> QED
    BY <1>1, <1>2, <1>3, <1>4, ManyControlled

LEMMA DisconnectKeeps ==
    ASSUME TransferInv, NEW x \in Xfers, Disconnect(x)
    PROVE  TransferInv'
  <1>1. Traffic'
    <2>1. chan' = [chan EXCEPT ![Down(x)] = <<>>, ![Up(x)] = <<>>] /\ placed' = placed
      BY DEF Disconnect
    <2>2. DOMAIN chan' = Nodes \X Nodes
      BY <2>1 DEF TransferInv, Traffic
    <2>3. ASSUME NEW u \in Nodes \X Nodes PROVE chan'[u] \in Seq(Said(u))
      <3>1. chan'[u] = chan[u] \/ chan'[u] = <<>>
        BY <2>1 DEF TransferInv, Traffic
      <3>2. chan[u] \in Seq(Said(u)) /\ <<>> \in Seq(Said(u))
        BY DEF TransferInv, Traffic
      <3> QED
        BY <3>1, <3>2
    <2> QED
      BY <2>1, <2>2, <2>3, TrafficEach
  <1>2. UNCHANGED <<wk, ready, dk, placed>>
    BY DEF Disconnect
  <1>3. /\ out' = [y \in Xfers |-> out'[y]]
        /\ \A y \in Xfers : out'[y] \in {out[y], Finished(out[y], FALSE)}
    BY DEF Disconnect
  <1>4. DOMAIN inc' = Xfers /\ \A y \in Xfers : inc'[y] \in {inc[y], Finished(inc[y], FALSE)}
    BY DEF Disconnect
  <1> QED
    BY <1>1, <1>2, <1>3, <1>4, ManyControlled

-----------------------------------------------------------------------------
(* Messages.                                                               *)
LEMMA TakenSaid ==
    ASSUME Traffic, NEW way \in Nodes \X Nodes, chan[way] # <<>>
    PROVE  Head(chan[way]) \in Said(way) /\ Tail(chan[way]) \in Seq(Said(way)) /\ Head(chan[way]).id \in Nat
  <1>1. chan[way] \in Seq(Said(way))
    BY DEF Traffic
  <1>2. Head(chan[way]) \in Said(way) /\ Tail(chan[way]) \in Seq(Said(way))
    BY <1>1
  <1>3. \A m \in Said(way) : m.id \in Nat
    BY DEF Said, Plain
  <1> QED
    BY <1>2, <1>3

LEMMA DeliverTraffic ==
    ASSUME Traffic, NEW peer \in Nodes, NEW n \in Nodes, Deliver(peer, n)
    PROVE  /\ Traffic' /\ UNCHANGED <<wk, dk, placed>>
           /\ Head(chan[<<peer, n>>]) \in Said(<<peer, n>>)
  <1> DEFINE m == Head(chan[<<peer, n>>])
  <1>1. UNCHANGED <<wk, dk, placed>> /\ chan[<<peer, n>>] # <<>>
    BY DEF Deliver, OnOffer, OnResponse, OnData, OnProgress, OnComplete, OnCancel, OnPause, OnResume
  <1>2. m \in Said(<<peer, n>>) /\ Tail(chan[<<peer, n>>]) \in Seq(Said(<<peer, n>>)) /\ m.id \in Nat
    BY <1>1, TakenSaid
  <1>3. DOMAIN chan' = Nodes \X Nodes
    BY DEF Deliver
  <1>4. ASSUME NEW u \in Nodes \X Nodes PROVE chan'[u] \in Seq(Said(u))
    <2> DEFINE note == [op |-> "COMPLETE", id |-> m.id, a |-> Ok(FALSE)]
    <2>1. note \in Said(u) /\ chan[u] \in Seq(Said(u))
      BY <1>2, PlainSaid DEF Traffic
    <2>2. \/ u = <<peer, n>> /\ chan'[u] = Tail(chan[u])
          \/ chan'[u] = Append(chan[u], note)
          \/ chan'[u] = chan[u]
      BY DEF Deliver
    <2> HIDE DEF note
    <2>3. Append(chan[u], note) \in Seq(Said(u))
      BY <2>1
    <2> QED
      BY <1>2, <2>1, <2>2, <2>3
  <1> QED
    BY <1>1, <1>2, <1>3, <1>4, TrafficEach

LEMMA OnOfferKeeps ==
    ASSUME TransferInv, NEW peer \in Nodes, NEW n \in Nodes, Deliver(peer, n), NEW m \in Said(<<peer, n>>),
           OnOffer(n, peer, m)
    PROVE  TransferInv'
  <1>1. Traffic' /\ UNCHANGED <<wk, dk, placed, ready, out>>
    BY DeliverTraffic DEF OnOffer, TransferInv
  <1>2. m.a.xfer \in Xfers
    BY DEF OnOffer, Said, Plain
  <1>3. DOMAIN inc' = Xfers /\ \A y \in Xfers : inc'[y] \in {inc[y], WithStatus(inc[y], "Pending")}
    BY <1>2 DEF OnOffer, TransferInv, TransferTypes, WithStatus
  <1>4. out' = [y \in Xfers |-> out'[y]] /\ \A y \in Xfers : out'[y] = out[y]
    BY <1>1 DEF TransferInv, TransferTypes
  <1> QED
    BY <1>1, <1>3, <1>4, ManyControlled

LEMMA OnResponseKeeps ==
    ASSUME TransferInv, NEW peer \in Nodes, NEW n \in Nodes, Deliver(peer, n), NEW m \in Said(<<peer, n>>),
           OnResponse(n, peer, m)
    PROVE  TransferInv'
  <1>1. Traffic' /\ UNCHANGED <<wk, dk, placed, ready, inc>>
    BY DeliverTraffic DEF OnResponse, TransferInv
  <1>2. /\ out' = [y \in Xfers |-> out'[y]]
        /\ \A y \in Xfers : out'[y] \in {out[y], Finished(out[y], FALSE), WithStatus(out[y], "Active")}
    BY DEF OnResponse, WithStatus
  <1>3. DOMAIN inc' = Xfers /\ \A y \in Xfers : inc'[y] = inc[y]
    BY <1>1 DEF TransferInv, TransferTypes
  <1> QED
    BY <1>1, <1>2, <1>3, ManyControlled

LEMMA OnProgressKeeps ==
    ASSUME TransferInv, NEW peer \in Nodes, NEW n \in Nodes, Deliver(peer, n), NEW m \in Said(<<peer, n>>),
           OnProgress(n, peer, m)
    PROVE  TransferInv'
  <1>1. Traffic' /\ UNCHANGED <<wk, dk, placed, ready, inc>>
    BY DeliverTraffic DEF OnProgress, TransferInv
  <1>2. m.a.bytes \in Nat
    BY DEF OnProgress, Said, Plain
  <1>3. ASSUME NEW y \in Xfers PROVE OutSame(out[y], out'[y]) /\ (out'[y].st = "Completed" => out[y].st = "Completed")
    <2>1. out[y] \in OutType
      BY DEF TransferInv, TransferTypes
    <2>2. out'[y] = out[y] \/ out'[y] = [out[y] EXCEPT !.acked = m.a.bytes]
      BY DEF OnProgress
    <2>3. /\ OutSame(out[y], out[y]) /\ OutSame(out[y], [out[y] EXCEPT !.acked = m.a.bytes])
          /\ [out[y] EXCEPT !.acked = m.a.bytes].st = out[y].st
      BY <1>2, <2>1, OutFinished
    <2> QED
      BY <2>2, <2>3
  <1>4. out' = [y \in Xfers |-> out'[y]]
    BY DEF OnProgress
  <1>5. out' \in [Xfers -> OutType]
    BY <1>3, <1>4, OutMany DEF TransferInv
  <1>6. DOMAIN inc' = Xfers /\ \A y \in Xfers : IncSame(y, inc[y], inc'[y])
    BY <1>1, IncFinished DEF TransferInv, TransferTypes
  <1> QED
    BY <1>1, <1>3, <1>5, <1>6, ControlStep

(* Success is reported only for a transfer that was delivered.             *)
LEMMA OnCompleteKeeps ==
    ASSUME TransferInv, NEW peer \in Nodes, NEW n \in Nodes, Deliver(peer, n), NEW m \in Said(<<peer, n>>),
           OnComplete(n, peer, m)
    PROVE  TransferInv'
  <1>1. Traffic' /\ UNCHANGED <<wk, dk, placed, ready, inc>>
    BY DeliverTraffic DEF OnComplete, TransferInv
  <1>2. /\ m.a.ok \in BOOLEAN
        /\ m.a.ok => \A y \in Xfers : From[y] = n /\ Id[y] = m.id => Delivered(y)
    BY DEF OnComplete, Said, Plain
  <1>3. /\ out' = [y \in Xfers |-> out'[y]]
        /\ \A y \in Xfers : \/ out'[y] \in {out[y], Finished(out[y], FALSE)}
                            \/ Delivered(y) /\ out'[y] = Finished(out[y], TRUE)
    BY <1>2 DEF OnComplete, FindOutgoing
  <1>4. DOMAIN inc' = Xfers /\ \A y \in Xfers : inc'[y] = inc[y]
    BY <1>1 DEF TransferInv, TransferTypes
  <1> QED
    BY <1>1, <1>3, <1>4, ManyControlled

LEMMA OnControlKeeps ==
    ASSUME TransferInv, NEW peer \in Nodes, NEW n \in Nodes, Deliver(peer, n), NEW m \in Said(<<peer, n>>),
           OnCancel(n, peer, m) \/ OnPause(n, peer, m) \/ OnResume(n, peer, m)
    PROVE  TransferInv'
  <1>1. Traffic' /\ UNCHANGED <<wk, dk, placed, ready>>
    BY DeliverTraffic DEF OnCancel, OnPause, OnResume, TransferInv
  <1>2. /\ out' = [y \in Xfers |-> out'[y]]
        /\ \A y \in Xfers : out'[y] \in {out[y], Cancelled(out[y]), WithStatus(out[y], "Paused"),
                                         WithStatus(out[y], "Active")}
    BY DEF OnCancel, OnPause, OnResume, Switch, WithStatus
  <1>3. /\ DOMAIN inc' = Xfers
        /\ \A y \in Xfers : inc'[y] \in {inc[y], Cancelled(inc[y]), WithStatus(inc[y], "Paused"),
                                         WithStatus(inc[y], "Active")}
    BY DEF OnCancel, OnPause, OnResume, Switch, WithStatus
  <1> QED
    BY <1>1, <1>2, <1>3, ManyControlled

(* Chunks and digests of x are queued for x, once, and by the id of x.     *)
LEMMA OnDataKeeps ==
    ASSUME TransferInv, NEW peer \in Nodes, NEW n \in Nodes, Deliver(peer, n), NEW m \in Said(<<peer, n>>),
           OnData(n, peer, m)
    PROVE  TransferInv'
  <1> DEFINE xs == {x \in FindIncoming(n, peer, m.id) :
                      IF m.op = "CHUNK" THEN inc[x].st \in {"Active", "Paused"} ELSE m.a.file \in Files(x)}
             good == {x \in xs : InOrder(x, m)}
             new == {x \in good : ~inc[x].scheduled}
             queued(x) == [inc[x] EXCEPT !.wq = Append(@, m),
                                         !.enq = IF m.op = "CHUNK" THEN @ + m.a.len ELSE 0,
                                         !.file = IF m.op = "CHUNK" THEN @ ELSE @ + 1,
                                         !.scheduled = TRUE]
             nxt == CHOOSE x \in new : TRUE
  <1>1. /\ m.op \in {"CHUNK", "FILE_END"}
        /\ inc' = [x \in Xfers |-> IF x \in good THEN queued(x)
                                   ELSE IF x \in xs THEN Finished(inc[x], FALSE) ELSE inc[x]]
        /\ ready' = IF new = {} THEN ready ELSE [ready EXCEPT ![n] = Append(@, nxt)]
        /\ out' = out /\ placed' = placed
    BY DEF OnData
  <1>2. Traffic' /\ UNCHANGED <<wk, dk, placed>> /\ TransferTypes /\ OnceQueued /\ Writing /\ Placed
    BY DeliverTraffic DEF TransferInv
  <1>3. /\ good \subseteq Xfers /\ new \subseteq good
        /\ \A x \in good : To[x] = n /\ From[x] = peer /\ Id[x] = m.id
    BY DEF FindIncoming
  <1>4. \A x, y \in good : x = y
    BY <1>3, TransferAssumption
  <1>5. \A x \in good : m \in Jobs(x)
    <2>1. \A x \in good : Down(x) = <<peer, n>>
      BY <1>3 DEF Down
    <2> QED
      BY <1>1, <1>3, <2>1 DEF Said, Plain
  <1>6. ASSUME NEW x \in good PROVE queued(x) \in IncType(x) /\ queued(x).scheduled = TRUE
                                    /\ queued(x).hash = inc[x].hash /\ queued(x).final = inc[x].final
    <2>1. inc[x] \in IncType(x) /\ m \in Jobs(x)
      BY <1>2, <1>3, <1>5 DEF TransferTypes
    <2>2. m.op = "CHUNK" => m.a.len \in Nat
      BY <2>1 DEF Jobs
    <2> DEFINE q == Append(inc[x].wq, m)
               e == IF m.op = "CHUNK" THEN inc[x].enq + m.a.len ELSE 0
               f == IF m.op = "CHUNK" THEN inc[x].file ELSE inc[x].file + 1
    <2>3. q \in Seq(Jobs(x))
      BY <2>1 DEF IncType
    <2>4. e \in Nat /\ f \in Nat
      BY <2>1, <2>2 DEF IncType
    <2>5. queued(x) = [inc[x] EXCEPT !.wq = q, !.enq = e, !.file = f, !.scheduled = TRUE]
      OBVIOUS
    <2>6. x \in Xfers
      BY <1>3
    <2> HIDE DEF good, q, e, f, queued
    <2>7. /\ queued(x) \in IncType(x) /\ queued(x).scheduled = TRUE
          /\ queued(x).hash = inc[x].hash /\ queued(x).final = inc[x].final
      BY <2>1, <2>3, <2>4, <2>5 DEF IncType
    <2> QED
      BY <2>7
  <1>7. \A x \in Xfers : /\ inc'[x] \in IncType(x) /\ inc'[x].hash = inc[x].hash /\ inc'[x].final = inc[x].final
                         /\ inc'[x].scheduled = IF x \in good THEN TRUE ELSE inc[x].scheduled
    <2> SUFFICES ASSUME NEW x \in Xfers
                 PROVE  /\ inc'[x] \in IncType(x) /\ inc'[x].hash = inc[x].hash /\ inc'[x].final = inc[x].final
                        /\ inc'[x].scheduled = IF x \in good THEN TRUE ELSE inc[x].scheduled
      OBVIOUS
    <2>1. inc[x] \in IncType(x)
      BY <1>2 DEF TransferTypes
    <2>2. IncSame(x, inc[x], inc[x]) /\ IncSame(x, inc[x], Finished(inc[x], FALSE))
      BY <2>1, IncControlled
    <2>3. x \in good => inc'[x] = queued(x)
      BY <1>1
    <2>4. x \notin good => inc'[x] = inc[x] \/ inc'[x] = Finished(inc[x], FALSE)
      BY <1>1
    <2>5. x \in good => /\ queued(x) \in IncType(x) /\ queued(x).scheduled = TRUE
                        /\ queued(x).hash = inc[x].hash /\ queued(x).final = inc[x].final
      BY <1>6, <2>1 DEF IncType
    <2> HIDE DEF good, queued
    <2> QED
      BY <2>2, <2>3, <2>4, <2>5 DEF IncSame
  <1>8. new # {} => nxt \in Xfers /\ nxt \in good /\ To[nxt] = n /\ ~inc[nxt].scheduled
    BY <1>3
  <1> HIDE DEF good, xs, new, nxt, queued
  <1>9. TransferTypes'
    <2>1. ready' \in [Nodes -> Seq(Xfers)]
      BY <1>1, <1>2, <1>8 DEF TransferTypes
    <2>2. DOMAIN inc' = Xfers
      BY <1>1
    <2> QED
      BY <1>1, <1>2, <1>7, <2>1, <2>2 DEF TransferTypes
  <1>10. Sending'
    BY <1>1, <1>2 DEF TransferInv, Sending
  <1>11. OnceQueued'
    <2>1. \A x \in Xfers : inc[x].scheduled => inc'[x].scheduled
      BY <1>7
    <2>2. CASE new = {}
      <3>1. ready' = ready /\ \A u \in Nodes : \A k \in 1..Len(ready[u]) : ready[u][k] \in Xfers
        BY <1>1, <1>2, <2>2 DEF TransferTypes
      <3> QED
        BY <1>2, <2>1, <3>1 DEF OnceQueued
    <2>3. CASE new # {}
      <3>1. inc'[nxt].scheduled
        BY <1>7, <1>8, <2>3
      <3>2. \A u \in Nodes : ready[u] \in Seq(Xfers) /\ u # n => ready'[u] = ready[u]
        BY <1>1, <1>2, <2>3 DEF TransferTypes
      <3>3. /\ ready[n] \in Seq(Xfers) /\ Len(ready'[n]) = Len(ready[n]) + 1 /\ ready'[n][Len(ready[n]) + 1] = nxt
            /\ \A k \in 1..Len(ready[n]) : ready'[n][k] = ready[n][k] /\ ready[n][k] \in Xfers
        BY <1>1, <1>2, <1>8, <2>3 DEF TransferTypes
      <3>4. \A k \in 1..Len(ready[n]) : ready[n][k] # nxt
        BY <1>2, <1>8, <2>3 DEF OnceQueued
      <3>5. \A d \in Disks : dk[n][d].at # "idle" => dk[n][d].x # nxt
        BY <1>2, <1>8, <2>3 DEF OnceQueued
      <3> DEFINE Row(u) == \A k \in 1..Len(ready'[u]) :
                             /\ To[ready'[u][k]] = u /\ inc'[ready'[u][k]].scheduled
                             /\ \A j \in 1..Len(ready'[u]) : ready'[u][j] = ready'[u][k] => j = k
      <3>6. Row(n)
        <4>1. Len(ready[n]) \in Nat
          BY <3>3
        <4>2. \A k \in 1..Len(ready'[n]) : k \in 1..Len(ready[n]) \/ k = Len(ready[n]) + 1
          BY <3>3, <4>1
        <4>3. \A k \in 1..Len(ready[n]) : /\ To[ready[n][k]] = n /\ inc'[ready[n][k]].scheduled
                                          /\ \A j \in 1..Len(ready[n]) : ready[n][j] = ready[n][k] => j = k
          BY <1>2, <2>1, <3>3 DEF OnceQueued
        <4>4. ASSUME NEW k \in 1..Len(ready[n])
              PROVE  /\ To[ready'[n][k]] = n /\ inc'[ready'[n][k]].scheduled
                     /\ \A j \in 1..Len(ready'[n]) : ready'[n][j] = ready'[n][k] => j = k
          BY <3>3, <3>4, <4>2, <4>3
        <4>5. /\ To[nxt] = n /\ inc'[nxt].scheduled
              /\ \A j \in 1..Len(ready'[n]) : ready'[n][j] = nxt => j = Len(ready[n]) + 1
          BY <1>8, <2>3, <3>1, <3>3, <3>4, <4>2
        <4> QED
          BY <3>3, <4>2, <4>4, <4>5
      <3>7. ASSUME NEW u \in Nodes, u # n PROVE Row(u)
        <4>1. ready'[u] = ready[u] /\ \A k \in 1..Len(ready[u]) : ready[u][k] \in Xfers
          BY <3>2, <3>7, <1>2 DEF TransferTypes
        <4> QED
          BY <1>2, <2>1, <4>1 DEF OnceQueued
      <3>8. \A u \in Nodes, d \in Disks :
              dk[u][d].at # "idle" =>
                 /\ dk[u][d].x \in Xfers /\ To[dk[u][d].x] = u /\ inc'[dk[u][d].x].scheduled
                 /\ \A c \in Disks : dk[u][c].at # "idle" /\ dk[u][c].x = dk[u][d].x => c = d
        BY <1>2, <2>1 DEF OnceQueued
      <3>9. \A u \in Nodes, d \in Disks :
              dk[u][d].at # "idle" => \A k \in 1..Len(ready'[u]) : ready'[u][k] # dk[u][d].x
        <4>1. Len(ready[n]) \in Nat
          BY <3>3
        <4>2. \A k \in 1..Len(ready'[n]) : k \in 1..Len(ready[n]) \/ k = Len(ready[n]) + 1
          BY <3>3, <4>1
        <4> QED
          BY <1>2, <3>2, <3>3, <3>5, <4>2 DEF OnceQueued, TransferTypes
      <3>10. \A u \in Nodes : Row(u)
        BY <3>6, <3>7
      <3> QED
        BY <1>2, <3>8, <3>9, <3>10 DEF OnceQueued
    <2> QED
      BY <2>2, <2>3
  <1>12. Writing'
    <2>1. dk' = dk /\ \A x \in Xfers : inc'[x].hash = inc[x].hash
      BY <1>2, <1>7
    <2>2. \A u \in Nodes, d \in Disks : dk[u][d].at = "place" => dk[u][d].x \in Xfers
      BY <1>2 DEF OnceQueued
    <2> QED
      BY <1>2, <2>1, <2>2 DEF Writing, Verified
  <1>13. Placed'
    BY <1>1, <1>2, <1>7 DEF Placed, Delivered
  <1> QED
    BY <1>2, <1>9, <1>10, <1>11, <1>12, <1>13 DEF TransferInv

LEMMA DeliverKeeps ==
    ASSUME TransferInv, NEW peer \in Nodes, NEW n \in Nodes, Deliver(peer, n)
    PROVE  TransferInv'
  <1> DEFINE m == Head(chan[<<peer, n>>])
  <1>1. m \in Said(<<peer, n>>)
    BY DeliverTraffic DEF TransferInv
  <1>2. \/ OnOffer(n, peer, m) \/ OnResponse(n, peer, m) \/ OnData(n, peer, m)
        \/ OnProgress(n, peer, m) \/ OnComplete(n, peer, m) \/ OnCancel(n, peer, m)
        \/ OnPause(n, peer, m) \/ OnResume(n, peer, m)
    BY DEF Deliver
  <1> HIDE DEF m
  <1> QED
    BY <1>1, <1>2, OnOfferKeeps, OnResponseKeeps, OnDataKeeps, OnProgressKeeps, OnCompleteKeeps, OnControlKeeps

-----------------------------------------------------------------------------
(* Send workers.                                                           *)
LEMMA ReceiverStays ==
    ASSUME TransferInv, UNCHANGED <<inc, ready, dk, placed>>,
           \A x \in Xfers : out'[x].st = "Completed" => out[x].st = "Completed"
    PROVE  OnceQueued' /\ Writing' /\ Placed'
  <1>1. OnceQueued' /\ Writing'
    BY ReceivingStays DEF TransferInv
  <1>2. Placed'
    BY DEF TransferInv, Placed, Delivered
  <1> QED
    BY <1>1, <1>2

LEMMA WorkerTyped ==
    ASSUME TransferTypes, NEW n \in Nodes, NEW w \in Workers, NEW r \in WorkerType, wk' = [wk EXCEPT ![n][w] = r]
    PROVE  wk' \in [Nodes -> [Workers -> WorkerType]] /\ wk'[n][w] = r
  BY DEF TransferTypes

LEMMA ClaimKeeps ==
    ASSUME TransferInv, NEW n \in Nodes, NEW w \in Workers, Claim(n, w)
    PROVE  TransferInv'
  <1> DEFINE mine == {x \in FindOutgoing(n, Head(queue[n])) : ~out[x].active}
             own(x) == [out[x] EXCEPT !.active = TRUE]
             one == CHOOSE x \in mine : TRUE
             r == [IdleWorker EXCEPT !.at = "top", !.x = one]
  <1>1. /\ wk[n][w].at = "idle" /\ UNCHANGED <<inc, ready, dk, chan, placed>>
        /\ out' = [x \in Xfers |-> IF x \in mine THEN own(x) ELSE out[x]]
        /\ IF mine = {} THEN wk' = wk ELSE wk' = [wk EXCEPT ![n][w] = r]
    BY DEF Claim, SetWorker
  <1>2. TransferTypes /\ Sending /\ Traffic
    BY DEF TransferInv
  <1>3. \A x \in mine : x \in Xfers /\ From[x] = n /\ Id[x] = Head(queue[n]) /\ ~out[x].active
    BY DEF FindOutgoing
  <1>4. \A x, y \in mine : x = y
    BY <1>3, TransferAssumption
  <1>5. ASSUME NEW x \in Xfers
        PROVE  /\ own(x) \in OutType /\ own(x).active = TRUE /\ own(x).st = out[x].st
               /\ own(x).file = out[x].file /\ own(x).off = out[x].off /\ own(x).hash = out[x].hash
    <2>1. out[x] \in OutType
      BY <1>2 DEF TransferTypes
    <2> QED
      BY <2>1 DEF OutType
  <1>6. mine # {} => one \in mine
    OBVIOUS
  <1> HIDE DEF mine, own, one
  <1>7. /\ out' \in [Xfers -> OutType]
        /\ \A x \in Xfers : /\ out'[x].file = out[x].file /\ out'[x].off = out[x].off
                            /\ out'[x].hash = out[x].hash /\ out'[x].st = out[x].st
                            /\ x \notin mine => out'[x] = out[x]
                            /\ x \in mine => out'[x].active
    BY <1>1, <1>2, <1>5 DEF TransferTypes
  <1>8. mine # {} => r \in WorkerType /\ r.at = "top" /\ r.x = one
    BY <1>3, <1>6 DEF IdleWorker, WorkerType
  <1> HIDE DEF r
  <1>9. TransferTypes'
    <2>1. wk' \in [Nodes -> [Workers -> WorkerType]]
      BY <1>1, <1>2, <1>8, WorkerTyped DEF TransferTypes
    <2> QED
      BY <1>1, <1>2, <1>7, <2>1 DEF TransferTypes
  <1>10. Sending'
    <2>1. \A x \in Xfers : /\ Cursor(x, out[x]) => Cursor(x, out'[x])
                           /\ \A p : Owns(p, out[x]) => Owns(p, out'[x])
      BY <1>3, <1>7 DEF Hashed, Cursor, Owns
    <2>2. CASE mine = {}
      BY <1>1, <1>2, <1>7, <2>1, <2>2 DEF Sending
    <2>3. CASE mine # {}
      <3>1. /\ wk'[n][w] = r /\ \A u \in Nodes, v \in Workers : u # n \/ v # w => wk'[u][v] = wk[u][v]
        BY <1>1, <1>2, <2>3 DEF TransferTypes
      <3>2. one \in Xfers /\ From[one] = n /\ ~out[one].active /\ out'[one].active
        BY <1>3, <1>6, <1>7, <2>3
      <3>3. \A v \in Workers : wk[n][v].at # "idle" => wk[n][v].x # one
        BY <1>2, <3>2 DEF Sending, Owns
      <3>4. \A x \in Xfers : Cursor(x, out'[x])
        BY <1>2, <2>1 DEF Sending
      <3>5. ASSUME NEW u \in Nodes, NEW v \in Workers, u # n \/ v # w, wk[u][v].at # "idle"
            PROVE  /\ wk[u][v].x \in Xfers /\ From[wk[u][v].x] = u /\ Owns(wk[u][v], out'[wk[u][v].x])
                   /\ \A z \in Workers : wk'[u][z].at # "idle" /\ wk'[u][z].x = wk[u][v].x => z = v
        <4>1. wk[u][v].x \in Xfers /\ From[wk[u][v].x] = u /\ wk[u][v].x # one
          BY <1>2, <3>2, <3>3, <3>5 DEF Sending
        <4>2. \A z \in Workers : wk'[u][z].at # "idle" /\ wk'[u][z].x = wk[u][v].x => wk'[u][z] = wk[u][z]
          BY <1>8, <2>3, <3>1, <4>1
        <4>3. Owns(wk[u][v], out'[wk[u][v].x])
          <5>1. Owns(wk[u][v], out[wk[u][v].x])
            BY <1>2, <3>5 DEF Sending
          <5> QED
            BY <2>1, <4>1, <5>1
        <4>4. \A z \in Workers : wk[u][z].at # "idle" /\ wk[u][z].x = wk[u][v].x => z = v
          BY <1>2, <3>5 DEF Sending
        <4> QED
          BY <4>1, <4>2, <4>3, <4>4
      <3>6. \A z \in Workers : wk'[n][z].at # "idle" /\ wk'[n][z].x = one => z = w
        BY <3>1, <3>3
      <3>7. Owns(r, out'[one])
        BY <1>8, <2>3, <3>2 DEF Owns
      <3> QED
        BY <1>8, <2>3, <3>1, <3>2, <3>4, <3>5, <3>6, <3>7 DEF Sending
    <2> QED
      BY <2>2, <2>3
  <1>11. Traffic' /\ OnceQueued' /\ Writing' /\ Placed'
    BY <1>1, <1>2, <1>7, TrafficStays, ReceiverStays
  <1> QED
    BY <1>9, <1>10, <1>11 DEF TransferInv

(* What a worker that has a transfer relies on.                            *)
LEMMA AtWork ==
    ASSUME TransferInv, NEW n \in Nodes, NEW w \in Workers, wk[n][w].at # "idle", NEW x, x = wk[n][w].x
    PROVE  /\ x \in Xfers /\ out[x] \in OutType /\ wk[n][w] \in WorkerType
           /\ Owns(wk[n][w], out[x]) /\ Cursor(x, out[x])
           /\ \A f \in Files(x) : Sizes[x][f] \in Nat
  <1>1. x \in Xfers /\ out[x] \in OutType /\ wk[n][w] \in WorkerType /\ Owns(wk[n][w], out[x]) /\ Cursor(x, out[x])
    BY DEF TransferInv, TransferTypes, Sending
  <1>2. Sizes[x] \in Seq(Nat)
    BY <1>1, TransferAssumption
  <1> QED
    BY <1>1, <1>2 DEF Files

(* A worker that has a transfer moves on and touches no other transfer.    *)
LEMMA WorkerStepKeeps ==
    ASSUME TransferInv, NEW n \in Nodes, NEW w \in Workers, wk[n][w].at # "idle", NEW x, x = wk[n][w].x,
           NEW r \in WorkerType, wk' = [wk EXCEPT ![n][w] = r],
           NEW t \in OutType, out' = [out EXCEPT ![x] = t], t.st = "Completed" => out[x].st = "Completed",
           Traffic', UNCHANGED <<inc, ready, dk, placed>>,
           Cursor(x, t), r.at # "idle" => r.x = x /\ Owns(r, t)
    PROVE  TransferInv'
  <1>1. x \in Xfers /\ TransferTypes /\ Sending
    BY AtWork DEF TransferInv
  <1>2. out' \in [Xfers -> OutType] /\ out'[x] = t /\ \A y \in Xfers : y # x => out'[y] = out[y]
    BY <1>1 DEF TransferTypes
  <1>3. TransferTypes'
    <2>1. wk' \in [Nodes -> [Workers -> WorkerType]]
      BY <1>1, WorkerTyped
    <2> QED
      BY <1>1, <1>2, <2>1 DEF TransferTypes
  <1>4. Sending'
    <2>1. Cursor(x, out'[x]) /\ (r.at # "idle" => r.x = x /\ Owns(r, out'[x])) /\ From[x] = n
      BY <1>1, <1>2 DEF Sending
    <2>2. /\ wk'[n][w] = r
          /\ \A u \in Nodes, v \in Workers : u # n \/ v # w => wk'[u][v] = wk[u][v]
      BY <1>1 DEF TransferTypes
    <2>3. \A u \in Nodes, v \in Workers :
             (u # n \/ v # w) /\ wk[u][v].at # "idle" => wk[u][v].x \in Xfers /\ wk[u][v].x # x
      BY <1>1, <2>1 DEF Sending
    <2>4. \A y \in Xfers : Cursor(y, out'[y])
      BY <1>1, <1>2, <2>1 DEF Sending
    <2>5. ASSUME NEW u \in Nodes, NEW v \in Workers, u # n \/ v # w, wk[u][v].at # "idle"
          PROVE  /\ wk[u][v].x \in Xfers /\ From[wk[u][v].x] = u /\ Owns(wk[u][v], out'[wk[u][v].x])
                 /\ \A z \in Workers : wk'[u][z].at # "idle" /\ wk'[u][z].x = wk[u][v].x => z = v
      <3>1. wk[u][v].x \in Xfers /\ wk[u][v].x # x /\ out'[wk[u][v].x] = out[wk[u][v].x]
        BY <1>2, <2>3, <2>5
      <3>2. \A z \in Workers : wk'[u][z].at # "idle" /\ wk'[u][z].x = wk[u][v].x => wk'[u][z] = wk[u][z]
        BY <2>1, <2>2, <3>1
      <3> QED
        BY <1>1, <2>5, <3>1, <3>2 DEF Sending
    <2>6. r.at # "idle" => \A z \in Workers : wk'[n][z].at # "idle" /\ wk'[n][z].x = r.x => z = w
      BY <2>1, <2>2, <2>3
    <2> QED
      BY <1>1, <2>1, <2>2, <2>4, <2>5, <2>6 DEF Sending
  <1>5. \A y \in Xfers : out'[y].st = "Completed" => out[y].st = "Completed"
    BY <1>2
  <1>6. OnceQueued' /\ Writing' /\ Placed'
    BY <1>5, ReceiverStays
  <1> QED
    BY <1>3, <1>4, <1>6 DEF TransferInv

LEMMA TopKeeps ==
    ASSUME TransferInv, NEW n \in Nodes, NEW w \in Workers, Top(n, w)
    PROVE  TransferInv'
  <1> DEFINE x == wk[n][w].x
             t == out[x]
  <1>0. x = wk[n][w].x /\ t.st = out[x].st
    OBVIOUS
  <1>1. wk[n][w].at = "top" /\ UNCHANGED <<inc, ready, dk, chan, placed>>
    BY DEF Top
  <1>2. x \in Xfers /\ t \in OutType /\ wk[n][w] \in WorkerType /\ t.active /\ Cursor(x, t)
    BY <1>1, AtWork DEF Owns
  <1>3. Traffic'
    BY <1>1, TrafficStays DEF TransferInv
  <1>4. out = [out EXCEPT ![x] = t]
    BY <1>2 DEF TransferInv, TransferTypes
  <1>5. CASE t.st # "Active" \/ t.file \notin Files(x)
    <2> DEFINE r == [wk[n][w] EXCEPT !.at = "exit"]
    <2>1. r \in WorkerType /\ r.at = "exit" /\ r.x = x
      BY <1>2 DEF WorkerType
    <2>2. wk' = [wk EXCEPT ![n][w] = r] /\ out' = out
      BY <1>5 DEF Top, SetWorker
    <2> HIDE DEF r, x, t
    <2>3. out' = [out EXCEPT ![x] = t]
      BY <1>4, <2>2
    <2>4. Owns(r, t)
      BY <1>2, <2>1 DEF Owns
    <2> QED
      BY <1>0, <1>1, <1>2, <1>3, <2>1, <2>2, <2>3, <2>4, WorkerStepKeeps
  <1>6. CASE ~(t.st # "Active" \/ t.file \notin Files(x))
    <2> DEFINE r == [at |-> "send", x |-> x, file |-> t.file, off |-> t.off]
               u == IF t.off = 0 THEN [t EXCEPT !.hash = <<>>] ELSE t
    <2>1. r \in WorkerType /\ r.at = "send" /\ r.x = x /\ r.file = t.file /\ r.off = t.off
      BY <1>2 DEF WorkerType, OutType
    <2>2. wk' = [wk EXCEPT ![n][w] = r]
      BY <1>6 DEF Top, SetWorker
    <2>3. out' = [out EXCEPT ![x] = u]
      BY <1>4, <1>6 DEF Top
    <2>4. /\ u \in OutType /\ u.st = t.st /\ u.off = t.off /\ u.file = t.file /\ u.active = t.active
          /\ t.off = 0 => u.hash = <<>>
          /\ t.off # 0 => u = t
      <3>1. <<>> \in Seq(Nat)
        OBVIOUS
      <3>2. CASE t.off = 0
        BY <1>2, <3>1, <3>2 DEF OutType
      <3>3. CASE t.off # 0
        BY <1>2, <3>3
      <3> QED
        BY <3>2, <3>3
    <2> HIDE DEF r, u, x, t
    <2>5. Hashed(u)
      <3>1. CASE t.off = 0
        <4>1. u.hash = <<>> /\ u.off = 0 /\ Chunk \in Nat
          BY <2>4, <3>1, TransferAssumption
        <4> QED
          BY <4>1 DEF Hashed, Run
      <3>2. CASE t.off # 0
        BY <1>2, <2>4, <3>2 DEF OutType, Cursor
      <3> QED
        BY <3>1, <3>2
    <2>6. Cursor(x, u) /\ Owns(r, u)
      BY <1>2, <1>6, <2>1, <2>4, <2>5 DEF Cursor, Owns
    <2> QED
      BY <1>0, <1>1, <1>2, <1>3, <2>1, <2>2, <2>3, <2>4, <2>6, WorkerStepKeeps
  <1> QED
    BY <1>5, <1>6

LEMMA WaitKeeps ==
    ASSUME TransferInv, NEW n \in Nodes, NEW w \in Workers, Wait(n, w)
    PROVE  TransferInv'
  <1> DEFINE x == wk[n][w].x
             t == out[x]
             r == [wk[n][w] EXCEPT !.at = "top"]
  <1>0. x = wk[n][w].x /\ t.st = out[x].st
    OBVIOUS
  <1>1. /\ wk[n][w].at = "wait" /\ UNCHANGED <<inc, ready, dk, chan, placed, out>>
        /\ wk' = [wk EXCEPT ![n][w] = r]
    BY DEF Wait, SetWorker
  <1>2. x \in Xfers /\ t \in OutType /\ wk[n][w] \in WorkerType /\ t.active /\ Cursor(x, t)
    BY <1>1, AtWork DEF Owns
  <1>3. Traffic'
    BY <1>1, TrafficStays DEF TransferInv
  <1>4. out' = [out EXCEPT ![x] = t]
    BY <1>1, <1>2 DEF TransferInv, TransferTypes
  <1>5. r \in WorkerType /\ r.at = "top" /\ r.x = x
    BY <1>2 DEF WorkerType
  <1> HIDE DEF r, x, t
  <1>6. Owns(r, t)
    BY <1>2, <1>5 DEF Owns
  <1> QED
    BY <1>0, <1>1, <1>2, <1>3, <1>4, <1>5, <1>6, WorkerStepKeeps

LEMMA ExitKeeps ==
    ASSUME TransferInv, NEW n \in Nodes, NEW w \in Workers, Exit(n, w)
    PROVE  TransferInv'
  <1> DEFINE x == wk[n][w].x
             t == out[x]
             u == [t EXCEPT !.active = FALSE]
  <1>0. x = wk[n][w].x /\ t.st = out[x].st
    OBVIOUS
  <1>1. /\ wk[n][w].at = "exit" /\ UNCHANGED <<inc, ready, dk, chan, placed>>
        /\ wk' = [wk EXCEPT ![n][w] = IdleWorker] /\ out' = [out EXCEPT ![x] = u]
    BY DEF Exit, SetWorker
  <1>2. x \in Xfers /\ t \in OutType /\ Cursor(x, t)
    BY <1>1, AtWork
  <1>3. Traffic'
    BY <1>1, TrafficStays DEF TransferInv
  <1>4. u \in OutType /\ u.st = t.st /\ u.off = t.off /\ u.file = t.file /\ u.hash = t.hash
    BY <1>2 DEF OutType
  <1>5. IdleWorker \in WorkerType /\ IdleWorker.at = "idle"
    BY DEF WorkerType, IdleWorker
  <1> HIDE DEF u, x, t
  <1>6. Cursor(x, u)
    BY <1>2, <1>4 DEF Hashed, Cursor
  <1> QED
    BY <1>0, <1>1, <1>2, <1>3, <1>4, <1>5, <1>6, WorkerStepKeeps

(* What is true of x alone may be said to its receiver: the id is its own. *)
LEMMA DataSaid ==
    ASSUME NEW x \in Xfers, NEW m \in Jobs(x), m.id = Id[x]
    PROVE  m \in Said(Down(x))
  <1>1. \A y \in Xfers : Down(y) = Down(x) /\ Id[y] = m.id => y = x
    BY TransferAssumption DEF Down
  <1>2. m \in [op : {"CHUNK"}, id : Nat, a : [file : Nat, off : Nat, len : Nat]]
                \cup [op : {"FILE_END"}, id : Nat, a : [file : Nat, sha : Seq(Nat)]]
    BY DEF Jobs
  <1> QED
    BY <1>1, <1>2 DEF Said

LEMMA WholeTyped ==
    ASSUME NEW x \in Xfers, NEW f \in Files(x)
    PROVE  Whole(x, f) \in Seq(Nat) /\ Sizes[x][f] \in Nat /\ f \in Nat
  <1>1. Sizes[x] \in Seq(Nat) /\ Chunk \in Nat \ {0}
    BY TransferAssumption
  <1>2. Sizes[x][f] \in Nat /\ f \in Nat
    BY <1>1 DEF Files
  <1>3. (Sizes[x][f] + Chunk - 1) \div Chunk \in Nat
    <2>1. Sizes[x][f] + Chunk - 1 \in Nat /\ Chunk \in Nat /\ Chunk > 0
      BY <1>1, <1>2
    <2> QED
      BY <2>1, Quotients
  <1>4. \A k \in 1..((Sizes[x][f] + Chunk - 1) \div Chunk) : (k - 1) * Chunk \in Nat
    BY <1>1, <1>3
  <1> DEFINE chunks == (Sizes[x][f] + Chunk - 1) \div Chunk
             start(k) == (k - 1) * Chunk
  <1>5. chunks \in Nat /\ \A k \in 1..chunks : start(k) \in Nat
    BY <1>3, <1>4
  <1>6. Whole(x, f) = [k \in 1..chunks |-> start(k)]
    BY Zenon DEF Whole
  <1> HIDE DEF chunks, start
  <1>7. [k \in 1..chunks |-> start(k)] \in [1..chunks -> Nat]
    BY <1>5
  <1>8. [1..chunks -> Nat] \subseteq Seq(Nat)
    BY <1>5
  <1> QED
    BY <1>2, <1>6, <1>7, <1>8

LEMMA SendChunkKeeps ==
    ASSUME TransferInv, NEW n \in Nodes, NEW w \in Workers, SendChunk(n, w)
    PROVE  TransferInv'
  <1> DEFINE x == wk[n][w].x
             t == out[x]
             r == [wk[n][w] EXCEPT !.at = "sent"]
             len == Want(x, wk[n][w].file, wk[n][w].off)
             m == IF len = 0 THEN Msg("FILE_END", x, [file |-> wk[n][w].file, sha |-> <<>>])
                  ELSE Msg("CHUNK", x, [file |-> wk[n][w].file, off |-> wk[n][w].off, len |-> len])
  <1>0. x = wk[n][w].x /\ t.st = out[x].st
    OBVIOUS
  <1>1. /\ wk[n][w].at = "send" /\ UNCHANGED <<inc, ready, dk, placed, out>>
        /\ wk' = [wk EXCEPT ![n][w] = r]
        /\ chan' = [chan EXCEPT ![Down(x)] = Append(@, m)]
    BY DEF SendChunk, SetWorker, Send
  <1>2. /\ x \in Xfers /\ t \in OutType /\ wk[n][w] \in WorkerType /\ Cursor(x, t)
        /\ wk[n][w].file = t.file /\ wk[n][w].off = t.off /\ t.file \in Files(x) /\ Hashed(t) /\ t.active
    BY <1>1, AtWork DEF Owns
  <1>3. out' = [out EXCEPT ![x] = t]
    BY <1>1, <1>2 DEF TransferInv, TransferTypes
  <1>4. /\ r \in WorkerType /\ r.at = "sent" /\ r.x = x
        /\ r.file = wk[n][w].file /\ r.off = wk[n][w].off
    BY <1>2 DEF WorkerType
  <1>5. /\ Chunk \in Nat \ {0} /\ Sizes[x][t.file] \in Nat /\ t.off \in Nat /\ t.file \in Nat
        /\ t.off = 0 \/ t.off < Sizes[x][t.file]
    <2>1. t.off \in Nat
      BY <1>2 DEF OutType
    <2> QED
      BY <1>2, <2>1, WholeTyped, TransferAssumption DEF Cursor
  <1>6. m \in Jobs(x) /\ m.id = Id[x]
    <2>1. Id[x] \in Nat
      BY <1>2, TransferAssumption
    <2>2. CASE len = 0
      <3>1. Sizes[x][t.file] = 0
        BY <1>2, <1>5, <2>2 DEF Want
      <3>2. Whole(x, t.file) = <<>>
        BY <3>1, NoRounds DEF Whole
      <3>3. m = [op |-> "FILE_END", id |-> Id[x], a |-> [file |-> t.file, sha |-> <<>>]]
        BY <1>2, <2>2 DEF Msg
      <3> HIDE DEF m, x, t
      <3> QED
        BY <1>2, <1>5, <2>1, <3>2, <3>3 DEF Jobs
    <2>3. CASE len # 0
      <3>1. len \in Nat
        BY <1>2, <1>5 DEF Want
      <3>2. m = [op |-> "CHUNK", id |-> Id[x], a |-> [file |-> t.file, off |-> t.off, len |-> len]]
        BY <1>2, <2>3 DEF Msg
      <3> HIDE DEF m, x, t, len
      <3> QED
        BY <1>5, <2>1, <3>1, <3>2 DEF Jobs
    <2> QED
      BY <2>2, <2>3
  <1> HIDE DEF x, t, r, m
  <1>7. Traffic'
    BY <1>1, <1>2, <1>6, DataSaid, TrafficAppend, WaysExist DEF TransferInv
  <1>8. Owns(r, t)
    BY <1>2, <1>4 DEF Owns
  <1> QED
    BY <1>0, <1>1, <1>2, <1>3, <1>4, <1>7, <1>8, WorkerStepKeeps

LEMMA ReadFailsKeeps ==
    ASSUME TransferInv, NEW n \in Nodes, NEW w \in Workers, ReadFails(n, w)
    PROVE  TransferInv'
  <1> DEFINE x == wk[n][w].x
             t == out[x]
             u == Finished(t, FALSE)
             r == [wk[n][w] EXCEPT !.at = "exit"]
  <1>0. x = wk[n][w].x /\ t.st = out[x].st
    OBVIOUS
  <1>1. /\ wk[n][w].at = "send" /\ UNCHANGED <<inc, ready, dk, placed>>
        /\ wk' = [wk EXCEPT ![n][w] = r]
        /\ out' = [out EXCEPT ![x] = u]
        /\ chan' = [chan EXCEPT ![Down(x)] = Append(@, Msg("COMPLETE", x, Ok(FALSE)))]
    BY DEF ReadFails, SetWorker, Send
  <1>2. x \in Xfers /\ t \in OutType /\ wk[n][w] \in WorkerType /\ t.active /\ Cursor(x, t)
    BY <1>1, AtWork DEF Owns
  <1>3. r \in WorkerType /\ r.at = "exit" /\ r.x = x
    BY <1>2 DEF WorkerType
  <1>4. OutSame(t, u) /\ (u.st = "Completed" => t.st = "Completed")
    BY <1>2, OutFinished
  <1> HIDE DEF x, t, u, r
  <1>5. Msg("COMPLETE", x, Ok(FALSE)) \in Said(Down(x))
    BY <1>2, PlainSaid, WaysExist, TransferAssumption DEF Msg
  <1>6. Traffic'
    BY <1>1, <1>2, <1>5, TrafficAppend, WaysExist DEF TransferInv
  <1>7. u \in OutType /\ Cursor(x, u) /\ Owns(r, u)
    BY <1>2, <1>3, <1>4 DEF OutSame, Cursor, Hashed, Owns
  <1> QED
    BY <1>0, <1>1, <1>2, <1>3, <1>4, <1>6, <1>7, WorkerStepKeeps

(* One more chunk hashed.                                                  *)
LEMMA RunGrows ==
    ASSUME NEW h \in Seq(Nat), Run(h), NEW o, o = Len(h) * Chunk
    PROVE  /\ Append(h, o) \in Seq(Nat) /\ Run(Append(h, o)) /\ Len(Append(h, o)) = Len(h) + 1
           /\ o + Chunk = (Len(h) + 1) * Chunk
  <1>1. Chunk \in Nat /\ Len(h) \in Nat
    BY TransferAssumption
  <1>2. o \in Nat /\ o + Chunk = (Len(h) + 1) * Chunk
    BY <1>1
  <1>3. Append(h, o) \in Seq(Nat) /\ Len(Append(h, o)) = Len(h) + 1
    BY <1>2
  <1>4. ASSUME NEW k \in 1..(Len(h) + 1) PROVE Append(h, o)[k] = (k - 1) * Chunk
    <2>1. CASE k = Len(h) + 1
      <3>1. k - 1 = Len(h) /\ Append(h, o)[k] = o
        BY <1>1, <1>2, <2>1
      <3> QED
        BY <3>1
    <2>2. CASE k # Len(h) + 1
      <3>1. k \in 1..Len(h)
        BY <1>1, <2>2
      <3>2. Append(h, o)[k] = h[k]
        BY <1>2, <3>1
      <3> QED
        BY <3>1, <3>2 DEF Run
    <2> QED
      BY <2>1, <2>2
  <1> QED
    BY <1>2, <1>3, <1>4 DEF Run

(* A run as long as the file has chunks is the file.                       *)
LEMMA RunIsWhole ==
    ASSUME NEW x \in Xfers, NEW f \in Files(x), NEW h \in Seq(Nat), Run(h),
           Len(h) = (Sizes[x][f] + Chunk - 1) \div Chunk
    PROVE  h = Whole(x, f)
  <1>1. DOMAIN h = 1..Len(h) /\ h = [k \in 1..Len(h) |-> h[k]]
    OBVIOUS
  <1> QED
    BY <1>1 DEF Run, Whole

LEMMA AdvanceKeeps ==
    ASSUME TransferInv, NEW n \in Nodes, NEW w \in Workers, Advance(n, w)
    PROVE  TransferInv'
  <1> DEFINE x == wk[n][w].x
             t == out[x]
             f == wk[n][w].file
             size == Sizes[x][f]
             len == Want(x, f, wk[n][w].off)
             hash == IF len = 0 THEN t.hash ELSE Append(t.hash, wk[n][w].off)
             done == t.off + len >= size
             u == [t EXCEPT !.hash = hash, !.sent = @ + len,
                            !.off = IF done THEN 0 ELSE @ + len, !.file = IF done THEN @ + 1 ELSE @]
             r == [wk[n][w] EXCEPT !.at = IF len = 0 THEN "top" ELSE "wait"]
             e == Msg("FILE_END", x, [file |-> f, sha |-> hash])
  <1>0. x = wk[n][w].x /\ t = out[x]
    OBVIOUS
  <1>1. /\ wk[n][w].at = "sent" /\ UNCHANGED <<inc, ready, dk, placed>>
        /\ wk' = [wk EXCEPT ![n][w] = r]
        /\ out' = [out EXCEPT ![x] = u]
        /\ IF done /\ len > 0 THEN chan' = [chan EXCEPT ![Down(x)] = Append(@, e)] ELSE chan' = chan
    <2>1. /\ wk[n][w].at = "sent" /\ UNCHANGED <<inc, ready, dk, placed>>
          /\ wk' = [wk EXCEPT ![n][w] = r]
      BY DEF Advance, SetWorker
    <2>2. IF done /\ len > 0 THEN chan' = [chan EXCEPT ![Down(x)] = Append(@, e)] ELSE chan' = chan
      BY DEF Advance, Send
    <2>3. out' = [out EXCEPT ![x] = u]
      BY DEF Advance
    <2> QED
      BY <2>1, <2>2, <2>3
  <1>2. /\ x \in Xfers /\ t \in OutType /\ wk[n][w] \in WorkerType /\ Cursor(x, t)
        /\ f = t.file /\ wk[n][w].off = t.off /\ f \in Files(x) /\ Hashed(t) /\ t.active
    <2>1. x \in Xfers /\ t \in OutType /\ wk[n][w] \in WorkerType /\ Cursor(x, t) /\ Owns(wk[n][w], t)
      BY <1>1, AtWork
    <2>2. t.active /\ f = t.file /\ wk[n][w].off = t.off /\ t.file \in Files(x) /\ Hashed(t)
      BY <1>1, <2>1 DEF Owns
    <2> QED
      BY <2>1, <2>2
  <1>3. r \in WorkerType /\ r.at \in {"top", "wait"} /\ r.x = x
    BY <1>2 DEF WorkerType
  <1>4. /\ Chunk \in Nat \ {0} /\ size \in Nat /\ t.off \in Nat /\ t.file \in Nat /\ t.sent \in Nat
        /\ t.hash \in Seq(Nat) /\ Len(t.hash) \in Nat
        /\ Run(t.hash) /\ t.off = Len(t.hash) * Chunk
        /\ t.off = 0 \/ t.off < size
    <2>1. t.off \in Nat /\ t.file \in Nat /\ t.sent \in Nat /\ t.hash \in Seq(Nat)
      BY <1>2 DEF OutType
    <2>2. size \in Nat /\ Chunk \in Nat \ {0}
      BY <1>2, WholeTyped, TransferAssumption
    <2>3. Run(t.hash) /\ t.off = Len(t.hash) * Chunk
      BY <1>2 DEF Hashed
    <2>4. t.off = 0 \/ t.off < size
      BY <1>2, <2>1 DEF Cursor
    <2> QED
      BY <2>1, <2>2, <2>3, <2>4
  <1>5. /\ len \in Nat /\ len <= Chunk /\ t.off + len <= size
        /\ ~done => len = Chunk /\ t.off + len < size
        /\ len > 0 => t.off < size
        /\ done => size <= t.off + Chunk
    <2>1. len = IF size - t.off < Chunk THEN size - t.off ELSE Chunk
      BY <1>2 DEF Want
    <2> HIDE DEF len, size, t
    <2>2. size \in Nat /\ t.off \in Nat /\ Chunk \in Nat \ {0} /\ (t.off = 0 \/ t.off < size)
      BY <1>4
    <2> QED
      BY <2>1, <2>2
  <1>6. /\ hash \in Seq(Nat)
        /\ len > 0 => Run(hash) /\ Len(hash) = Len(t.hash) + 1 /\ t.off + Chunk = Len(hash) * Chunk
    <2>1. CASE len = 0
      BY <1>4, <2>1
    <2>2. CASE len # 0
      <3>1. hash = Append(t.hash, t.off)
        BY <1>2, <2>2
      <3> QED
        BY <1>4, <3>1, RunGrows
    <2> QED
      BY <2>1, <2>2
  <1> HIDE DEF hash
  <1>7. /\ u \in OutType /\ u.st = t.st /\ u.active = t.active /\ u.hash = hash
        /\ u.off = (IF done THEN 0 ELSE t.off + len) /\ u.file = (IF done THEN t.file + 1 ELSE t.file)
    <2> DEFINE o == IF done THEN 0 ELSE t.off + len
               g == IF done THEN t.file + 1 ELSE t.file
               b == t.sent + len
    <2>1. o \in Nat /\ g \in Nat /\ b \in Nat
      <3> HIDE DEF len, t, done
      <3>1. t.off \in Nat /\ t.file \in Nat /\ t.sent \in Nat /\ len \in Nat
        BY <1>4, <1>5
      <3> QED
        BY <3>1
    <2>2. u = [t EXCEPT !.hash = hash, !.sent = b, !.off = o, !.file = g]
      OBVIOUS
    <2> HIDE DEF o, g, b, u, t
    <2>3. u \in OutType /\ u.st = t.st /\ u.active = t.active /\ u.hash = hash /\ u.off = o /\ u.file = g
      BY <1>2, <1>6, <2>1, <2>2 DEF OutType
    <2> QED
      BY <2>3 DEF o, g
  <1> HIDE DEF u, r
  <1>8. Cursor(x, u)
    <2>1. CASE done
      BY <1>7, <2>1 DEF Cursor
    <2>2. CASE ~done
      <3>1. len = Chunk /\ len > 0 /\ u.off = t.off + len /\ u.off < size /\ u.file = f
        <4> HIDE DEF len, t, size, f, done
        <4> QED
          BY <1>2, <1>4, <1>5, <1>7, <2>2
      <3>2. Hashed(u)
        BY <1>6, <1>7, <3>1 DEF Hashed
      <3> QED
        BY <1>2, <3>1, <3>2 DEF Cursor
    <2> QED
      BY <2>1, <2>2
  <1>9. Owns(r, u)
    BY <1>2, <1>3, <1>7 DEF Owns
  <1>10. Traffic'
    <2>1. CASE done /\ len > 0
      <3>1. Len(hash) = (size + Chunk - 1) \div Chunk
        <4> HIDE DEF len, t, size, done
        <4>1. Len(t.hash) * Chunk < size /\ size <= Len(t.hash) * Chunk + Chunk
          BY <1>4, <1>5, <2>1
        <4> QED
          BY <1>4, <1>6, <2>1, <4>1, Rounds
      <3>2. hash = Whole(x, f)
        BY <1>2, <1>6, <2>1, <3>1, RunIsWhole
      <3>3. e \in Jobs(x) /\ e.id = Id[x]
        <4>1. Id[x] \in Nat /\ f \in Nat
          BY <1>2, WholeTyped, TransferAssumption
        <4> HIDE DEF x, f
        <4> QED
          BY <1>2, <1>6, <3>2, <4>1 DEF Jobs, Msg
      <3>4. chan' = [chan EXCEPT ![Down(x)] = Append(@, e)] /\ placed' = placed
        BY <1>1, <2>1
      <3> HIDE DEF e, x
      <3> QED
        BY <1>2, <3>3, <3>4, DataSaid, TrafficAppend, WaysExist DEF TransferInv
    <2>2. CASE ~(done /\ len > 0)
      BY <1>1, <2>2, TrafficStays DEF TransferInv
    <2> QED
      BY <2>1, <2>2
  <1>11. u.st = out[x].st /\ wk[n][w].at # "idle"
    BY <1>1, <1>7
  <1>12. UNCHANGED <<inc, ready, dk, placed>> /\ wk' = [wk EXCEPT ![n][w] = r] /\ out' = [out EXCEPT ![x] = u]
    BY <1>1
  <1> HIDE DEF x, t
  <1> QED
    BY <1>0, <1>2, <1>3, <1>7, <1>8, <1>9, <1>10, <1>11, <1>12, WorkerStepKeeps

-----------------------------------------------------------------------------
(* Disk writers.                                                           *)
LEMMA TrafficGrows ==
    ASSUME Traffic, \A x \in Xfers : Delivered(x) => Delivered(x)', chan' = chan
    PROVE  Traffic'
  <1>1. ASSUME NEW u \in Nodes \X Nodes PROVE chan[u] \in Seq(Said(u)')
    <2>1. chan[u] \in Seq(Said(u)) /\ Seq(Said(u)) \subseteq Seq(Said(u)')
      BY SaidGrows DEF Traffic
    <2> QED
      BY <2>1
  <1> QED
    BY <1>1 DEF Traffic

LEMMA TrafficGrowsWith ==
    ASSUME Traffic, \A x \in Xfers : Delivered(x) => Delivered(x)', NEW way \in Nodes \X Nodes,
           NEW m, m \in Said(way)', chan' = [chan EXCEPT ![way] = Append(@, m)]
    PROVE  Traffic'
  <1>1. ASSUME NEW u \in Nodes \X Nodes PROVE chan'[u] \in Seq(Said(u)')
    <2>1. chan[u] \in Seq(Said(u)) /\ Seq(Said(u)) \subseteq Seq(Said(u)')
      BY SaidGrows DEF Traffic
    <2>2. CASE u = way
      <3>1. chan'[u] = Append(chan[u], m) /\ m \in Said(u)'
        BY <2>2 DEF Traffic
      <3> QED
        BY <2>1, <3>1
    <2>3. CASE u # way
      BY <2>1, <2>3 DEF Traffic
    <2> QED
      BY <2>2, <2>3
  <1> QED
    BY <1>1 DEF Traffic

(* What a writer that has a transfer relies on.                            *)
LEMMA AtDisk ==
    ASSUME TransferInv, NEW n \in Nodes, NEW d \in Disks, dk[n][d].at # "idle", NEW x, x = dk[n][d].x
    PROVE  /\ x \in Xfers /\ To[x] = n /\ inc[x] \in IncType(x) /\ inc[x].scheduled
           /\ Verified(dk[n][d], inc[x]) /\ DOMAIN dk[n][d] = {"at", "x", "job"}
           /\ \A u \in Nodes, v \in Disks : (u # n \/ v # d) /\ dk[u][v].at # "idle" => dk[u][v].x # x
           /\ \A u \in Nodes : \A k \in 1..Len(ready[u]) : ready[u][k] # x
  <1>1. x \in Xfers /\ To[x] = n /\ inc[x] \in IncType(x) /\ inc[x].scheduled /\ Verified(dk[n][d], inc[x])
    BY DEF TransferInv, TransferTypes, OnceQueued, Writing
  <1>2. DOMAIN dk[n][d] = {"at", "x", "job"}
    BY DEF TransferInv, TransferTypes
  <1>3. \A u \in Nodes, v \in Disks : (u # n \/ v # d) /\ dk[u][v].at # "idle" => dk[u][v].x # x
    BY <1>1 DEF TransferInv, OnceQueued
  <1>4. \A u \in Nodes : \A k \in 1..Len(ready[u]) : ready[u][k] # x
    BY <1>1 DEF TransferInv, OnceQueued
  <1> QED
    BY <1>1, <1>2, <1>3, <1>4

Only(x, t) == inc' = [inc EXCEPT ![x] = t] \/ (inc' = inc /\ t = inc[x])

PlacesWhole(x, t) ==
    /\ DOMAIN placed' = Xfers
    /\ \A y \in Xfers : y # x => placed'[y] = placed[y]
    /\ placed[x] \subseteq placed'[x]
    /\ \A p \in placed'[x] : p.file \in Files(x) /\ p.chunks = Whole(x, p.file)
    /\ t.final \subseteq {p.file : p \in placed'[x]}

(* A writer moves on: it touches its own transfer only, and what it puts   *)
(* in place is whole.                                                      *)
LEMMA WriterStepKeeps ==
    ASSUME TransferInv, NEW n \in Nodes, NEW d \in Disks, dk[n][d].at # "idle", NEW x, x = dk[n][d].x,
           NEW r, DOMAIN r = {"at", "x", "job"}, dk' = [dk EXCEPT ![n][d] = r],
           NEW t \in IncType(x), Only(x, t),
           r.at # "idle" => r.x = x /\ t.scheduled /\ Verified(r, t),
           Traffic', UNCHANGED <<out, wk, ready>>,
           PlacesWhole(x, t)
    PROVE  TransferInv'
  <1>0. /\ DOMAIN placed' = Xfers /\ (\A y \in Xfers : y # x => placed'[y] = placed[y])
        /\ placed[x] \subseteq placed'[x]
        /\ \A p \in placed'[x] : p.file \in Files(x) /\ p.chunks = Whole(x, p.file)
        /\ t.final \subseteq {p.file : p \in placed'[x]}
    BY DEF PlacesWhole
  <1>1. /\ x \in Xfers /\ To[x] = n /\ TransferTypes /\ Sending /\ OnceQueued /\ Writing /\ Placed
        /\ \A u \in Nodes, v \in Disks : (u # n \/ v # d) /\ dk[u][v].at # "idle" => dk[u][v].x # x
        /\ \A u \in Nodes : \A k \in 1..Len(ready[u]) : ready[u][k] # x
    BY AtDisk DEF TransferInv
  <1>2. DOMAIN inc' = Xfers /\ inc'[x] = t /\ \A y \in Xfers : y # x => inc'[y] = inc[y]
    BY <1>1 DEF TransferTypes, Only
  <1>3. /\ dk'[n][d] = r /\ DOMAIN dk' = Nodes /\ \A u \in Nodes : DOMAIN dk'[u] = Disks
        /\ \A u \in Nodes, v \in Disks : u # n \/ v # d => dk'[u][v] = dk[u][v]
    BY <1>1 DEF TransferTypes
  <1>4. TransferTypes'
    <2>1. \A y \in Xfers : inc'[y] \in IncType(y)
      BY <1>1, <1>2 DEF TransferTypes
    <2>2. \A u \in Nodes, v \in Disks : DOMAIN dk'[u][v] = {"at", "x", "job"}
      BY <1>1, <1>3 DEF TransferTypes
    <2> QED
      BY <1>0, <1>1, <1>2, <1>3, <2>1, <2>2 DEF TransferTypes
  <1>5. Sending'
    BY <1>1 DEF Sending
  <1>6. OnceQueued'
    <2>1. \A u \in Nodes : \A k \in 1..Len(ready[u]) :
             /\ To[ready[u][k]] = u /\ inc'[ready[u][k]].scheduled
             /\ \A j \in 1..Len(ready[u]) : ready[u][j] = ready[u][k] => j = k
      <3>1. \A u \in Nodes : \A k \in 1..Len(ready[u]) : ready[u][k] \in Xfers
        BY <1>1 DEF TransferTypes
      <3> QED
        BY <1>1, <1>2, <3>1 DEF OnceQueued
    <2>2. ASSUME NEW u \in Nodes, NEW v \in Disks, u # n \/ v # d, dk[u][v].at # "idle"
          PROVE  /\ dk[u][v].x \in Xfers /\ To[dk[u][v].x] = u /\ inc'[dk[u][v].x].scheduled
                 /\ \A c \in Disks : dk'[u][c].at # "idle" /\ dk'[u][c].x = dk[u][v].x => c = v
                 /\ \A k \in 1..Len(ready[u]) : ready[u][k] # dk[u][v].x
      <3>1. dk[u][v].x # x /\ dk[u][v].x \in Xfers
        BY <1>1, <2>2 DEF OnceQueued
      <3>2. \A c \in Disks : dk'[u][c].at # "idle" /\ dk'[u][c].x = dk[u][v].x => dk'[u][c] = dk[u][c]
        BY <1>3, <3>1
      <3>3. inc'[dk[u][v].x].scheduled /\ To[dk[u][v].x] = u /\ \A k \in 1..Len(ready[u]) : ready[u][k] # dk[u][v].x
        BY <1>1, <1>2, <2>2, <3>1 DEF OnceQueued
      <3>4. \A c \in Disks : dk[u][c].at # "idle" /\ dk[u][c].x = dk[u][v].x => c = v
        BY <1>1, <2>2 DEF OnceQueued
      <3> QED
        BY <3>1, <3>2, <3>3, <3>4
    <2>3. r.at # "idle" => /\ inc'[x].scheduled
                           /\ \A c \in Disks : dk'[n][c].at # "idle" /\ dk'[n][c].x = x => c = d
      BY <1>1, <1>2, <1>3
    <2> QED
      BY <1>1, <1>3, <2>1, <2>2, <2>3 DEF OnceQueued
  <1>7. Writing'
    <2>1. ASSUME NEW u \in Nodes, NEW v \in Disks PROVE Verified(dk'[u][v], inc'[dk'[u][v].x])
      <3>1. CASE u = n /\ v = d
        BY <1>2, <1>3, <3>1 DEF Verified
      <3>2. CASE ~(u = n /\ v = d)
        <4>1. dk'[u][v] = dk[u][v] /\ Verified(dk[u][v], inc[dk[u][v].x])
          BY <1>1, <1>3, <3>2 DEF Writing
        <4>2. dk[u][v].at # "idle" => inc'[dk[u][v].x] = inc[dk[u][v].x]
          BY <1>1, <1>2, <3>2 DEF OnceQueued
        <4> QED
          BY <4>1, <4>2 DEF Verified
      <3> QED
        BY <3>1, <3>2
    <2> QED
      BY <2>1 DEF Writing
  <1>8. Placed'
    <2>1. Delivered(x) => Delivered(x)'
      BY <1>0, <1>1 DEF Delivered, Placed
    <2>2. \A y \in Xfers : Delivered(y) => Delivered(y)'
      BY <1>0, <2>1 DEF Delivered
    <2> QED
      BY <1>0, <1>1, <1>2, <2>2 DEF Placed
  <1> QED
    BY <1>4, <1>5, <1>6, <1>7, <1>8 DEF TransferInv

(* ... and a writer that puts nothing in place.                            *)
LEMMA QuietWriterKeeps ==
    ASSUME TransferInv, NEW n \in Nodes, NEW d \in Disks, dk[n][d].at # "idle", NEW x, x = dk[n][d].x,
           NEW r, DOMAIN r = {"at", "x", "job"}, dk' = [dk EXCEPT ![n][d] = r],
           NEW t \in IncType(x), Only(x, t),
           r.at # "idle" => r.x = x /\ t.scheduled /\ Verified(r, t),
           t.final = inc[x].final, Traffic', UNCHANGED <<out, wk, ready, placed>>
    PROVE  TransferInv'
  <1>1. x \in Xfers /\ TransferTypes /\ Placed
    BY AtDisk DEF TransferInv
  <1>2. PlacesWhole(x, t)
    BY <1>1 DEF TransferTypes, Placed, PlacesWhole
  <1> QED
    BY <1>2, WriterStepKeeps

LEMMA TakeReadyKeeps ==
    ASSUME TransferInv, NEW n \in Nodes, NEW d \in Disks, TakeReady(n, d)
    PROVE  TransferInv'
  <1> DEFINE x == Head(ready[n])
             r == [at |-> "drain", x |-> x, job |-> NoJob]
  <1>1. /\ dk[n][d].at = "idle" /\ ready[n] # <<>> /\ dk' = [dk EXCEPT ![n][d] = r]
        /\ ready' = [ready EXCEPT ![n] = Tail(@)] /\ UNCHANGED <<out, inc, wk, chan, placed>>
    BY DEF TakeReady, SetDisk
  <1>2. TransferTypes /\ OnceQueued /\ Writing
    BY DEF TransferInv
  <1>3. /\ ready[n] \in Seq(Xfers) /\ Len(ready[n]) \in Nat \ {0} /\ x = ready[n][1] /\ x \in Xfers
        /\ 1 \in 1..Len(ready[n])
    BY <1>1, <1>2 DEF TransferTypes
  <1>4. /\ r.at = "drain" /\ r.x = x /\ DOMAIN r = {"at", "x", "job"}
    OBVIOUS
  <1>5. To[x] = n /\ inc[x].scheduled /\ \A j \in 1..Len(ready[n]) : ready[n][j] = x => j = 1
    BY <1>2, <1>3 DEF OnceQueued
  <1>6. \A u \in Nodes, v \in Disks : dk[u][v].at # "idle" => dk[u][v].x # x
    BY <1>2, <1>3, <1>5 DEF OnceQueued
  <1> HIDE DEF x, r
  <1>7. /\ ready' \in [Nodes -> Seq(Xfers)] /\ \A u \in Nodes : u # n => ready'[u] = ready[u]
        /\ Len(ready'[n]) = Len(ready[n]) - 1
        /\ \A k \in 1..Len(ready'[n]) : k + 1 \in 1..Len(ready[n]) /\ ready'[n][k] = ready[n][k + 1]
    <2>1. ready'[n] = Tail(ready[n]) /\ \A u \in Nodes : u # n => ready'[u] = ready[u]
      BY <1>1, <1>2 DEF TransferTypes
    <2>2. Tail(ready[n]) \in Seq(Xfers) /\ Len(Tail(ready[n])) = Len(ready[n]) - 1
      BY <1>1, <1>3
    <2>3. \A k \in 1..(Len(ready[n]) - 1) : k + 1 \in 1..Len(ready[n]) /\ Tail(ready[n])[k] = ready[n][k + 1]
      BY <1>1, <1>3
    <2>4. ready' \in [Nodes -> Seq(Xfers)]
      BY <1>1, <1>2, <2>2 DEF TransferTypes
    <2> QED
      BY <2>1, <2>2, <2>3, <2>4
  <1>8. /\ dk'[n][d] = r /\ DOMAIN dk' = Nodes /\ \A u \in Nodes : DOMAIN dk'[u] = Disks
        /\ \A u \in Nodes, v \in Disks : u # n \/ v # d => dk'[u][v] = dk[u][v]
    BY <1>1, <1>2 DEF TransferTypes
  <1>9. TransferTypes'
    BY <1>1, <1>2, <1>4, <1>7, <1>8 DEF TransferTypes
  <1>10. OnceQueued'
    <2>1. \A u \in Nodes : \A k \in 1..Len(ready'[u]) :
             /\ To[ready'[u][k]] = u /\ inc[ready'[u][k]].scheduled /\ ready'[u][k] # x
             /\ \A j \in 1..Len(ready'[u]) : ready'[u][j] = ready'[u][k] => j = k
      <3>1. ASSUME NEW u \in Nodes, u # n
            PROVE  \A k \in 1..Len(ready'[u]) :
                      /\ To[ready'[u][k]] = u /\ inc[ready'[u][k]].scheduled /\ ready'[u][k] # x
                      /\ \A j \in 1..Len(ready'[u]) : ready'[u][j] = ready'[u][k] => j = k
        <4>1. ready'[u] = ready[u]
          BY <1>7, <3>1
        <4> QED
          BY <1>2, <1>5, <3>1, <4>1 DEF OnceQueued
      <3>2. ASSUME NEW k \in 1..Len(ready'[n])
            PROVE  /\ To[ready'[n][k]] = n /\ inc[ready'[n][k]].scheduled /\ ready'[n][k] # x
                   /\ \A j \in 1..Len(ready'[n]) : ready'[n][j] = ready'[n][k] => j = k
        <4>1. k \in Nat /\ k # 0 /\ k + 1 \in 1..Len(ready[n]) /\ ready'[n][k] = ready[n][k + 1]
          BY <1>3, <1>7
        <4>2. To[ready'[n][k]] = n /\ inc[ready'[n][k]].scheduled
          BY <1>2, <4>1 DEF OnceQueued
        <4>3. ready'[n][k] # x
          BY <1>5, <4>1
        <4>4. ASSUME NEW j \in 1..Len(ready'[n]), ready'[n][j] = ready'[n][k] PROVE j = k
          <5>1. j \in Nat /\ j + 1 \in 1..Len(ready[n]) /\ ready'[n][j] = ready[n][j + 1]
            BY <1>3, <1>7
          <5>2. j + 1 = k + 1
            <6>1. \A a, b \in 1..Len(ready[n]) : ready[n][a] = ready[n][b] => a = b
              BY <1>2 DEF OnceQueued
            <6> QED
              BY <4>1, <4>4, <5>1, <6>1
          <5> QED
            BY <4>1, <5>1, <5>2
        <4> QED
          BY <4>2, <4>3, <4>4
      <3> QED
        BY <3>1, <3>2
    <2>2. ASSUME NEW u \in Nodes, NEW v \in Disks, u # n \/ v # d, dk[u][v].at # "idle"
          PROVE  /\ dk[u][v].x \in Xfers /\ To[dk[u][v].x] = u /\ inc[dk[u][v].x].scheduled
                 /\ \A c \in Disks : dk'[u][c].at # "idle" /\ dk'[u][c].x = dk[u][v].x => c = v
                 /\ \A k \in 1..Len(ready'[u]) : ready'[u][k] # dk[u][v].x
      <3>1. dk[u][v].x # x /\ dk[u][v].x \in Xfers /\ To[dk[u][v].x] = u /\ inc[dk[u][v].x].scheduled
        BY <1>2, <1>6, <2>2 DEF OnceQueued
      <3>2. \A c \in Disks : dk'[u][c].at # "idle" /\ dk'[u][c].x = dk[u][v].x => dk'[u][c] = dk[u][c]
        BY <1>4, <1>8, <3>1
      <3>3. \A k \in 1..Len(ready'[u]) : ready'[u][k] # dk[u][v].x
        BY <1>2, <1>7, <2>2 DEF OnceQueued
      <3>4. \A c \in Disks : dk[u][c].at # "idle" /\ dk[u][c].x = dk[u][v].x => c = v
        BY <1>2, <2>2 DEF OnceQueued
      <3> QED
        BY <3>1, <3>2, <3>3, <3>4
    <2>3. \A c \in Disks : dk'[n][c].at # "idle" /\ dk'[n][c].x = x => c = d
      BY <1>6, <1>8
    <2> QED
      BY <1>1, <1>3, <1>4, <1>5, <1>8, <2>1, <2>2, <2>3 DEF OnceQueued
  <1>11. Writing'
    BY <1>1, <1>2, <1>4, <1>8 DEF Writing, Verified
  <1>12. Traffic' /\ Sending' /\ Placed'
    <2>1. Traffic'
      BY <1>1, TrafficStays DEF TransferInv
    <2>2. Sending'
      BY <1>1 DEF TransferInv, Sending
    <2>3. Placed'
      BY <1>1 DEF TransferInv, Placed, Delivered
    <2> QED
      BY <2>1, <2>2, <2>3
  <1> QED
    BY <1>9, <1>10, <1>11, <1>12 DEF TransferInv

LEMMA DrainKeeps ==
    ASSUME TransferInv, NEW n \in Nodes, NEW d \in Disks, Drain(n, d)
    PROVE  TransferInv'
  <1> DEFINE x == dk[n][d].x
             t == inc[x]
  <1>0. x = dk[n][d].x /\ t = inc[x]
    OBVIOUS
  <1>1. dk[n][d].at = "drain" /\ UNCHANGED <<out, wk, ready, chan, placed>>
    BY DEF Drain
  <1>2. x \in Xfers /\ t \in IncType(x) /\ t.scheduled
    BY <1>1, AtDisk
  <1>3. Traffic'
    BY <1>1, TrafficStays DEF TransferInv
  <1>4. CASE t.fin \/ t.wq = <<>>
    <2> DEFINE u == [t EXCEPT !.wq = <<>>, !.scheduled = FALSE]
    <2>1. inc' = [inc EXCEPT ![x] = u] /\ dk' = [dk EXCEPT ![n][d] = IdleDisk]
      BY <1>4 DEF Drain, SetDisk
    <2>2. <<>> \in Seq(Jobs(x))
      OBVIOUS
    <2>3. u \in IncType(x) /\ u.final = t.final
      BY <1>2, <2>2 DEF IncType
    <2>4. DOMAIN IdleDisk = {"at", "x", "job"} /\ IdleDisk.at = "idle"
      BY DEF IdleDisk
    <2> HIDE DEF x, t, u
    <2>5. Only(x, u)
      BY <2>1 DEF Only
    <2> QED
      BY <1>0, <1>1, <1>3, <2>1, <2>3, <2>4, <2>5, QuietWriterKeeps
  <1>5. CASE ~(t.fin \/ t.wq = <<>>)
    <2> DEFINE u == [t EXCEPT !.wq = Tail(@)]
               r == [at |-> "job", x |-> x, job |-> Head(t.wq)]
    <2>1. inc' = [inc EXCEPT ![x] = u] /\ dk' = [dk EXCEPT ![n][d] = r]
      BY <1>5 DEF Drain, SetDisk
    <2>2. t.wq \in Seq(Jobs(x)) /\ t.wq # <<>>
      BY <1>2, <1>5 DEF IncType
    <2>3. Tail(t.wq) \in Seq(Jobs(x)) /\ Head(t.wq) \in Jobs(x)
      BY <2>2, SeqSplits
    <2>4. u \in IncType(x) /\ u.final = t.final /\ u.scheduled
      BY <1>2, <2>3 DEF IncType
    <2>5. DOMAIN r = {"at", "x", "job"} /\ r.at = "job" /\ r.x = x /\ Verified(r, u)
      BY <2>3 DEF Verified
    <2> HIDE DEF x, t, u, r
    <2>6. Only(x, u)
      BY <2>1 DEF Only
    <2> QED
      BY <1>0, <1>1, <1>3, <2>1, <2>4, <2>5, <2>6, QuietWriterKeeps
  <1> QED
    BY <1>4, <1>5

LEMMA WriteDataKeeps ==
    ASSUME TransferInv, NEW n \in Nodes, NEW d \in Disks, WriteData(n, d)
    PROVE  TransferInv'
  <1> DEFINE x == dk[n][d].x
             t == inc[x]
             c == dk[n][d].job.a
             r == [dk[n][d] EXCEPT !.at = "drain", !.job = NoJob]
             done == t.done + c.len
             ack == AckDue(x, t, c.file, t.got + c.len, done)
             last == IF ack THEN done ELSE t.lastAck
             h == Append(HashOf(t, c.file), c.off)
             u == [t EXCEPT !.hash = h, !.hashing = c.file, !.got = t.got + c.len, !.done = done, !.lastAck = last]
  <1>0. x = dk[n][d].x /\ t = inc[x]
    OBVIOUS
  <1>1. /\ dk[n][d].at = "job" /\ dk[n][d].job.op = "CHUNK" /\ UNCHANGED <<out, wk, ready, placed>>
        /\ dk' = [dk EXCEPT ![n][d] = r]
    BY DEF WriteData, SetDisk
  <1>2. /\ x \in Xfers /\ t \in IncType(x) /\ t.scheduled
        /\ Verified(dk[n][d], t) /\ DOMAIN dk[n][d] = {"at", "x", "job"}
    BY <1>1, AtDisk
  <1>3. DOMAIN r = {"at", "x", "job"} /\ r.at = "drain" /\ r.x = x
    BY <1>2
  <1>4. c.file \in Nat /\ c.off \in Nat /\ c.len \in Nat
    <2>1. dk[n][d].job \in Jobs(x)
      BY <1>1, <1>2 DEF Verified
    <2> QED
      BY <1>1, <2>1 DEF Jobs
  <1>5. CASE t.fin
    <2>1. inc' = inc /\ chan' = chan
      BY <1>5 DEF WriteData
    <2>3. Verified(r, t)
      BY <1>3 DEF Verified
    <2>4. Traffic'
      BY <1>1, <2>1, TrafficStays DEF TransferInv
    <2> HIDE DEF x, t, r
    <2>5. Only(x, t)
      BY <1>0, <2>1 DEF Only
    <2> QED
      BY <1>0, <1>1, <1>2, <1>3, <2>3, <2>4, <2>5, QuietWriterKeeps
  <1>6. CASE ~t.fin
    <2>1. inc' = [inc EXCEPT ![x] = u]
      BY <1>6 DEF WriteData
    <2>2. IF ack THEN chan' = [chan EXCEPT ![Up(x)] = Append(@, Msg("PROGRESS", x, [bytes |-> done])) ] ELSE chan' = chan
      BY <1>6 DEF WriteData, Send
    <2>3. h \in Seq(Nat)
      <3>1. HashOf(t, c.file) \in Seq(Nat)
        BY <1>2 DEF HashOf, IncType
      <3> QED
        BY <1>4, <3>1
    <2>4. done \in Nat /\ t.got + c.len \in Nat /\ last \in Nat
      <3>1. t.done \in Nat /\ t.got \in Nat /\ t.lastAck \in Nat
        BY <1>2 DEF IncType
      <3> HIDE DEF ack, t, c
      <3> QED
        BY <1>4, <3>1
    <2>5. u \in IncType(x) /\ u.final = t.final /\ u.scheduled
      <3> DEFINE g == t.got + c.len
      <3>1. u = [t EXCEPT !.hash = h, !.hashing = c.file, !.got = g, !.done = done, !.lastAck = last] /\ g \in Nat
        BY <2>4
      <3> HIDE DEF h, done, last, g, t, c, u
      <3> QED
        BY <1>2, <1>4, <2>3, <2>4, <3>1 DEF IncType
    <2>6. Traffic'
      <3>1. CASE ack
        <4>1. Msg("PROGRESS", x, [bytes |-> done]) \in Said(Up(x))
          <5>1. Id[x] \in Nat
            BY <1>2, TransferAssumption
          <5> HIDE DEF done, x
          <5> QED
            BY <2>4, <5>1 DEF Said, Msg
        <4>2. chan' = [chan EXCEPT ![Up(x)] = Append(@, Msg("PROGRESS", x, [bytes |-> done]))]
          BY <2>2, <3>1
        <4> HIDE DEF done, x
        <4> QED
          BY <1>1, <1>2, <4>1, <4>2, TrafficAppend, WaysExist DEF TransferInv
      <3>2. CASE ~ack
        BY <1>1, <2>2, <3>2, TrafficStays DEF TransferInv
      <3> QED
        BY <3>1, <3>2
    <2>7. Verified(r, u)
      BY <1>3 DEF Verified
    <2> HIDE DEF x, t, r, u
    <2>8. Only(x, u)
      BY <2>1 DEF Only
    <2> QED
      BY <1>0, <1>1, <1>3, <2>5, <2>6, <2>7, <2>8, QuietWriterKeeps
  <1> QED
    BY <1>5, <1>6

LEMMA WriteFailsKeeps ==
    ASSUME TransferInv, NEW n \in Nodes, NEW d \in Disks, WriteFails(n, d)
    PROVE  TransferInv'
  <1> DEFINE x == dk[n][d].x
             t == inc[x]
             u == Finished(t, FALSE)
             r == [dk[n][d] EXCEPT !.at = "drain", !.job = NoJob]
  <1>0. x = dk[n][d].x /\ t = inc[x]
    OBVIOUS
  <1>1. /\ dk[n][d].at \in {"job", "place"} /\ UNCHANGED <<out, wk, ready, placed>>
        /\ dk' = [dk EXCEPT ![n][d] = r]
        /\ inc' = [inc EXCEPT ![x] = u]
        /\ chan' = [chan EXCEPT ![Up(x)] = Append(@, Msg("COMPLETE", x, Ok(FALSE)))]
    BY DEF WriteFails, SetDisk, Send
  <1>2. x \in Xfers /\ t \in IncType(x) /\ t.scheduled /\ DOMAIN dk[n][d] = {"at", "x", "job"}
    BY <1>1, AtDisk
  <1>3. DOMAIN r = {"at", "x", "job"} /\ r.at = "drain" /\ r.x = x
    BY <1>2
  <1>4. IncSame(x, t, u)
    BY <1>2, IncFinished
  <1> HIDE DEF x, t, u, r
  <1>5. Msg("COMPLETE", x, Ok(FALSE)) \in Said(Up(x))
    BY <1>2, PlainSaid, WaysExist, TransferAssumption DEF Msg
  <1>6. Traffic'
    BY <1>1, <1>2, <1>5, TrafficAppend, WaysExist DEF TransferInv
  <1>7. u \in IncType(x) /\ u.scheduled /\ u.final = t.final /\ Verified(r, u)
    BY <1>2, <1>3, <1>4 DEF IncSame, Verified
  <1>8. Only(x, u)
    BY <1>1 DEF Only
  <1> QED
    BY <1>0, <1>1, <1>2, <1>3, <1>6, <1>7, <1>8, QuietWriterKeeps

LEMMA VerifyFileKeeps ==
    ASSUME TransferInv, NEW n \in Nodes, NEW d \in Disks, VerifyFile(n, d)
    PROVE  TransferInv'
  <1> DEFINE x == dk[n][d].x
             t == inc[x]
             e == dk[n][d].job.a
             skip == t.fin \/ e.file \in t.final
             good == DigestMatches(t, e)
             u == [t EXCEPT !.hash = HashOf(t, e.file), !.hashing = 0, !.got = 0]
             draining == [dk[n][d] EXCEPT !.at = "drain", !.job = NoJob]
             placing == [dk[n][d] EXCEPT !.at = "place"]
  <1>0. x = dk[n][d].x /\ t = inc[x]
    OBVIOUS
  <1>1. dk[n][d].at = "job" /\ dk[n][d].job.op = "FILE_END" /\ UNCHANGED <<out, wk, ready, placed>>
    BY DEF VerifyFile
  <1>2. /\ x \in Xfers /\ t \in IncType(x) /\ t.scheduled
        /\ Verified(dk[n][d], t) /\ DOMAIN dk[n][d] = {"at", "x", "job"}
    BY <1>1, AtDisk
  <1>3. DOMAIN draining = {"at", "x", "job"} /\ draining.at = "drain" /\ draining.x = x
    BY <1>2
  <1>4. DOMAIN placing = {"at", "x", "job"} /\ placing.at = "place" /\ placing.x = x /\ placing.job = dk[n][d].job
    BY <1>2
  <1>5. u \in IncType(x) /\ u.final = t.final /\ u.scheduled /\ u.hash = HashOf(t, e.file)
    <2> DEFINE h == HashOf(t, e.file)
    <2>1. h \in Seq(Nat)
      BY <1>2 DEF HashOf, IncType
    <2>2. u = [t EXCEPT !.hash = h, !.hashing = 0, !.got = 0]
      OBVIOUS
    <2> HIDE DEF h, u, t
    <2>3. u \in IncType(x) /\ u.final = t.final /\ u.scheduled /\ u.hash = h
      BY <1>2, <2>1, <2>2 DEF IncType
    <2> QED
      BY <2>3 DEF h
  <1>6. CASE skip
    <2>1. inc' = inc /\ chan' = chan /\ dk' = [dk EXCEPT ![n][d] = draining]
      BY <1>6 DEF VerifyFile, SetDisk
    <2>2. Verified(draining, t)
      BY <1>3 DEF Verified
    <2>3. Traffic'
      BY <1>1, <2>1, TrafficStays DEF TransferInv
    <2> HIDE DEF x, t, draining
    <2>4. Only(x, t)
      BY <1>0, <2>1 DEF Only
    <2> QED
      BY <1>0, <1>1, <1>2, <1>3, <2>1, <2>2, <2>3, <2>4, QuietWriterKeeps
  <1>7. CASE ~skip /\ good
    <2>1. inc' = [inc EXCEPT ![x] = u] /\ chan' = chan /\ dk' = [dk EXCEPT ![n][d] = placing]
      BY <1>7 DEF VerifyFile, SetDisk
    <2>2. Verified(placing, u)
      <3>1. u.hash = placing.job.a.sha
        BY <1>4, <1>5, <1>7 DEF DigestMatches
      <3> HIDE DEF placing, u
      <3> QED
        BY <1>1, <1>2, <1>4, <3>1 DEF Verified
    <2>3. Traffic'
      BY <1>1, <2>1, TrafficStays DEF TransferInv
    <2> HIDE DEF x, t, placing, u
    <2>4. Only(x, u)
      BY <2>1 DEF Only
    <2> QED
      BY <1>0, <1>1, <1>4, <1>5, <2>1, <2>2, <2>3, <2>4, QuietWriterKeeps
  <1>8. CASE ~skip /\ ~good
    <2> DEFINE v == Finished(u, FALSE)
    <2>1. /\ inc' = [inc EXCEPT ![x] = v] /\ dk' = [dk EXCEPT ![n][d] = draining]
          /\ chan' = [chan EXCEPT ![Up(x)] = Append(@, Msg("COMPLETE", x, Ok(FALSE)))]
      BY <1>8 DEF VerifyFile, SetDisk, Send
    <2>2. IncSame(x, u, v)
      BY <1>2, <1>5, IncFinished
    <2> HIDE DEF x, t, draining, u, v
    <2>3. v \in IncType(x) /\ v.final = t.final /\ v.scheduled /\ Verified(draining, v)
      BY <1>3, <1>5, <2>2 DEF IncSame, Verified
    <2>4. Msg("COMPLETE", x, Ok(FALSE)) \in Said(Up(x))
      BY <1>2, PlainSaid, WaysExist, TransferAssumption DEF Msg
    <2>5. Traffic'
      BY <1>1, <1>2, <2>1, <2>4, TrafficAppend, WaysExist DEF TransferInv
    <2>6. Only(x, v)
      BY <2>1 DEF Only
    <2> QED
      BY <1>0, <1>1, <1>3, <2>1, <2>3, <2>5, <2>6, QuietWriterKeeps
  <1> QED
    BY <1>6, <1>7, <1>8

(* The moved file was verified; the last one makes the transfer delivered. *)
LEMMA PlaceFileKeeps ==
    ASSUME TransferInv, NEW n \in Nodes, NEW d \in Disks, PlaceFile(n, d)
    PROVE  TransferInv'
  <1>a. dk[n][d].at = "place"
    BY DEF PlaceFile
  <1>b. PICK x \in Xfers : x = dk[n][d].x
    BY <1>a, AtDisk
  <1> DEFINE t == inc[x]
             e == dk[n][d].job.a
             final == t.final \cup {e.file}
             all == final = Files(x)
             p == [file |-> e.file, chunks |-> t.hash]
             u == [t EXCEPT !.final = final]
             v == IF all THEN Finished(u, TRUE) ELSE u
             r == [dk[n][d] EXCEPT !.at = "drain", !.job = NoJob]
  <1>0. x = dk[n][d].x /\ t = inc[x]
    BY <1>b
  <1>1. /\ dk[n][d].at = "place" /\ UNCHANGED <<out, wk, ready>>
        /\ placed' = [placed EXCEPT ![x] = @ \cup {p}]
        /\ inc' = [inc EXCEPT ![x] = v]
        /\ IF all THEN chan' = [chan EXCEPT ![Up(x)] = Append(@, Msg("COMPLETE", x, Ok(TRUE)))] ELSE chan' = chan
        /\ dk' = [dk EXCEPT ![n][d] = r]
    BY <1>b DEF PlaceFile, SetDisk, Send
  <1>2. /\ x \in Xfers /\ t \in IncType(x) /\ t.scheduled
        /\ Verified(dk[n][d], t) /\ DOMAIN dk[n][d] = {"at", "x", "job"}
    BY <1>0, <1>1, AtDisk
  <1>3. DOMAIN r = {"at", "x", "job"} /\ r.at = "drain" /\ r.x = x
    BY <1>0, <1>2
  <1>4. e.file \in Files(x) /\ e.file \in Nat /\ t.hash = Whole(x, e.file)
    <2>1. dk[n][d].job \in Jobs(x) /\ dk[n][d].job.op = "FILE_END" /\ t.hash = e.sha
      BY <1>0, <1>1, <1>2 DEF Verified
    <2>2. e.file \in Files(x) /\ e.sha = Whole(x, e.file)
      BY <2>1 DEF Jobs
    <2> QED
      BY <1>2, <2>1, <2>2, WholeTyped
  <1>5. p.file = e.file /\ p.chunks = Whole(x, p.file)
    BY <1>4
  <1>6. u \in IncType(x) /\ u.final = final /\ u.scheduled
    <2>1. final \subseteq Nat
      BY <1>2, <1>4 DEF IncType
    <2> HIDE DEF final, t
    <2> QED
      BY <1>2, <2>1 DEF IncType
  <1>7. v \in IncType(x) /\ v.final = final /\ v.scheduled
    <2>1. IncSame(x, u, Finished(u, TRUE))
      BY <1>2, <1>6, IncFinished
    <2> HIDE DEF u, final
    <2> QED
      BY <1>6, <2>1 DEF IncSame
  <1> HIDE DEF t, e, final, p, u, v, r
  <1>8. TransferTypes /\ Placed /\ Traffic
    BY DEF TransferInv
  <1>9. /\ DOMAIN placed' = Xfers /\ (\A y \in Xfers : y # x => placed'[y] = placed[y])
        /\ placed'[x] = placed[x] \cup {p}
    BY <1>1, <1>2, <1>8 DEF TransferTypes
  <1>10. \A q \in placed'[x] : q.file \in Files(x) /\ q.chunks = Whole(x, q.file)
    BY <1>2, <1>4, <1>5, <1>8, <1>9 DEF Placed
  <1>11. final \subseteq {q.file : q \in placed'[x]}
    <2>1. t.final \subseteq {q.file : q \in placed[x]}
      BY <1>0, <1>2, <1>8 DEF Placed
    <2>2. p \in placed'[x] /\ placed[x] \subseteq placed'[x]
      BY <1>9
    <2> QED
      BY <1>5, <2>1, <2>2 DEF final
  <1>12. \A y \in Xfers : Delivered(y) => Delivered(y)'
    BY <1>9, <1>10 DEF Delivered
  <1>13. Traffic'
    <2>1. CASE all
      <3>1. Delivered(x)'
        BY <1>10, <1>11, <2>1 DEF Delivered
      <3>2. \A y \in Xfers : From[y] = Up(x)[2] /\ Id[y] = Id[x] => y = x
        BY <1>2, WaysExist, TransferAssumption
      <3>3. Msg("COMPLETE", x, Ok(TRUE)) \in Said(Up(x))'
        BY <1>2, <3>1, <3>2, TransferAssumption DEF Msg, Ok, Said, Plain
      <3>4. chan' = [chan EXCEPT ![Up(x)] = Append(@, Msg("COMPLETE", x, Ok(TRUE)))]
        BY <1>1, <2>1
      <3> QED
        BY <1>2, <1>8, <1>12, <3>3, <3>4, TrafficGrowsWith, WaysExist
    <2>2. CASE ~all
      BY <1>1, <1>8, <1>12, <2>2, TrafficGrows
    <2> QED
      BY <2>1, <2>2
  <1>14. Verified(r, v)
    BY <1>3 DEF Verified
  <1>15. PlacesWhole(x, v)
    BY <1>7, <1>9, <1>10, <1>11 DEF PlacesWhole
  <1>16. Only(x, v) /\ dk' = [dk EXCEPT ![n][d] = r] /\ UNCHANGED <<out, wk, ready>> /\ dk[n][d].at # "idle"
    BY <1>1 DEF Only
  <1> QED
    BY <1>0, <1>3, <1>7, <1>13, <1>14, <1>15, <1>16, WriterStepKeeps

-----------------------------------------------------------------------------
LEMMA TransferStep == TransferInv /\ [Next]_vars => TransferInv'
  <1> SUFFICES ASSUME TransferInv, [Next]_vars PROVE TransferInv'
    OBVIOUS
  <1>1. CASE UNCHANGED vars
    <2>1. UNCHANGED <<out, inc, wk, ready, dk, chan, placed>>
      BY <1>1 DEF vars
    <2>2. TransferTypes' /\ Placed'
      BY <2>1 DEF TransferInv, TransferTypes, Placed, Delivered
    <2>3. Traffic'
      BY <2>1, TrafficStays DEF TransferInv
    <2>4. Sending' /\ OnceQueued' /\ Writing'
      BY <2>1 DEF TransferInv, Sending, OnceQueued, Writing
    <2> QED
      BY <2>2, <2>3, <2>4 DEF TransferInv
  <1>2. ASSUME NEW x \in Xfers, StartSend(x) \/ Accept(x) \/ Reject(x) PROVE TransferInv'
    BY <1>2, StartSendKeeps, AcceptKeeps, OneIncomingKeeps
  <1>3. ASSUME NEW x \in Xfers, TimeoutOutgoing(x) \/ TimeoutIncoming(x) \/ Disconnect(x) PROVE TransferInv'
    BY <1>3, TimeoutOutgoingKeeps, OneIncomingKeeps, DisconnectKeeps
  <1>4. ASSUME NEW x \in Xfers, NEW n \in Nodes, NEW peer \in Nodes,
               Cancel(n, peer, Id[x]) \/ Pause(n, peer, Id[x]) \/ Resume(n, peer, Id[x])
        PROVE  TransferInv'
    <2>1. Id[x] \in Nat
      BY TransferAssumption
    <2> QED
      BY <1>4, <2>1, CancelKeeps, PauseKeeps
  <1>5. ASSUME NEW n \in Nodes, NEW peer \in Nodes, Deliver(peer, n) PROVE TransferInv'
    BY <1>5, DeliverKeeps
  <1>6. ASSUME NEW n \in Nodes, NEW w \in Workers, WorkerStep(n, w) \/ ReadFails(n, w) PROVE TransferInv'
    BY <1>6, ClaimKeeps, TopKeeps, SendChunkKeeps, AdvanceKeeps, WaitKeeps, ExitKeeps, ReadFailsKeeps DEF WorkerStep
  <1>7. ASSUME NEW n \in Nodes, NEW d \in Disks, DiskStep(n, d) \/ WriteFails(n, d) PROVE TransferInv'
    BY <1>7, TakeReadyKeeps, DrainKeeps, WriteDataKeeps, VerifyFileKeeps, PlaceFileKeeps, WriteFailsKeeps DEF DiskStep
  <1> QED
    BY <1>1, <1>2, <1>3, <1>4, <1>5, <1>6, <1>7 DEF Next

(* Whatever the workers, the disk writers, the reactors and the            *)
(* application do, and however many of them there are: a file in its place *)
(* is the whole file (process_file_end), and a sender that reports success *)
(* delivered every file (handle_complete).                                 *)
THEOREM DeliversWhole == Spec => []DeliveredWhole
  <1>1. TransferInv => DeliveredWhole
    BY DEF TransferInv, Placed, Delivered, DeliveredWhole
  <1> QED
    BY <1>1, TransferInit, TransferStep, PTL DEF Spec

-----------------------------------------------------------------------------
(* Tracker announces.                                                      *)

Waiting == {"connect", "announce", "http"}
Questions == [kind : {"connect", "announce"}, n : Announces, tid : Nat, conn : Nat]
Datagrams == [kind : {"connect", "announce", "error"}, tid : Nat, n : Announces]
Threaded == [tracker : Trackers \cup {"none"}, stage : Waiting \cup {"none", "notify", "over"}, tid : Nat]

TrackerTypes ==
    ann \in [made : 0..MaxAnnounces, tids : Nat, thread : [Announces -> Threaded], inflight : Nat,
             stopping : BOOLEAN, stopped : BOOLEAN, asked : SUBSET Questions, net : SUBSET Datagrams,
             posted : SUBSET [n : Announces, of : Nat, interval : Int], late : BOOLEAN]

(* A transaction id stands for one question, a datagram answers one, and a *)
(* thread that waits for a datagram has asked for it.                      *)
OneQuestion == \A q \in ann.asked : q.tid <= ann.tids /\ \A r \in ann.asked : q.tid = r.tid => q = r
Replies == \A d \in ann.net : \E q \in ann.asked : d.tid = q.tid /\ d.n = q.n
Asking ==
    \A n \in Announces :
        LET t == ann.thread[n] IN
        /\ n > ann.made => t.stage = "none"
        /\ t.stage \in {"connect", "announce"} => \E q \in ann.asked : q.n = n /\ q.tid = t.tid

Counting ==
    /\ ann.inflight = Cardinality({n \in Announces : ann.thread[n].stage \in Waiting})
    /\ ann.stopped => ann.stopping /\ ann.inflight = 0
    /\ ~ann.late
PostedOwn == \A p \in ann.posted : p.of = p.n /\ p.interval \in MinInterval .. MaxInterval

TrackerInv == TrackerTypes /\ OneQuestion /\ Replies /\ Asking /\ Counting /\ PostedOwn

LEMMA Bounded == ASSUME NEW i \in Int PROVE cadence(i) \in MinInterval .. MaxInterval
  <1>1. i % 2 ^ IntBits \in Int
    BY TrackerAssumption
  <1> QED
    BY <1>1, TrackerAssumption DEF cadence

LEMMA WaitingFinite ==
    \A S : S \subseteq Announces => IsFiniteSet(S)
  <1>1. 1 \in Int /\ MaxAnnounces \in Int
    BY TrackerAssumption
  <1>2. IsFiniteSet(Announces)
    BY <1>1, FS_Interval DEF Announces
  <1> QED
    BY <1>2, FS_Subset

(* A thread ends, and posts its announce's peers or nothing.               *)
LEMMA EndsThread ==
    ASSUME TrackerInv, NEW n \in Announces, ann.thread[n].stage \in Waiting, NEW i \in Int, NEW P,
           P \in {ann.posted, ann.posted \cup {[n |-> n, of |-> n, interval |-> cadence(i)]}},
           ann' = [ann EXCEPT !.thread[n].stage = "notify", !.inflight = @ - 1, !.late = @ \/ ann.stopped, !.posted = P]
    PROVE  TrackerInv'
  <1> DEFINE W == {m \in Announces : ann.thread[m].stage \in Waiting}
             p == [n |-> n, of |-> n, interval |-> cadence(i)]
  <1>1. IsFiniteSet(W) /\ n \in W
    BY WaitingFinite
  <1>2. ann.inflight = Cardinality(W) /\ Cardinality(W) \in Nat /\ Cardinality(W \ {n}) = Cardinality(W) - 1 /\ Cardinality(W \ {n}) \in Nat
    BY <1>1, FS_RemoveElement, FS_CardinalityType DEF TrackerInv, Counting
  <1>3. ~ann.stopped
    BY <1>1, <1>2, FS_EmptySet DEF TrackerInv, Counting
  <1>4. /\ ann'.made = ann.made /\ ann'.tids = ann.tids /\ ann'.stopping = ann.stopping /\ ann'.stopped = ann.stopped
        /\ ann'.asked = ann.asked /\ ann'.net = ann.net /\ ann'.late = (ann.late \/ ann.stopped)
        /\ ann'.inflight = ann.inflight - 1
        /\ ann'.thread = [ann.thread EXCEPT ![n] = [ann.thread[n] EXCEPT !.stage = "notify"]]
        /\ ann'.posted \in {ann.posted, ann.posted \cup {p}}
    BY DEF TrackerInv, TrackerTypes
  <1>5. p \in [n : Announces, of : Nat, interval : Int] /\ p.interval \in MinInterval .. MaxInterval
    BY Bounded, TrackerAssumption DEF Announces
  <1>6. ann'.thread \in [Announces -> Threaded]
        /\ \A m \in Announces : ann'.thread[m].stage = (IF m = n THEN "notify" ELSE ann.thread[m].stage) /\ ann'.thread[m].tid = ann.thread[m].tid
    BY <1>4 DEF TrackerInv, TrackerTypes, Threaded
  <1>7. TrackerTypes'
    <2>1. ann' = [made |-> ann'.made, tids |-> ann'.tids, thread |-> ann'.thread, inflight |-> ann'.inflight,
                  stopping |-> ann'.stopping, stopped |-> ann'.stopped, asked |-> ann'.asked, net |-> ann'.net,
                  posted |-> ann'.posted, late |-> ann'.late]
      BY DEF TrackerInv, TrackerTypes
    <2>2. ann'.inflight \in Nat
      BY <1>2, <1>4
    <2>3. ann'.posted \in SUBSET [n : Announces, of : Nat, interval : Int]
      BY <1>4, <1>5 DEF TrackerInv, TrackerTypes
    <2>4. ann'.late \in BOOLEAN
      BY <1>4
    <2> QED
      BY <1>4, <1>6, <2>1, <2>2, <2>3, <2>4 DEF TrackerInv, TrackerTypes
  <1>8. {m \in Announces : ann'.thread[m].stage \in Waiting} = W \ {n}
    BY <1>6 DEF Waiting
  <1>9. Counting'
    BY <1>2, <1>3, <1>4, <1>8 DEF TrackerInv, Counting
  <1>10. OneQuestion' /\ Replies' /\ Asking'
    <2>1. OneQuestion' /\ Replies'
      BY <1>4 DEF TrackerInv, OneQuestion, Replies
    <2>2. ASSUME NEW m \in Announces
          PROVE  /\ m > ann'.made => ann'.thread[m].stage = "none"
                 /\ ann'.thread[m].stage \in {"connect", "announce"} => \E q \in ann'.asked : q.n = m /\ q.tid = ann'.thread[m].tid
      BY <1>4, <1>6 DEF TrackerInv, Asking, Waiting
    <2> QED
      BY <2>1, <2>2 DEF Asking
  <1>11. PostedOwn'
    BY <1>4, <1>5 DEF TrackerInv, PostedOwn
  <1> QED
    BY <1>7, <1>9, <1>10, <1>11 DEF TrackerInv

LEMMA GivesUp ==
    ASSUME TrackerInv, NEW n \in Announces, ann.thread[n].stage \in Waiting, ann' = Finish(ann, n, FALSE, 0, 0)
    PROVE  TrackerInv'
  <1>1. 0 \in Int /\ ann' = [ann EXCEPT !.thread[n].stage = "notify", !.inflight = @ - 1, !.late = @ \/ ann.stopped, !.posted = ann.posted]
    BY DEF Finish, TrackerInv, TrackerTypes
  <1> QED
    BY <1>1, EndsThread

LEMMA PostsResult ==
    ASSUME TrackerInv, NEW n \in Announces, ann.thread[n].stage \in Waiting, NEW i \in Int, ann' = Finish(ann, n, TRUE, n, i)
    PROVE  TrackerInv'
  <1> DEFINE P == IF ann.stopping THEN ann.posted ELSE ann.posted \cup {[n |-> n, of |-> n, interval |-> cadence(i)]}
  <1>1. ann' = [ann EXCEPT !.thread[n].stage = "notify", !.inflight = @ - 1, !.late = @ \/ ann.stopped, !.posted = P]
    BY DEF Finish, TrackerInv, TrackerTypes
  <1> QED
    BY <1>1, EndsThread

(* A thread asks question q, with a transaction id that was never used.    *)
LEMMA Asks ==
    ASSUME TrackerInv, NEW q \in Questions, q.tid = ann.tids + 1, NEW a, ann.asked \subseteq a, a \subseteq ann.asked \cup {q}
    PROVE  /\ \A x \in a : x.tid <= ann.tids + 1 /\ \A y \in a : x.tid = y.tid => x = y
           /\ \A d \in ann.net : \E x \in a : d.tid = x.tid /\ d.n = x.n
  <1>1. \A x \in ann.asked : x.tid \in Nat /\ x.tid <= ann.tids
    BY DEF TrackerInv, TrackerTypes, OneQuestion, Questions
  <1>2. ann.tids \in Nat
    BY DEF TrackerInv, TrackerTypes
  <1> QED
    BY <1>1, <1>2 DEF TrackerInv, OneQuestion, Replies

LEMMA TrackerStarts == TrackerInit => TrackerInv
  <1> SUFFICES ASSUME TrackerInit PROVE TrackerInv
    OBVIOUS
  <1>1. {n \in Announces : ann.thread[n].stage \in Waiting} = {}
    BY DEF TrackerInit, NoThread, Waiting
  <1>2. Counting
    BY <1>1, FS_EmptySet DEF TrackerInit, Counting
  <1>3. TrackerTypes
    BY TrackerAssumption DEF TrackerInit, TrackerTypes, NoThread, Threaded
  <1>4. Asking
    BY DEF TrackerInit, Asking, NoThread
  <1> QED
    BY <1>2, <1>3, <1>4 DEF TrackerInit, TrackerInv, OneQuestion, Replies, PostedOwn

LEMMA AnnounceStarts == ASSUME TrackerInv, NEW t \in Trackers, announce(t) PROVE TrackerInv'
  <1> DEFINE n == ann.made + 1
             W == {m \in Announces : ann.thread[m].stage \in Waiting}
             q == Question("connect", n, 0)
             h == [tracker |-> t, stage |-> IF IsUdp(t) THEN "connect" ELSE "http", tid |-> IF IsUdp(t) THEN ann.tids + 1 ELSE 0]
  <1>1. n \in Announces /\ ann.made \in Nat /\ ann.tids \in Nat /\ n \in 0..MaxAnnounces /\ ann.inflight \in Nat
    BY TrackerAssumption DEF announce, TrackerInv, TrackerTypes, Announces
  <1>2. q \in Questions /\ q.tid = ann.tids + 1 /\ q.n = n
    BY <1>1 DEF Question, Questions, Announces
  <1>3. h \in Threaded
    BY <1>1 DEF Threaded, Waiting
  <1>4. /\ ann'.made = n /\ ann'.inflight = ann.inflight + 1 /\ ann'.tids = IF IsUdp(t) THEN ann.tids + 1 ELSE ann.tids
        /\ ann'.thread = [ann.thread EXCEPT ![n] = h]
        /\ ann'.asked = IF IsUdp(t) THEN ann.asked \cup {q} ELSE ann.asked
        /\ ann'.net = ann.net /\ ann'.posted = ann.posted /\ ann'.late = ann.late
        /\ ann'.stopping = ann.stopping /\ ann'.stopped = ann.stopped /\ ~ann.stopping
    BY DEF announce, TrackerInv, TrackerTypes
  <1>5. ann' = [made |-> ann'.made, tids |-> ann'.tids, thread |-> ann'.thread, inflight |-> ann'.inflight,
                stopping |-> ann'.stopping, stopped |-> ann'.stopped, asked |-> ann'.asked, net |-> ann'.net,
                posted |-> ann'.posted, late |-> ann'.late]
    BY DEF announce, TrackerInv, TrackerTypes
  <1> HIDE DEF n, q, h
  <1>6. TrackerTypes'
    <2>1. ann'.thread \in [Announces -> Threaded]
      BY <1>1, <1>3, <1>4 DEF TrackerInv, TrackerTypes
    <2>2. ann'.asked \in SUBSET Questions /\ ann'.tids \in Nat /\ ann'.inflight \in Nat /\ ann'.made \in 0..MaxAnnounces
      BY <1>1, <1>2, <1>4 DEF TrackerInv, TrackerTypes
    <2> QED
      BY <1>4, <1>5, <2>1, <2>2 DEF TrackerInv, TrackerTypes
  <1>7. OneQuestion' /\ Replies'
    <2>1. ann.asked \subseteq ann'.asked /\ ann'.asked \subseteq ann.asked \cup {q}
      BY <1>4
    <2>2. CASE IsUdp(t)
      <3>1. ann'.tids = ann.tids + 1
        BY <1>4, <2>2
      <3>2. /\ \A x \in ann'.asked : x.tid <= ann.tids + 1 /\ \A y \in ann'.asked : x.tid = y.tid => x = y
            /\ \A d \in ann.net : \E x \in ann'.asked : d.tid = x.tid /\ d.n = x.n
        BY <1>2, <2>1, Asks
      <3> QED
        BY <1>4, <3>1, <3>2 DEF OneQuestion, Replies
    <2>3. CASE ~IsUdp(t)
      BY <1>4, <2>3 DEF TrackerInv, OneQuestion, Replies
    <2> QED
      BY <2>2, <2>3
  <1>8. \A m \in Announces : ann'.thread[m] = IF m = n THEN h ELSE ann.thread[m]
    BY <1>4 DEF TrackerInv, TrackerTypes
  <1>9. ann.thread[n].stage = "none"
    BY <1>1 DEF TrackerInv, Asking, n
  <1>10. Asking'
    <2>1. ASSUME NEW m \in Announces
          PROVE  /\ m > ann'.made => ann'.thread[m].stage = "none"
                 /\ ann'.thread[m].stage \in {"connect", "announce"} => \E r \in ann'.asked : r.n = m /\ r.tid = ann'.thread[m].tid
      <3>1. CASE m = n
        <4>1. h.stage = "connect" => IsUdp(t) /\ h.tid = ann.tids + 1
          BY DEF h
        <4>2. h.stage \in {"connect", "http"} /\ ~(n > n)
          BY <1>1 DEF h, Announces
        <4> QED
          BY <1>2, <1>4, <1>8, <3>1, <4>1, <4>2
      <3>2. CASE m # n
        <4>1. m > ann'.made => m > ann.made
          BY <1>1, <1>4 DEF Announces, n
        <4> QED
          BY <1>4, <1>8, <3>2, <4>1 DEF TrackerInv, Asking
      <3> QED
        BY <3>1, <3>2
    <2> QED
      BY <2>1 DEF Asking
  <1>11. Counting'
    <2>1. {m \in Announces : ann'.thread[m].stage \in Waiting} = W \cup {n}
      <3>1. h.stage \in Waiting
        BY DEF h, Waiting
      <3> QED
        BY <1>1, <1>8, <3>1
    <2>2. IsFiniteSet(W) /\ n \notin W
      BY <1>9, WaitingFinite DEF Waiting
    <2>3. Cardinality(W \cup {n}) = Cardinality(W) + 1
      BY <2>2, FS_AddElement
    <2> QED
      BY <1>4, <2>1, <2>3 DEF TrackerInv, Counting
  <1> QED
    BY <1>4, <1>6, <1>7, <1>10, <1>11 DEF TrackerInv, PostedOwn

(* The connection id has come: the thread asks for the peers.              *)
LEMMA AnnounceAsked ==
    ASSUME TrackerInv, NEW n \in Announces, ann.thread[n].stage = "connect", NEW c \in Nat,
           ann' = [ann EXCEPT !.tids = @ + 1, !.thread[n] = [tracker |-> @.tracker, stage |-> "announce", tid |-> ann.tids + 1],
                              !.asked = @ \cup {Question("announce", n, c)}]
    PROVE  TrackerInv'
  <1> DEFINE q == Question("announce", n, c)
             h == [tracker |-> ann.thread[n].tracker, stage |-> "announce", tid |-> ann.tids + 1]
  <1>1. ann.tids \in Nat /\ ann.thread[n] \in Threaded
    BY DEF TrackerInv, TrackerTypes
  <1>2. q \in Questions /\ q.tid = ann.tids + 1 /\ q.n = n
    BY <1>1 DEF Question, Questions
  <1>3. h \in Threaded /\ h.stage = "announce" /\ h.tid = ann.tids + 1
    BY <1>1 DEF Threaded, Waiting
  <1>4. /\ ann'.tids = ann.tids + 1 /\ ann'.thread = [ann.thread EXCEPT ![n] = h] /\ ann'.asked = ann.asked \cup {q}
        /\ ann'.made = ann.made /\ ann'.inflight = ann.inflight /\ ann'.net = ann.net /\ ann'.posted = ann.posted
        /\ ann'.late = ann.late /\ ann'.stopping = ann.stopping /\ ann'.stopped = ann.stopped
    BY DEF TrackerInv, TrackerTypes
  <1>5. ann' = [made |-> ann'.made, tids |-> ann'.tids, thread |-> ann'.thread, inflight |-> ann'.inflight,
                stopping |-> ann'.stopping, stopped |-> ann'.stopped, asked |-> ann'.asked, net |-> ann'.net,
                posted |-> ann'.posted, late |-> ann'.late]
    BY DEF TrackerInv, TrackerTypes
  <1> HIDE DEF q, h
  <1>6. TrackerTypes'
    <2>1. ann'.thread \in [Announces -> Threaded] /\ ann'.asked \in SUBSET Questions /\ ann'.tids \in Nat
      BY <1>1, <1>2, <1>3, <1>4 DEF TrackerInv, TrackerTypes
    <2> QED
      BY <1>4, <1>5, <2>1 DEF TrackerInv, TrackerTypes
  <1>7. OneQuestion' /\ Replies'
    <2>1. ann.asked \subseteq ann'.asked /\ ann'.asked \subseteq ann.asked \cup {q}
      BY <1>4
    <2>2. /\ \A x \in ann'.asked : x.tid <= ann.tids + 1 /\ \A y \in ann'.asked : x.tid = y.tid => x = y
          /\ \A d \in ann.net : \E x \in ann'.asked : d.tid = x.tid /\ d.n = x.n
      BY <1>2, <2>1, Asks
    <2> QED
      BY <1>4, <2>2 DEF OneQuestion, Replies
  <1>8. \A m \in Announces : ann'.thread[m] = IF m = n THEN h ELSE ann.thread[m]
    BY <1>4 DEF TrackerInv, TrackerTypes
  <1>9. Asking'
    <2>1. ASSUME NEW m \in Announces
          PROVE  /\ m > ann'.made => ann'.thread[m].stage = "none"
                 /\ ann'.thread[m].stage \in {"connect", "announce"} => \E r \in ann'.asked : r.n = m /\ r.tid = ann'.thread[m].tid
      <3>1. CASE m = n
        <4>1. ~(n > ann.made)
          BY DEF TrackerInv, Asking
        <4> QED
          BY <1>2, <1>3, <1>4, <1>8, <3>1, <4>1
      <3>2. CASE m # n
        BY <1>4, <1>8, <3>2 DEF TrackerInv, Asking
      <3> QED
        BY <3>1, <3>2
    <2> QED
      BY <2>1 DEF Asking
  <1>10. Counting'
    <2>1. {m \in Announces : ann'.thread[m].stage \in Waiting} = {m \in Announces : ann.thread[m].stage \in Waiting}
      BY <1>3, <1>8 DEF Waiting
    <2> QED
      BY <1>4, <2>1 DEF TrackerInv, Counting
  <1> QED
    BY <1>4, <1>6, <1>7, <1>9, <1>10 DEF TrackerInv, PostedOwn

LEMMA TrackerSteps == TrackerInv /\ [TrackerNext]_ann => TrackerInv'
  <1> SUFFICES ASSUME TrackerInv, [TrackerNext]_ann PROVE TrackerInv'
    OBVIOUS
  <1>1. ASSUME NEW q \in ann.asked, TrackerReplies(q) PROVE TrackerInv'
    <2>1. PICK kind \in {"connect", "announce", "error"} :
              ann' = [ann EXCEPT !.net = @ \cup {[kind |-> kind, tid |-> q.tid, n |-> q.n]}]
      BY <1>1 DEF TrackerReplies, TrackerInv, TrackerTypes, Questions
    <2>2. q \in Questions
      BY DEF TrackerInv, TrackerTypes
    <2>3. [kind |-> kind, tid |-> q.tid, n |-> q.n] \in Datagrams
      BY <2>2 DEF Questions, Datagrams
    <2>4. TrackerTypes'
      BY <2>1, <2>3 DEF TrackerInv, TrackerTypes
    <2>5. Replies'
      BY <2>1 DEF TrackerInv, TrackerTypes, Replies
    <2> QED
      BY <2>1, <2>4, <2>5 DEF TrackerInv, TrackerTypes, OneQuestion, Asking, Counting, PostedOwn
  <1>2. ASSUME NEW n \in Announces, Fails(n) PROVE TrackerInv'
    <2>1. ann.thread[n].stage \in Waiting /\ ann' = Finish(ann, n, FALSE, 0, 0)
      BY <1>2 DEF Fails, Waiting
    <2> QED
      BY <2>1, GivesUp
  <1>3. ASSUME NEW n \in Announces, NEW i \in Intervals, receive_http(n, i) PROVE TrackerInv'
    <2>1. ann.thread[n].stage \in Waiting /\ ann' = Finish(ann, n, TRUE, n, i) /\ i \in Int /\ n \in Nat
      BY <1>3, TrackerAssumption DEF receive_http, At, Waiting, Announces
    <2> QED
      BY <2>1, PostsResult
  <1>4. ASSUME NEW n \in Announces, NEW i \in Intervals, NEW d \in ann.net, receive_udp(n, d, i) PROVE TrackerInv'
    <2>1. ann.thread[n].stage \in Waiting /\ i \in Int /\ n \in Nat /\ d \in Datagrams /\ d.n \in Nat
      BY <1>4, TrackerAssumption DEF receive_udp, Waiting, Announces, TrackerInv, TrackerTypes, Datagrams
    <2>2. CASE ~answers(n, d)
      <3>1. ann' = Finish(ann, n, FALSE, 0, 0)
        BY <1>4, <2>2 DEF receive_udp
      <3> QED
        BY <2>1, <3>1, GivesUp
    <2>3. CASE answers(n, d) /\ d.kind = "announce"
      <3>1. ann' = Finish(ann, n, TRUE, d.n, i)
        BY <1>4, <2>3 DEF receive_udp
      <3>2. PICK q \in ann.asked : d.tid = q.tid /\ d.n = q.n
        BY DEF TrackerInv, Replies
      <3>3. PICK r \in ann.asked : r.n = n /\ r.tid = ann.thread[n].tid
        BY <2>3 DEF answers, TrackerInv, Asking
      <3>4. d.n = n
        BY <2>3, <3>2, <3>3 DEF answers, TrackerInv, OneQuestion
      <3> QED
        BY <2>1, <3>1, <3>4, PostsResult
    <2>4. CASE answers(n, d) /\ d.kind # "announce"
      <3>1. ann.thread[n].stage = "connect"
        BY <1>4, <2>4 DEF receive_udp, answers
      <3>2. ann' = [ann EXCEPT !.tids = @ + 1, !.thread[n] = [tracker |-> @.tracker, stage |-> "announce", tid |-> ann.tids + 1],
                               !.asked = @ \cup {Question("announce", n, d.n)}]
        BY <1>4, <2>4 DEF receive_udp
      <3> QED
        BY <2>1, <3>1, <3>2, AnnounceAsked
    <2> QED
      BY <2>2, <2>3, <2>4
  <1>5. ASSUME NEW n \in Announces, Notify(n) PROVE TrackerInv'
    <2>1. \A m \in Announces : ann'.thread[m].tid = ann.thread[m].tid /\ ann'.thread[m] \in Threaded
                               /\ ann'.thread[m].stage = IF m = n THEN "over" ELSE ann.thread[m].stage
      BY <1>5 DEF Notify, At, TrackerInv, TrackerTypes, Threaded
    <2>2. TrackerTypes'
      BY <1>5, <2>1 DEF Notify, At, TrackerInv, TrackerTypes, Threaded
    <2>3. /\ ann'.tids = ann.tids /\ ann'.asked = ann.asked
          /\ ann'.made = ann.made /\ ann'.inflight = ann.inflight /\ ann'.net = ann.net /\ ann'.posted = ann.posted
          /\ ann'.late = ann.late /\ ann'.stopping = ann.stopping /\ ann'.stopped = ann.stopped
      BY <1>5 DEF Notify, TrackerInv, TrackerTypes
    <2>4. ann.thread[n].stage = "notify"
      BY <1>5 DEF Notify, At
    <2>5. {m \in Announces : ann'.thread[m].stage \in Waiting} = {m \in Announces : ann.thread[m].stage \in Waiting}
      BY <2>1, <2>4 DEF Waiting
    <2>6. Counting'
      BY <2>3, <2>5 DEF TrackerInv, Counting
    <2>7. Asking'
      <3>1. ASSUME NEW m \in Announces
            PROVE  /\ m > ann'.made => ann'.thread[m].stage = "none"
                   /\ ann'.thread[m].stage \in {"connect", "announce"} => \E r \in ann'.asked : r.n = m /\ r.tid = ann'.thread[m].tid
        BY <2>1, <2>3, <2>4 DEF TrackerInv, Asking
      <3> QED
        BY <3>1 DEF Asking
    <2> QED
      BY <2>2, <2>3, <2>6, <2>7 DEF TrackerInv, OneQuestion, Replies, PostedOwn
  <1>6. CASE AnnouncerStops
    <2>1. ann' = [ann EXCEPT !.stopping = TRUE]
      BY <1>6 DEF AnnouncerStops
    <2>2. TrackerTypes'
      BY <2>1 DEF TrackerInv, TrackerTypes
    <2>3. /\ ann'.tids = ann.tids /\ ann'.asked = ann.asked /\ ann'.thread = ann.thread
          /\ ann'.made = ann.made /\ ann'.inflight = ann.inflight /\ ann'.net = ann.net /\ ann'.posted = ann.posted
          /\ ann'.late = ann.late /\ ann'.stopping = TRUE /\ ann'.stopped = ann.stopped
      BY <2>1 DEF TrackerInv, TrackerTypes
    <2>4. Counting'
      BY <1>6, <2>3 DEF AnnouncerStops, TrackerInv, Counting
    <2> QED
      BY <2>2, <2>3, <2>4 DEF TrackerInv, OneQuestion, Replies, Asking, PostedOwn
  <1>7. CASE StopReturns
    <2>1. ann' = [ann EXCEPT !.stopped = TRUE]
      BY <1>7 DEF StopReturns
    <2>2. TrackerTypes'
      BY <2>1 DEF TrackerInv, TrackerTypes
    <2>3. /\ ann'.tids = ann.tids /\ ann'.asked = ann.asked /\ ann'.thread = ann.thread
          /\ ann'.made = ann.made /\ ann'.inflight = ann.inflight /\ ann'.net = ann.net /\ ann'.posted = ann.posted
          /\ ann'.late = ann.late /\ ann'.stopped = TRUE /\ ann'.stopping = ann.stopping
      BY <2>1 DEF TrackerInv, TrackerTypes
    <2>4. Counting'
      BY <1>7, <2>3 DEF StopReturns, TrackerInv, Counting
    <2> QED
      BY <2>2, <2>3, <2>4 DEF TrackerInv, OneQuestion, Replies, Asking, PostedOwn
  <1>8. CASE UNCHANGED ann
    BY <1>8 DEF TrackerInv, TrackerTypes, OneQuestion, Replies, Asking, Counting, PostedOwn
  <1> QED
    BY <1>1, <1>2, <1>3, <1>4, <1>5, <1>6, <1>7, <1>8, AnnounceStarts DEF TrackerNext

(* For any trackers, intervals they name, answers that come late, twice or *)
(* to a port that is used again, and stop() in between: a thread posts the *)
(* peers of its own announce with an interval within the bounds, and none  *)
(* takes the lock after stop() has returned.                               *)
THEOREM AnnouncesSound == TrackerSpec => []AnnounceSound
  <1>1. ASSUME TrackerInv PROVE AnnounceSound
    <2>1. {n \in Announces : ann.thread[n].stage \notin {"none", "notify", "over"}} = {n \in Announces : ann.thread[n].stage \in Waiting}
      BY <1>1 DEF TrackerInv, TrackerTypes, Threaded, Waiting
    <2> QED
      BY <1>1, <2>1 DEF AnnounceSound, TrackerInv, Counting, PostedOwn
  <1> QED
    BY <1>1, TrackerStarts, TrackerSteps, PTL DEF TrackerSpec

=============================================================================
