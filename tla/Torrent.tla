---- MODULE Torrent ----
(***************************************************************************)
(* A torrent downloading from its peers: the download half of class        *)
(* Torrent (bittorrent/torrent.cpp) with the connections it observes       *)
(* (peer_connection.cpp), its picker (PiecePicker) and its disk threads    *)
(* (disk_io.cpp, store_buffer.cpp).  All handlers run on one reactor       *)
(* thread; the disk threads take jobs from a queue and post completions.   *)
(*                                                                         *)
(* The state is one record.  A handler is an operator from a state to the  *)
(* set of states it may end in, because a pick has several answers; the    *)
(* handlers call each other as in the code, and a send on a dead socket    *)
(* closes the connection in the middle of the caller (flush, close,        *)
(* on_closed, remove_peer).                                                *)
(*                                                                         *)
(*   slots, np   peers_: erasing shifts the tail left and leaves the old   *)
(*               last slot behind, which a loop already running still sees *)
(*   out, rt     outstanding_ and request_time_ (recent or expired)        *)
(*   rq          requests the remote has and may still answer              *)
(*   jobs, post  the disk queue and the completions posted to the reactor  *)
(*   store, file blocks parked in the StoreBuffer, and on disk             *)
(***************************************************************************)
EXTENDS PiecePicker

CONSTANTS Conns,         \* connections, each used once
          Honest,        \* the ones that have everything, stay and answer
          Spoilers,      \* the ones that may send a wrong block
          PipelineDepth, \* kPipelineDepth
          HighWater,     \* kDiskWriteHighWater, in blocks
          NumThreads,    \* ThreadedDiskIo::Config::num_threads
          OnDisk,        \* what the files may hold at the start: sets of pieces
          Slow,          \* the ones that may sit on requests past the timeout
          MaxFaults,     \* bound: failed writes, expired requests and pauses together
          MaxMoves       \* bound: messages, after the first two, of peers that are not honest

VARIABLE tor

Without(f, x) == [y \in DOMAIN f \ {x} |-> f[y]]
Put(f, x, v) == [y \in DOMAIN f \cup {x} |-> IF y = x THEN v ELSE f[y]]

Peers(s)    == {s.slots[i] : i \in 1..s.np}         \* alive(pc)
Open(s, c)  == s.conn[c].open = "open"
Out(s, c)   == IF c \in DOMAIN s.out THEN s.out[c] ELSE 0   \* outstanding_[pc]
Then(S, F(_)) == UNION {F(s) : s \in S}

\* A loop over the live vector: its end is fixed when it starts, its slots
\* are read as it goes.
ForPeers(S, F(_, _)) ==
  UNION {FoldLeft(LAMBDA acc, i : UNION {F(a, a.slots[i]) : a \in acc},
                  {s}, [i \in 1..s.np |-> i]) : s \in S}

----------------------------------------------------------------------------
(* Losing a peer *)

remove_peer_by_bits(s, c) ==
  IF c \notin Peers(s) THEN s
  ELSE LET at == Min({i \in 1..s.np : s.slots[i] = c}) IN
       [s EXCEPT !.pk = cancel_peer(dec_availability(@, s.conn[c].bits), c),
                 !.slots = [i \in DOMAIN @ |-> IF i \in at..(s.np - 1) THEN @[i + 1] ELSE @[i]],
                 !.np = @ - 1,
                 !.out = Without(@, c), !.rt = Without(@, c), !.seeds = @ \ {c}]

remove_peer(s, c) ==
  IF c \notin Peers(s) THEN s
  ELSE LET at == Min({i \in 1..s.np : s.slots[i] = c})
           k  == IF c \in s.seeds THEN dec_availability_all(s.pk)
                 ELSE dec_availability(s.pk, s.conn[c].bits)
       IN [s EXCEPT !.pk = cancel_peer(k, c),
                    !.slots = [i \in DOMAIN @ |-> IF i \in at..(s.np - 1) THEN @[i + 1] ELSE @[i]],
                    !.np = @ - 1,
                    !.out = Without(@, c), !.rt = Without(@, c), !.seeds = @ \ {c}]

close(s, c) ==
  IF ~Open(s, c) THEN s
  ELSE remove_peer([s EXCEPT !.conn[c].open = "closed",
                             !.rq[c] = [pb \in Blocks |-> 0]], c)

\* flush: a send on a dead socket closes the connection inline.
flush(s, c) == IF Open(s, c) /\ s.conn[c].dead THEN close(s, c) ELSE s

----------------------------------------------------------------------------
(* Requesting *)

Queued(s) == Cardinality({i \in DOMAIN s.jobs : s.jobs[i].k = "write"})

send_request(s, c, pb) ==
  flush(IF Open(s, c) /\ ~s.conn[c].dead THEN [s EXCEPT !.rq[c][pb] = @ + 1] ELSE s, c)

refill(s, c) ==
  LET before == Out(s, c)
      budget == PipelineDepth - before
      Request(a, pb) ==
        LET n == send_request([a EXCEPT !.pk = mark_requested(@, pb, c)], c, pb)
        IN  [n EXCEPT !.out = Put(@, c, Out(n, c) + 1)]
      Clock(a) == IF before = 0 /\ Out(a, c) > 0
                  THEN [a EXCEPT !.rt = Put(@, c, "recent")] ELSE a
  IN IF ~s.run \/ s.conn[c].choking \/ ~s.conn[c].intr THEN {s}
     ELSE IF Queued(s) > HighWater THEN {[s EXCEPT !.stalled = TRUE]}
     ELSE IF budget <= 0 THEN {s}
     ELSE {Clock(FoldLeft(Request, [s EXCEPT !.out = Put(@, c, before)], r)) :
             r \in pick_blocks(s.pk, "RarestFirst", s.conn[c].bits, budget, c)}

refill_if_open_to_us(s, c) ==
  IF s.conn[c].intr /\ ~s.conn[c].choking THEN refill(s, c) ELSE {s}

refill_all(s) == ForPeers({s}, refill_if_open_to_us)

say_interest(s, c, on) == flush([s EXCEPT !.conn[c].intr = on], c)

update_interest(s, c) ==
  LET want == is_interesting(s.pk, s.conn[c].bits)
      t    == IF want # s.conn[c].intr THEN say_interest(s, c, want) ELSE s
  IN  IF want /\ ~t.conn[c].choking THEN refill(t, c) ELSE {t}

----------------------------------------------------------------------------
(* What a peer tells us: each message runs to the end of its handler *)

on_handshake(s, c) ==
  IF s.paused THEN {close([s EXCEPT !.conn[c].open = "open"], c)}
  ELSE {flush([s EXCEPT !.conn[c].open = "open",
                        !.slots[s.np + 1] = c, !.np = @ + 1,
                        !.out = Put(@, c, 0)], c)}

\* A full bitfield is one seed, any other is counted piece by piece.
on_bitfield(s, c, bits) ==
  LET t == [s EXCEPT !.conn[c].bits = bits, !.conn[c].begun = TRUE] IN
  IF ~s.run THEN {t}
  ELSE update_interest(
         IF bits = Pieces
         THEN [t EXCEPT !.pk = IF c \in s.seeds THEN @ ELSE inc_availability_all(@),
                        !.seeds = @ \cup {c}]
         ELSE [t EXCEPT !.pk = inc_availability(@, bits)], c)

\* Only a HAVE that flips a bit is passed on by dispatch.
on_have(s, c, p) ==
  LET t == [s EXCEPT !.conn[c].begun = TRUE, !.conn[c].bits = @ \cup {p}]
      u == [t EXCEPT !.pk = avail_add(@, p, 1)]
      v == IF ~s.conn[c].intr /\ wanted(s.pk, p) THEN say_interest(u, c, TRUE) ELSE u
  IN  IF p \in s.conn[c].bits THEN {[s EXCEPT !.conn[c].begun = TRUE]}
      ELSE IF ~s.run THEN {t}
      ELSE refill_if_open_to_us(v, c)

on_choke(s, c, choking) ==
  LET t == [s EXCEPT !.conn[c].choking = choking] IN
  IF ~s.run THEN {t}
  ELSE IF choking
  THEN {[t EXCEPT !.pk = cancel_peer(@, c), !.out = Put(@, c, 0), !.rt = Without(@, c)]}
  ELSE refill(t, c)

\* The CANCEL may cross the block it cancels.
send_cancel(s, c, pb) ==
  LET t == [s EXCEPT !.out = IF Out(s, c) > 0 THEN Put(@, c, @[c] - 1) ELSE @] IN
  {flush(t, c)} \cup {flush([t EXCEPT !.rq[c][pb] = Max({0, @ - 1})], c)}

async_write(s, pb, data) ==
  [s EXCEPT !.store = Put(@, pb, data),
            !.jobs = Append(@, [k |-> "write", at |-> pb, data |-> data])]

on_piece(s, c, pb, data) ==
  LET t == [s EXCEPT !.out = Put(@, c, Max({0, Out(s, c) - 1})),
                     !.rt = Put(@, c, "recent")]
      u == [t EXCEPT !.pk = mark_writing(@, pb)]
      Cancel(acc, o) == Then(acc, LAMBDA a : IF o \in Peers(a) THEN send_cancel(a, o, pb) ELSE {a})
      cancelled == FoldLeft(Cancel, {u}, SetToSeq(others_asked(t.pk, pb, c)))
  IN  IF ~s.run THEN {s}
      ELSE IF pb[1] \in s.pk.have THEN refill(t, c)
      ELSE Then(cancelled, LAMBDA a : refill(async_write(a, pb, data), c))

on_closed(s, c) == {close(s, c)}

----------------------------------------------------------------------------
(* The tick: requests a peer has sat on go back to the picker *)

check_request_timeouts(s) ==
  LET late == {c \in DOMAIN s.out : s.out[c] > 0 /\ c \in DOMAIN s.rt /\ s.rt[c] = "expired"}
      t == [s EXCEPT !.pk = FoldLeft(cancel_peer, @, SetToSeq(late)),
                     !.out = [c \in DOMAIN @ |-> IF c \in late THEN 0 ELSE @[c]],
                     !.rt = [c \in DOMAIN @ \ late |-> @[c]]]
  IN  IF ~s.run \/ late = {} THEN {s}
      ELSE ForPeers({t}, LAMBDA a, c : IF c \in late THEN {a} ELSE refill_if_open_to_us(a, c))

----------------------------------------------------------------------------
(* The disk: a job runs on a worker and posts its completion *)

Overlaid(s, pb) == IF pb \in DOMAIN s.store THEN s.store[pb] ELSE s.file[pb]
Sound(s, p) == \A pb \in BlocksOf(p) : Overlaid(s, pb) = "good"

\* One of the first NumThreads jobs finishes.
Finish(s, i, ok) ==
  LET j == s.jobs[i]
      t == [s EXCEPT !.jobs = RemoveAt(@, i)]
  IN CASE j.k = "write" ->
            [t EXCEPT !.file[j.at] = IF ok THEN j.data ELSE @,
                      !.store = Without(@, j.at),
                      !.post = Append(@, [k |-> "written", at |-> j.at, res |-> ok])]
       [] j.k = "hash" ->
            [t EXCEPT !.post = Append(@, [k |-> "hashed", at |-> j.at, res |-> Sound(s, j.at[1])])]
       [] j.k = "check" ->
            [t EXCEPT !.post = Append(@, [k |-> "checked", at |-> <<>>,
               res |-> {p \in Pieces : \A pb \in BlocksOf(p) : s.file[pb] = "good"}])]

\* Requesting is not resumed when the write queue has drained.
on_block_written_only(s, pb, ok) ==
  LET t == [s EXCEPT !.pk = mark_finished(@, pb)] IN
  IF ~ok THEN {[s EXCEPT !.pk = restore_piece(@, pb[1])]}
  ELSE IF AllFinished(t.pk, pb[1])
  THEN {[t EXCEPT !.jobs = Append(@, [k |-> "hash", at |-> <<pb[1]>>, data |-> "none"])]}
  ELSE {t}

on_block_written(s, pb, ok) ==
  LET t == [s EXCEPT !.pk = mark_finished(@, pb)]
      u == IF AllFinished(t.pk, pb[1])
           THEN [t EXCEPT !.jobs = Append(@, [k |-> "hash", at |-> <<pb[1]>>, data |-> "none"])] ELSE t
  IN  IF ~ok THEN {[s EXCEPT !.pk = restore_piece(@, pb[1])]}
      ELSE IF u.stalled /\ Queued(u) <= HighWater
      THEN refill_all([u EXCEPT !.stalled = FALSE]) ELSE {u}

Finished(k) == k.left = 0            \* is_finished

\* verified_bytes_, of which only what is below the total shows (bytes_left).
Verified(n) == Min({n, TotalSize})

on_piece_hashed(s, p, ok) ==
  LET t == [s EXCEPT !.pk = we_have(@, p), !.verified = Verified(@ + piece_size(p))]
      Done(a) == IF Finished(a.pk) /\ ~a.done
                 THEN [a EXCEPT !.done = TRUE, !.state = "Seeding"] ELSE a
  IN  IF ~ok THEN {[s EXCEPT !.pk = restore_piece(@, p)]}
      ELSE {Done(a) : a \in ForPeers({t}, LAMBDA b, c : update_interest(flush(b, c), c))}

\* The loop over a snapshot: a peer dropped on the way is skipped.
on_check_complete(s, have) ==
  LET k == set_have_bitfield(s.pk, have)
      t == [s EXCEPT !.pk = k,
                     !.verified = Verified(@ + MapThenSumSet(piece_size, k.have)),
                     !.state = IF Finished(k) THEN "Seeding" ELSE "Downloading",
                     !.done = Finished(k)]
      Tell(acc, c) ==
        Then(acc, LAMBDA a :
          IF c \notin Peers(a) THEN {a}
          ELSE LET b == IF k.have = {} THEN a ELSE flush(a, c)
               IN  IF c \in Peers(b) THEN update_interest(b, c) ELSE {b})
  IN  FoldLeft(Tell, {t}, SubSeq(s.slots, 1, s.np))

\* A posted completion finds the torrent stopped, or runs its handler.
Completed(s, m) ==
  IF ~s.run THEN {s}
  ELSE CASE m.k = "written" -> on_block_written(s, m.at, m.res)
         [] m.k = "hashed"  -> on_piece_hashed(s, m.at[1], m.res)
         [] m.k = "checked" -> on_check_complete(s, m.res)

----------------------------------------------------------------------------
(* start, pause, resume, stop *)

start(have) ==
  [run |-> TRUE, paused |-> FALSE, state |-> "Checking", done |-> FALSE, stalled |-> FALSE,
   verified |-> 0, pk |-> NewPicker, slots |-> [i \in 1..Cardinality(Conns) |-> CHOOSE c \in Conns : TRUE],
   np |-> 0, out |-> <<>>, rt |-> <<>>, seeds |-> {},
   conn |-> [c \in Conns |-> [open |-> "no", dead |-> FALSE, choking |-> TRUE, intr |-> FALSE,
                              bits |-> {}, begun |-> FALSE]],
   rq |-> [c \in Conns |-> [pb \in Blocks |-> 0]],
   jobs |-> <<[k |-> "check", at |-> <<>>, data |-> "none"]>>, post |-> <<>>, store |-> <<>>,
   file |-> [pb \in Blocks |-> IF pb[1] \in have THEN "good" ELSE "none"],
   spoilt |-> FALSE, halted |-> FALSE, faults |-> 0, moves |-> 0]

DropAll(s) ==
  LET t == CHOOSE t \in ForPeers({s}, LAMBDA a, c : {close(a, c)}) : TRUE
  IN  [t EXCEPT !.np = 0, !.out = <<>>, !.rt = <<>>, !.seeds = {}]

pause(s) == [DropAll(s) EXCEPT !.paused = TRUE]
resume(s) == [s EXCEPT !.paused = FALSE]

\* The workers finish the jobs that are queued before they are joined.
stop(s) ==
  LET t == [DropAll([s EXCEPT !.run = FALSE, !.paused = FALSE]) EXCEPT !.state = "Stopped"]
  IN  FoldLeft(LAMBDA a, i : Finish(a, 1, TRUE), t, s.jobs)

----------------------------------------------------------------------------
(* The steps *)

TorrentInit == \E have \in OnDisk : tor = start(have)

\* One event of an open connection, handled to its end.
Event(c, S) == Open(tor, c) /\ ~tor.conn[c].dead /\ tor' \in S

\* The state in which a peer that is not honest has made one more move.
Moved(c) == IF c \in Honest THEN tor ELSE [tor EXCEPT !.moves = @ + 1]
MayMove(c) == c \in Honest \/ tor.moves < MaxMoves

Connects(c) ==
  tor.conn[c].open = "no" /\ tor.run /\ tor' \in on_handshake(tor, c)

SendsBitfield(c) ==
  \E bits \in IF c \in Honest THEN {Pieces} ELSE {{0}, {1}} :
    ~tor.conn[c].begun /\ Event(c, on_bitfield(tor, c, bits))

SendsHave(c) ==
  c \notin Honest /\ MayMove(c) /\ \E p \in Pieces : Event(c, on_have(Moved(c), c, p))

\* A remote that chokes us has dropped our requests.
SendsChoke(c) ==
  /\ c \notin Honest /\ ~tor.conn[c].choking /\ MayMove(c)
  /\ Event(c, on_choke([Moved(c) EXCEPT !.rq[c] = [pb \in Blocks |-> 0]], c, TRUE))

SendsUnchoke(c) ==
  /\ tor.conn[c].begun /\ tor.conn[c].choking /\ MayMove(c)
  /\ Event(c, on_choke(Moved(c), c, FALSE))

SendsPiece(c) ==
  \E pb \in Blocks, data \in {"good"} \cup {"bad" : x \in Spoilers \cap {c}} :
    /\ tor.rq[c][pb] > 0 /\ MayMove(c)
    /\ Event(c, on_piece([Moved(c) EXCEPT !.rq[c][pb] = @ - 1,
                                     !.spoilt = @ \/ data = "bad"], c, pb, data))

\* The socket dies; the next send, or the next read, finds out.
Dies(c) ==
  /\ c \notin Honest /\ Open(tor, c) /\ ~tor.conn[c].dead /\ MayMove(c)
  /\ tor' = [Moved(c) EXCEPT !.conn[c].dead = TRUE]

ReadFails(c) == tor.conn[c].dead /\ Open(tor, c) /\ tor' \in on_closed(tor, c)

\* request_timeout_ goes by for one peer.
Expires(c) ==
  /\ c \in Slow \cap DOMAIN tor.rt /\ tor.rt[c] = "recent" /\ tor.faults < MaxFaults
  /\ tor' = [tor EXCEPT !.rt[c] = "expired", !.faults = @ + 1]

Tick == tor.run /\ ~tor.paused /\ tor' \in check_request_timeouts(tor)

DiskRuns ==
  \E i \in 1..Min({NumThreads, Len(tor.jobs)}) : tor' = Finish(tor, i, TRUE)

WriteFails ==
  \E i \in 1..Min({NumThreads, Len(tor.jobs)}) :
    /\ tor.jobs[i].k = "write" /\ tor.faults < MaxFaults
    /\ tor' = Finish([tor EXCEPT !.faults = @ + 1, !.spoilt = TRUE], i, FALSE)

RunPosted ==
  tor.post # <<>> /\ tor' \in Completed([tor EXCEPT !.post = Tail(@)], Head(tor.post))

\* The user interferes, which ends what DownloadCompletes promises.
Halted == [tor EXCEPT !.halted = TRUE, !.faults = @ + 1]

Pause == tor.run /\ ~tor.paused /\ tor.faults < MaxFaults /\ tor' = pause(Halted)
Resume == tor.run /\ tor.paused /\ tor' = resume(tor)
Stop == tor.run /\ tor.faults < MaxFaults /\ tor' = stop(Halted)

TorrentNext ==
  \/ \E c \in Conns : \/ Connects(c) \/ SendsBitfield(c) \/ SendsHave(c) \/ SendsChoke(c)
                       \/ SendsUnchoke(c) \/ SendsPiece(c) \/ Dies(c) \/ ReadFails(c)
                       \/ Expires(c)
  \/ Tick \/ DiskRuns \/ WriteFails \/ RunPosted \/ Pause \/ Resume \/ Stop

----------------------------------------------------------------------------
(* Properties *)

\* AvailabilityExact: the picker counts on each piece exactly the connected
\* peers that have it, after any order of bitfields, HAVEs, repeated HAVEs,
\* seeds and closes, also those in the middle of a handler (on_bitfield and
\* remove_peer, torrent.cpp 268-291 and 565-583).
AvailabilityExact ==
  tor.run => \A p \in Pieces :
    tor.pk.avail[p] + tor.pk.seeds = Cardinality({c \in Peers(tor) : p \in tor.conn[c].bits})

\* DownloadCompletes: with a peer that has everything, stays, unchokes us and
\* answers, the download ends, whatever the other peers do: choke us, die in
\* the middle of a send, sit on requests.  (Pausing or stopping it, a wrong
\* block and a failed write are left out; see RefetchesSpoilt.)
DownloadCompletes ==
  <>(tor.state = "Seeding" \/ tor.spoilt \/ tor.halted \/ ~tor.run)

\* RefetchesSpoilt: "piece hash mismatch, refetch" (torrent.cpp 463): a wrong
\* block does not keep the download from ending.
RefetchesSpoilt == <>(tor.state = "Seeding" \/ tor.halted \/ ~tor.run)
====
