---- MODULE PiecePicker ----
(***************************************************************************)
(* Which blocks of a torrent to ask which peer for: class PiecePicker of   *)
(* bittorrent/piece_picker.cpp.  A picker is a record; each method is an   *)
(* operator from the picker before to the picker after.  What is random or *)
(* follows a hash table's order in the code (the start inside a bucket,    *)
(* the order of the partial pieces) is a set of outcomes here.  PickerCalls*)
(* calls the methods in every order; Torrent uses them for a download.     *)
(*                                                                         *)
(*   have, prio, avail, seeds, left, cursor  have_ .. seq_cursor_          *)
(*   dl, blk   downloading_: the pieces in progress; per block its state   *)
(*             and the peers it was asked of (fresh outside dl)            *)
(*   bucket    buckets_: the wanted pieces by priority and availability    *)
(*   pos, in   order_pos_ (from 1) and in_order_                           *)
(***************************************************************************)
EXTENDS Integers, Sequences, FiniteSets, SequencesExt, FiniteSetsExt

CONSTANTS PieceLength,   \* info.piece_length()
          TotalSize,     \* info.total_size()
          BlockSize,     \* kBlockSize
          NumPieces,     \* info.num_pieces()
          MaxAvail       \* bound: peers that can be counted on one piece

Pieces == 0..(NumPieces - 1)
Wants == {"High", "Normal"}          \* the bucketed priorities, best first

----------------------------------------------------------------------------
(* Geometry *)

piece_size(p) ==
  IF p + 1 < NumPieces THEN PieceLength
  ELSE LET tail == TotalSize - p * PieceLength
       IN  IF tail <= 0 THEN 0 ELSE Min({tail, PieceLength})

blocks_in_piece(p) == (piece_size(p) + BlockSize - 1) \div BlockSize

block_size(p, b) == Min({BlockSize, piece_size(p) - b * BlockSize})

BlocksOf(p) == {p} \X (0..(blocks_in_piece(p) - 1))
Blocks == UNION {BlocksOf(p) : p \in Pieces}

----------------------------------------------------------------------------
(* The rarest-first index *)

wanted(k, p) == k.prio[p] # "DontDownload" /\ p \notin k.have

order_insert(k, p) ==
  IF p \in k.in \/ ~wanted(k, p) THEN k
  ELSE LET key == <<k.prio[p], k.avail[p]>> IN
       [k EXCEPT !.pos[p] = Len(k.bucket[key]) + 1,
                 !.bucket[key] = Append(@, p),
                 !.in = @ \cup {p}]

\* The tail of the bucket is cut off, whichever piece leaves.
order_remove_tail(k, p) ==
  IF p \notin k.in THEN k
  ELSE [k EXCEPT !.bucket[<<k.prio[p], k.avail[p]>>] = Front(@), !.in = @ \ {p}]

\* The tail of the bucket moves into the vacated slot.
order_remove(k, p) ==
  IF p \notin k.in THEN k
  ELSE LET key  == <<k.prio[p], k.avail[p]>>
           tail == Last(k.bucket[key])
       IN  [k EXCEPT !.bucket[key] = Front([@ EXCEPT ![k.pos[p]] = tail]),
                     !.pos[tail] = k.pos[p],
                     !.in = @ \ {p}]

avail_add(k, p, d) ==
  order_insert([order_remove(k, p) EXCEPT !.avail[p] = Max({0, @ + d})], p)

FreshBlock == [st |-> "None", by |-> {}]

Fresh(prios) ==
  LET none == [have |-> {}, prio |-> prios, avail |-> [p \in Pieces |-> 0],
               seeds |-> 0, left |-> NumPieces, cursor |-> 0, dl |-> {},
               blk |-> [pb \in Blocks |-> FreshBlock],
               bucket |-> [key \in Wants \X (0..MaxAvail) |-> <<>>],
               pos |-> [p \in Pieces |-> 0], in |-> {}]
  IN  FoldLeft(order_insert, none, [i \in 1..NumPieces |-> i - 1])

\* The constructor: every piece wanted, none available.
NewPicker == Fresh([p \in Pieces |-> "Normal"])

----------------------------------------------------------------------------
(* Our progress, priorities, availability *)

\* downloading_.erase(piece)
Dropped(k, p) ==
  [k EXCEPT !.dl = @ \ {p},
            !.blk = [pb \in Blocks |-> IF pb[1] = p THEN FreshBlock ELSE @[pb]]]

we_have(k, p) ==
  IF p \in k.have THEN k
  ELSE LET got == k.have \cup {p} IN
       [Dropped(order_remove(k, p), p) EXCEPT
          !.have = got,
          !.left = IF k.prio[p] # "DontDownload" /\ @ > 0 THEN @ - 1 ELSE @,
          !.cursor = Min({c \in @..NumPieces : c \notin got})]

set_have_bitfield(k, have) ==
  FoldLeft(we_have, k, SetToSortSeq(have, <))

set_piece_priority(k, p, prio) ==
  LET old == k.prio[p]
      off == p \notin k.have /\ old # "DontDownload" /\ prio = "DontDownload"
      on  == p \notin k.have /\ old = "DontDownload" /\ prio # "DontDownload"
  IN  IF old = prio THEN k
      ELSE LET r == order_remove(k, p) IN
           order_insert([IF off THEN Dropped(r, p) ELSE r EXCEPT
             !.left = IF off THEN @ - 1 ELSE IF on THEN @ + 1 ELSE @,
             !.prio[p] = prio], p)

AvailAddAll(k, bits, d) ==
  FoldLeft(LAMBDA a, p : avail_add(a, p, d), k, SetToSortSeq(bits, <))

inc_availability(k, bits)  == AvailAddAll(k, bits, 1)
dec_availability(k, bits)  == AvailAddAll(k, bits, -1)
inc_availability_all(k)    == [k EXCEPT !.seeds = @ + 1]
dec_availability_all(k)    == [k EXCEPT !.seeds = Max({0, @ - 1})]

----------------------------------------------------------------------------
(* The state of a block: None, Requested (of some peers), Writing, Finished *)

mark_requested(k, pb, peer) ==
  [k EXCEPT !.dl = @ \cup {pb[1]},
            !.blk[pb] = [st |-> IF @.st = "None" THEN "Requested" ELSE @.st,
                         by |-> @.by \cup {peer}]]

\* The other peers that were asked for a block that has now arrived.
others_asked(k, pb, peer) ==
  IF k.blk[pb].st = "Requested" THEN k.blk[pb].by \ {peer} ELSE {}

mark_writing(k, pb) ==
  IF k.blk[pb].st = "Requested"
  THEN [k EXCEPT !.blk[pb] = [st |-> "Writing", by |-> {}]] ELSE k

\* Starts the piece over if it was not in progress.
mark_finished(k, pb) ==
  [k EXCEPT !.dl = @ \cup {pb[1]}, !.blk[pb] = [st |-> "Finished", by |-> {}]]

AllFinished(k, p) == \A pb \in BlocksOf(p) : k.blk[pb].st = "Finished"

Unasked(blk, peer) ==
  [st |-> IF blk.st = "Requested" /\ blk.by \subseteq {peer} THEN "None" ELSE blk.st,
   by |-> blk.by \ {peer}]

abort_block(k, pb, peer) == [k EXCEPT !.blk[pb] = Unasked(@, peer)]

cancel_peer(k, peer) == [k EXCEPT !.blk = [pb \in Blocks |-> Unasked(@[pb], peer)]]

restore_piece(k, p) == Dropped(k, p)

is_interesting(k, bits) == \E p \in bits : wanted(k, p)

----------------------------------------------------------------------------
(* Picking *)

append_free_blocks(k, p) ==
  SelectSeq([i \in 1..blocks_in_piece(p) |-> <<p, i - 1>>],
            LAMBDA pb : k.blk[pb].st = "None")

Rotations(s) ==
  IF s = <<>> THEN {s}
  ELSE {[i \in 1..Len(s) |-> s[1 + ((i + r) % Len(s))]] : r \in 0..(Len(s) - 1)}

\* Every way to enter each bucket of a list of buckets.
Walks(buckets) ==
  FoldLeft(LAMBDA acc, b : {a \o r : a \in acc, r \in Rotations(b)}, {<<>>}, buckets)

PartialOrders(k, mode) ==
  IF mode = "Sequential" THEN {SetToSortSeq(k.dl, <)}
  ELSE SetToSeqs(k.dl)

BestFirst(k) ==
  [i \in 1..(2 * (MaxAvail + 1)) |->
     k.bucket[<<IF i <= MaxAvail + 1 THEN "High" ELSE "Normal", (i - 1) % (MaxAvail + 1)>>]]

NewOrders(k, mode) ==
  CASE mode = "Sequential"  -> {[i \in 1..(NumPieces - k.cursor) |-> k.cursor + i - 1]}
    [] mode = "RarestFirst" -> Walks(BestFirst(k))
    [] mode = "Random"      ->
         UNION {Walks(o) : o \in SetToSeqs({k.bucket[key] : key \in DOMAIN k.bucket} \ {<<>>})}

\* The free blocks met when the pieces are visited in this order.
Visit(k, order, has, InProgress) ==
  FoldLeft(LAMBDA acc, p :
             IF wanted(k, p) /\ p \in has /\ (p \in k.dl <=> InProgress)
             THEN acc \o append_free_blocks(k, p) ELSE acc, <<>>, order)

\* One block somebody else was asked for, the first of its piece, and only
\* when as many pieces are in progress as are left to get.
Endgame(k, has, peer) ==
  LET Busy(p) == {pb[2] : pb \in {x \in BlocksOf(p) :
                    k.blk[x].st = "Requested" /\ peer \notin k.blk[x].by}}
      pieces  == {p \in k.dl : wanted(k, p) /\ p \in has /\ Busy(p) # {}}
  IN  IF Cardinality(k.dl) < k.left THEN {} ELSE {<<p, Min(Busy(p))>> : p \in pieces}

\* Every answer the call may give; count is at least 1.
pick_blocks(k, mode, has, count, peer) ==
  LET free == {Visit(k, o, has, TRUE) : o \in PartialOrders(k, mode)}
      new  == {Visit(k, o, has, FALSE) : o \in NewOrders(k, mode)}
      busy == Endgame(k, has, peer)
      Full(r) == IF Len(r) >= count \/ busy = {} THEN {SubSeq(r, 1, Min({count, Len(r)}))}
                 ELSE {Append(r, pb) : pb \in busy}
  IN  UNION {Full(f \o n) : f \in free, n \in new}
====
