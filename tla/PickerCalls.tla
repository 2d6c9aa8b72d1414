---- MODULE PickerCalls ----
(***************************************************************************)
(* A PiecePicker under the calls a torrent makes of it, in any order:      *)
(* peers come with a bitfield and leave, are asked for blocks, choke us;   *)
(* blocks arrive, are stored, complete a piece or spoil it; priorities     *)
(* change.  PicksWell says what a pick must be, whatever came before.      *)
(***************************************************************************)
EXTENDS PiecePicker

CONSTANTS Callers,       \* the connections of a torrent
          MaxCalls,      \* bound on the calls of a behaviour
          Tellable,      \* bound: the bitfields a peer comes with
          Prioritised    \* bound: the pieces whose priority is set

VARIABLES pk,      \* the picker
          mode,    \* mode_
          tells,   \* per connection: the pieces it says it has, or Absent
          calls    \* calls made so far

pickerVars == <<pk, mode, tells, calls>>

Absent == {-1}                       \* not a set of pieces
Here == {c \in Callers : tells[c] # Absent}
IsSeed(c) == tells[c] = Pieces

PickerInit ==
  /\ pk = NewPicker
  /\ mode \in {"RarestFirst", "Sequential", "Random"}
  /\ tells = [c \in Callers |-> Absent]
  /\ calls = 0

Call(k) == calls < MaxCalls /\ calls' = calls + 1 /\ pk' = k /\ UNCHANGED mode

\* A full bitfield is counted once, as a seed.
PeerComes(c, bits) ==
  /\ tells[c] = Absent
  /\ tells' = [tells EXCEPT ![c] = bits]
  /\ Call(IF bits = Pieces THEN inc_availability_all(pk) ELSE inc_availability(pk, bits))

PeerLeaves(c) ==
  /\ c \in Here
  /\ tells' = [tells EXCEPT ![c] = Absent]
  /\ Call(cancel_peer(IF IsSeed(c) THEN dec_availability_all(pk)
                      ELSE dec_availability(pk, tells[c]), c))

PeerChokes(c) == c \in Here /\ Call(cancel_peer(pk, c)) /\ UNCHANGED tells

AskFor(c, count) ==
  /\ c \in Here
  /\ \E r \in pick_blocks(pk, mode, tells[c], count, c) :
       /\ r # <<>>
       /\ Call(FoldLeft(LAMBDA k, pb : mark_requested(k, pb, c), pk, r))
  /\ UNCHANGED tells

BlockComes(c, pb) ==
  /\ c \in pk.blk[pb].by
  /\ \/ Call(mark_writing(pk, pb))
     \/ Call(abort_block(pk, pb, c))
  /\ UNCHANGED tells

\* The last block of a piece completes it if its hash is right.
BlockStored(pb) ==
  /\ pk.blk[pb].st = "Writing"
  /\ LET k == mark_finished(pk, pb) IN
     IF AllFinished(k, pb[1]) THEN Call(we_have(k, pb[1])) \/ Call(restore_piece(k, pb[1]))
     ELSE Call(k)
  /\ UNCHANGED tells

SetPriority(p, prio) ==
  pk.prio[p] # prio /\ Call(set_piece_priority(pk, p, prio)) /\ UNCHANGED tells

PickerNext ==
  \/ \E c \in Callers : \/ \E bits \in Tellable : PeerComes(c, bits)
                       \/ PeerLeaves(c) \/ PeerChokes(c)
                       \/ \E n \in 1..2 : AskFor(c, n)
                       \/ \E pb \in Blocks : BlockComes(c, pb)
  \/ \E pb \in Blocks : BlockStored(pb)
  \/ \E p \in Prioritised, prio \in Wants \cup {"DontDownload"} : SetPriority(p, prio)

----------------------------------------------------------------------------
(* What a pick must be, said without the index *)

Free(c) == {pb \in Blocks : /\ pb[1] \in tells[c] \ pk.have
                           /\ pk.prio[pb[1]] # "DontDownload" /\ pk.blk[pb].st = "None"}
Rarity(p) == Cardinality({c \in Here : p \in tells[c]})

\* p must be started before q.
Before(p, q) ==
  CASE mode = "Sequential" -> p < q
    [] mode = "Random" -> FALSE
    [] OTHER -> \/ pk.prio[p] = "High" /\ pk.prio[q] = "Normal"
                \/ pk.prio[p] = pk.prio[q] /\ Rarity(p) < Rarity(q)

\* PicksWell: whatever calls came before, a pick for a peer has no block twice
\* and no more than asked for; it takes only blocks the peer has, that are
\* wanted and that nobody is fetching, as long as there are enough of them
\* (and all there are when there are not); pieces in progress come first; a
\* new piece is never taken while one of higher priority, or as wanted and
\* held by fewer peers (or earlier, in sequential mode), is passed over; and
\* a block that is being fetched from another peer is asked for again only
\* when every piece still wanted is in progress.  (pick_blocks and the bucket
\* index behind it: piece_picker.cpp 205-350.)
PicksWell ==
  \A c \in Here, n \in 1..2 :
    LET free == Free(c) IN
    \A r \in pick_blocks(pk, mode, tells[c], n, c) :
      LET got  == ToSet(r)
          more == got \ free
          left == free \ got
      IN /\ IsInjective(r) /\ Len(r) <= n
         /\ left # {} => more = {} /\ Len(r) = n
         /\ \A pb \in more :
              /\ Cardinality(more) = 1
              /\ pk.blk[pb].st = "Requested" /\ c \notin pk.blk[pb].by
              /\ \A p \in Pieces : wanted(pk, p) => p \in pk.dl
         /\ \A x \in got \cap free, y \in left :
              /\ y[1] \in pk.dl => x[1] \in pk.dl
              /\ {x[1], y[1]} \cap pk.dl = {} => ~Before(y[1], x[1])
====
