------------------------------ MODULE Buffers ------------------------------
(***************************************************************************)
(* The byte stream between two ends: ChainedSendBuffer, which packs small  *)
(* writes and keeps large ones as they are, the socket, which takes as     *)
(* much as it likes, and ReceiveBuffer, which moves, grows and shrinks     *)
(* under the parser.  The bytes of a stream are numbered from 1.           *)
(***************************************************************************)
EXTENDS Naturals, Sequences, SequencesExt

CONSTANTS
    kScratchCapacity, kMaxRecycledCapacity,             \* ChainedSendBuffer
    kMinCapacity, kAllocGranularity, kUsageAverage,     \* ReceiveBuffer; the average is over 2^kUsageAverageShift
    OwnedSizes, CopiedSizes, Reads,                     \* sizes of appends, chunk sizes of a read
    MaxSlices, MaxGather,
    MaxBytes,           \* bound: bytes of a stream
    MaxStreams,         \* bound: streams over the same buffers
    IdleTicks           \* silent ticks after which memory is back

VARIABLES tx, rx, stream

MaxOf(a, b) == IF a > b THEN a ELSE b
MinOf(a, b) == IF a < b THEN a ELSE b
Bytes(from, to) == [i \in 1 .. to - from |-> from + i]

-----------------------------------------------------------------------------
(* ChainedSendBuffer.                                                      *)

NoChunks == [chunks |-> <<>>, head |-> 0, pending |-> 0, allocated |-> 0, recycled |-> 0]
remaining(c) == Len(c.data) - c.sent
LiveChunks(t) == SubSeq(t.chunks, t.head + 1, Len(t.chunks))

append_owned(t, data, cap) ==
    [t EXCEPT !.pending = @ + Len(data), !.allocated = @ + cap, !.chunks = Append(@, [data |-> data, cap |-> cap, sent |-> 0])]

coalescable_tail(t, n) == t.head # Len(t.chunks) /\ LET c == Last(t.chunks) IN c.cap - Len(c.data) >= n
(* take_chunk: the recycled chunk if it is large enough.                   *)
append_copy(t, data) ==
    IF coalescable_tail(t, Len(data)) THEN [t EXCEPT !.chunks[Len(t.chunks)].data = @ \o data, !.pending = @ + Len(data)]
    ELSE IF t.recycled >= Len(data) THEN append_owned([t EXCEPT !.recycled = 0], data, t.recycled)
    ELSE append_owned(t, data, MaxOf(Len(data), kScratchCapacity))

recycle(t, cap) == IF cap <= kMaxRecycledCapacity /\ cap > t.recycled THEN [t EXCEPT !.recycled = cap] ELSE t

reclaim_drained_slots(t) ==
    IF t.head * 2 >= Len(t.chunks) THEN [t EXCEPT !.chunks = LiveChunks(t), !.head = 0] ELSE t

(* The bytes sent are taken from chunk after chunk; one that is used up is *)
(* freed, or kept for later.                                               *)
PopChunks(t, n) ==
    FoldLeft(LAMBDA acc, c :
               LET k == acc.t.head + 1 IN
               IF acc.n = 0 THEN acc
               ELSE IF acc.n < remaining(c)
               THEN [t |-> [acc.t EXCEPT !.chunks[k].sent = @ + acc.n, !.pending = @ - acc.n], n |-> 0]
               ELSE [t |-> recycle([acc.t EXCEPT !.head = k, !.pending = @ - remaining(c), !.allocated = @ - c.cap,
                                                 !.chunks[k].data = <<>>, !.chunks[k].sent = 0], c.cap),
                     n |-> acc.n - remaining(c)],
             [t |-> t, n |-> n], LiveChunks(t)).t
pop_front(t, n) == reclaim_drained_slots(PopChunks(t, n))

Unsent(c) == SubSeq(c.data, c.sent + 1, Len(c.data))
(* At most so many slices, and none once there are bytes enough.           *)
gather(t) ==
    FoldLeft(LAMBDA acc, c :
               IF acc.room = 0 THEN acc
               ELSE [bytes |-> acc.bytes \o Unsent(c), room |-> IF remaining(c) >= acc.room THEN 0 ELSE acc.room - remaining(c)],
             [bytes |-> <<>>, room |-> MaxGather],
             SubSeq(LiveChunks(t), 1, MinOf(MaxSlices, Len(LiveChunks(t))))).bytes

-----------------------------------------------------------------------------
(* ReceiveBuffer.  mem is what is written; what lies behind is garbage.    *)

NoBuffer == [mem |-> <<>>, cap |-> 0, start |-> 0, end |-> 0, peak |-> 0, watermark |-> 0, received |-> FALSE]
size(r) == r.end - r.start
live(r) == SubSeq(r.mem, r.start + 1, r.end)
round_up(n) == ((n + kAllocGranularity - 1) \div kAllocGranularity) * kAllocGranularity

reallocate(r, cap) == [r EXCEPT !.mem = live(r), !.cap = cap, !.start = 0, !.end = size(r)]
sample_usage(r) == [r EXCEPT !.watermark = (@ * (kUsageAverage - 1) + r.peak + kUsageAverage - 1) \div kUsageAverage, !.peak = size(r)]
(* Mutant: the cursors move and the bytes do not.                          *)
compact_cursors(r) == IF r.start = 0 THEN r ELSE sample_usage([r EXCEPT !.start = 0, !.end = size(r)])
compact(r) == IF r.start = 0 THEN r ELSE sample_usage(reallocate(r, r.cap))
grown_capacity(r, needed) == round_up(MaxOf(MaxOf(r.cap + r.cap \div 2, kMinCapacity), needed))
grow_to(r, cap) == [reallocate(r, cap) EXCEPT !.watermark = cap, !.peak = size(r)]
make_room(r, n) == IF r.cap - size(r) >= n THEN compact(r) ELSE grow_to(r, grown_capacity(r, size(r) + n))
prepare(r, n) ==
    LET s == IF r.cap - r.end < n THEN make_room(r, n) ELSE r IN [s EXCEPT !.peak = MaxOf(@, size(s) + n)]
commit(r, data) ==
    LET s == [r EXCEPT !.mem = SubSeq(@, 1, r.end) \o data, !.end = @ + Len(data), !.received = TRUE]
    IN [s EXCEPT !.peak = MaxOf(@, size(s))]

maybe_shrink(r) ==
    LET target == round_up(MaxOf(MaxOf(kMinCapacity, size(r)), r.watermark))
    IN IF r.cap <= kMinCapacity \/ r.cap \div 2 <= r.watermark \/ target >= r.cap THEN r ELSE reallocate(r, target)
consume(r, n) ==
    LET s == [r EXCEPT !.start = @ + n]
    IN IF s.start # s.end THEN s ELSE maybe_shrink(sample_usage([s EXCEPT !.start = 0, !.end = 0]))
(* Mutant: a partial message keeps the buffer as it is.                    *)
decay_drained(r) ==
    IF r.cap <= kMinCapacity \/ size(r) > 0 THEN r
    ELSE IF r.received THEN [r EXCEPT !.received = FALSE]
    ELSE maybe_shrink([r EXCEPT !.watermark = @ \div 2])
decay(r) ==
    IF r.cap <= kMinCapacity THEN r
    ELSE IF r.received THEN [r EXCEPT !.received = FALSE]
    ELSE IF size(r) * 2 > r.cap THEN r
    ELSE maybe_shrink([r EXCEPT !.watermark = @ \div 2])

-----------------------------------------------------------------------------
(* stream: bytes queued, handed to the socket, received, parsed so far;    *)
(* streams so far; ticks since the last read or message.                   *)

BuffersInit == tx = NoChunks /\ rx = NoBuffer /\ stream = [queued |-> 0, sent |-> 0, got |-> 0, parsed |-> 0, number |-> 1, idle |-> 0]

Queue(n, owned) ==
    /\ stream.queued + n <= MaxBytes
    /\ LET data == Bytes(stream.queued, stream.queued + n)
       IN tx' = IF owned THEN append_owned(tx, data, n) ELSE append_copy(tx, data)
    /\ stream' = [stream EXCEPT !.queued = @ + n] /\ UNCHANGED rx

(* flush: the socket takes some of what is gathered.                       *)
Flush ==
    \E k \in 1 .. Len(gather(tx)) :
        /\ tx' = pop_front(tx, k) /\ stream' = [stream EXCEPT !.sent = @ + k] /\ UNCHANGED rx

(* A read of at least n bytes; the socket may have nothing after all.      *)
Read(n) ==
    LET r == prepare(rx, n)
    IN \E k \in 0 .. MinOf(stream.sent - stream.got, r.cap - r.end) :
        /\ rx' = IF k = 0 THEN r ELSE commit(r, Bytes(stream.got, stream.got + k))
        /\ stream' = [stream EXCEPT !.got = @ + k, !.idle = 0] /\ UNCHANGED tx

(* The parser takes a message; messages are consumed before the next read. *)
Parse(n) == n \in 1 .. size(rx) /\ rx' = consume(rx, n) /\ stream' = [stream EXCEPT !.parsed = @ + n, !.idle = 0] /\ UNCHANGED tx

Decay == stream.idle < IdleTicks /\ rx' = decay(rx) /\ stream' = [stream EXCEPT !.idle = @ + 1] /\ UNCHANGED tx

(* clear() of both, for a new stream.                                      *)
Clear ==
    /\ stream.number < MaxStreams
    /\ tx' = NoChunks /\ rx' = [rx EXCEPT !.start = 0, !.end = 0, !.peak = 0, !.mem = <<>>]
    /\ stream' = [queued |-> 0, sent |-> 0, got |-> 0, parsed |-> 0, number |-> stream.number + 1, idle |-> 0]

BuffersNext ==
    \/ \E n \in OwnedSizes : Queue(n, TRUE)
    \/ \E n \in CopiedSizes : Queue(n, FALSE)
    \/ \E n \in Reads : Read(n)
    \/ \E n \in 1 .. MaxBytes : Parse(n)
    \/ Flush \/ Decay \/ Clear

BuffersSpec == BuffersInit /\ [][BuffersNext]_<<tx, rx, stream>>

-----------------------------------------------------------------------------
(* Whatever is packed, popped and recycled: the chunks hold the bytes that *)
(* were queued and not sent, in order, with counters that say so; what     *)
(* gather() offers are the next of these, and something if there is        *)
(* anything.                                                               *)
SentInOrder ==
    /\ FlattenSeq([i \in 1 .. Len(LiveChunks(tx)) |-> Unsent(LiveChunks(tx)[i])]) = Bytes(stream.sent, stream.queued)
    /\ tx.pending = stream.queued - stream.sent
    /\ tx.allocated = FoldLeft(LAMBDA acc, c : acc + c.cap, 0, LiveChunks(tx))
    /\ tx.pending > 0 => Len(gather(tx)) > 0
    /\ IsPrefix(gather(tx), Bytes(stream.sent, stream.queued))

(* Whatever is moved, grown, shrunk and used again: the receive buffer     *)
(* holds the bytes that arrived and were not parsed, in order and within   *)
(* its allocation.                                                         *)
ReceivedInOrder == live(rx) = Bytes(stream.parsed, stream.got) /\ rx.end <= rx.cap

StreamIntact == SentInOrder /\ ReceivedInOrder

(* A silent connection gives its memory back: after some ticks without a   *)
(* read the allocation is at its floor, or at most twice what is live.     *)
SilenceGivesBack ==
    stream.idle = IdleTicks => rx.cap <= MaxOf(kMinCapacity, round_up(2 * size(rx)))

=============================================================================
