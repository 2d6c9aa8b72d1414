----------------------------- MODULE Connection -----------------------------
(***************************************************************************)
(* Two Connections at the ends of one TCP connection: connect, handshake,  *)
(* blocks, send backlog, write interest, backpressure and teardown.        *)
(*                                                                         *)
(* A block is two units, its length prefix and its body, so that the       *)
(* kernel can cut it on either side.  Blocks below zero are handshake      *)
(* messages (-1, -2, -3 of Noise XX), blocks above zero are frames.        *)
(* Everything at one end runs on its reactor thread; a handler is one step *)
(* per recv() and per block, because the other end runs meanwhile.         *)
(***************************************************************************)
EXTENDS Integers, Sequences

CONSTANTS
    Backends,       \* pollers in use: "epoll" (level-triggered), "kqueue" (edge-triggered)
    PipeCapacity,   \* units the kernel holds in each direction
    HighWater,      \* send_high_water_, in units
    MayClose,       \* ends whose application may close the connection
    MaxFrames       \* MaxFrames[e]: frames e sends

Ends == {"out", "in"}
Peer(e) == IF e = "out" THEN "in" ELSE "out"

ASSUME ConnectionAssumption ==
    /\ Backends \subseteq {"epoll", "kqueue"}
    /\ PipeCapacity \in Nat \ {0} /\ HighWater \in Nat
    /\ MayClose \subseteq Ends
    /\ MaxFrames \in [Ends -> Nat]

VARIABLES
    backend,      \* the poller each end was built with
    state,        \* state_
    at,           \* where the reactor thread of each end is
    short,        \* did the last recv() return less than it was offered
    tx, rx,       \* tx_ and rx_
    pipe,         \* pipe[e]: units the kernel has taken from e and not given to its peer
    want_write,   \* want_write_
    edge_in, edge_out,   \* readiness not yet reported (edge-triggered)
    pending,       \* is the connection in pending_close_
    fin, rst,     \* has e closed its socket; was that a reset
    sent, got     \* frames accepted by send() and delivered by on_frame()

ends == <<state, at, short, tx, rx, want_write, pending, sent, got>>
kernel == <<pipe, edge_in, edge_out, fin, rst>>
endVars == <<backend, ends, kernel>>

Block(b) == <<<<b, 1>>, <<b, 2>>>>
LiveEnd(e) == state[e] \in {"Handshaking", "Established"}
Room(e) == PipeCapacity - Len(pipe[e])

(* A partly sent chunk keeps its whole allocation.                         *)
Allocated(t) == Len(t) + (Len(t) % 2)

ConnTypeOK ==
    /\ backend \in [Ends -> Backends]
    /\ state \in [Ends -> {"Connecting", "Handshaking", "Established", "Closing", "Closed"}]
    /\ at \in [Ends -> {"idle", "recv", "parse", "call"}]
    /\ {short[e] : e \in Ends} \cup {want_write[e] : e \in Ends} \subseteq BOOLEAN
    /\ \A e \in Ends : Len(pipe[e]) <= PipeCapacity
    /\ \A e \in Ends : LiveEnd(e) => Allocated(tx[e]) <= HighWater
    /\ \A e \in Ends : Len(rx[e]) >= 2 => at[e] \in {"parse", "call"} \/ ~LiveEnd(e)
    /\ \A e \in Ends : got[e] <= sent[Peer(e)] /\ sent[e] <= MaxFrames[e]

ConnInit ==
    /\ backend \in [Ends -> Backends]
    /\ state = [e \in Ends |-> "Connecting"]
    /\ at = [e \in Ends |-> "idle"]
    /\ short = [e \in Ends |-> FALSE]
    /\ tx = [e \in Ends |-> <<>>]
    /\ rx = [e \in Ends |-> <<>>]
    /\ pipe = [e \in Ends |-> <<>>]
    /\ want_write = [e \in Ends |-> FALSE]
    /\ edge_in = [e \in Ends |-> FALSE]
    /\ edge_out = [e \in Ends |-> FALSE]
    /\ pending = [e \in Ends |-> FALSE]
    /\ fin = [e \in Ends |-> FALSE]
    /\ rst = [e \in Ends |-> FALSE]
    /\ sent = [e \in Ends |-> 0]
    /\ got = [e \in Ends |-> 0]

-----------------------------------------------------------------------------
(* flush.                                                                  *)

(* What the kernel takes of backlog t.                                     *)
Taken(e, t) == IF Len(t) < Room(e) THEN Len(t) ELSE Room(e)

(* The peer still has its socket open.                                     *)
FlushOn(e, t) ==
    LET k == Taken(e, t) IN
    /\ ~fin[Peer(e)]
    /\ pipe' = [pipe EXCEPT ![e] = @ \o SubSeq(t, 1, k)]
    /\ edge_in' = [edge_in EXCEPT ![Peer(e)] = @ \/ k > 0]
    /\ tx' = [tx EXCEPT ![e] = SubSeq(t, k + 1, Len(t))]
    /\ want_write' = [want_write EXCEPT ![e] = k < Len(t)]
    /\ UNCHANGED <<edge_out, fin, rst>>

(* The peer has closed: the kernel takes the bytes and learns by a reset   *)
(* that nobody reads them.                                                 *)
FlushIntoReset(e, t) ==
    /\ fin[Peer(e)] /\ ~rst[Peer(e)]
    /\ tx' = [tx EXCEPT ![e] = <<>>]
    /\ want_write' = [want_write EXCEPT ![e] = FALSE]
    /\ rst' = [rst EXCEPT ![Peer(e)] = @ \/ t # <<>>]
    /\ edge_in' = [edge_in EXCEPT ![e] = @ \/ t # <<>>]
    /\ UNCHANGED <<pipe, edge_out, fin>>

(* send_vectored fails: fail(PeerReset).                                   *)
FlushFails(e, t) ==
    /\ rst[Peer(e)] /\ t # <<>>
    /\ tx' = [tx EXCEPT ![e] = t]
    /\ UNCHANGED <<want_write, kernel>>

(* Every caller of flush goes on in state s, or tears down.                *)
Flush(e, t, s) ==
    \/ FlushOn(e, t) /\ state' = s /\ UNCHANGED pending
    \/ FlushIntoReset(e, t) /\ state' = s /\ UNCHANGED pending
    \/ /\ FlushFails(e, t)
       /\ state' = [s EXCEPT ![e] = "Closing"]
       /\ pending' = [pending EXCEPT ![e] = TRUE]

-----------------------------------------------------------------------------
(* Bringing the connection up.                                             *)

(* on_writable of a Connecting socket: begin_handshake, and the            *)
(* initiator's first message.                                              *)
Connect(e) ==
    /\ e = "out" /\ state[e] = "Connecting"
    /\ Flush(e, Block(-1), [state EXCEPT ![e] = "Handshaking"])
    /\ UNCHANGED <<at, short, rx, sent, got>>

ConnectFails(e) ==
    /\ e = "out" /\ state[e] = "Connecting" /\ state[Peer(e)] = "Connecting"
    /\ state' = [state EXCEPT ![e] = "Closing"]
    /\ pending' = [pending EXCEPT ![e] = TRUE]
    /\ UNCHANGED <<at, short, tx, rx, want_write, sent, got, kernel>>

(* start_handshake of an accepted socket; set_interest reports what is     *)
(* already there.                                                          *)
AcceptEnd(e) ==
    /\ e = "in" /\ state[e] = "Connecting"
    /\ state' = [state EXCEPT ![e] = "Handshaking"]
    /\ edge_in' = [edge_in EXCEPT ![e] = pipe[Peer(e)] # <<>> \/ fin[Peer(e)]]
    /\ UNCHANGED <<at, short, tx, rx, want_write, pending, sent, got, pipe, edge_out, fin, rst>>

-----------------------------------------------------------------------------
(* send.                                                                   *)

Send(e) ==
    LET t == tx[e] \o Block(sent[e] + 1) IN
    /\ state[e] = "Established" /\ at[e] \in {"idle", "call"}
    /\ sent[e] < MaxFrames[e]
    /\ sent' = [sent EXCEPT ![e] = @ + 1]
    /\ \/ /\ Allocated(t) > HighWater
          /\ state' = [state EXCEPT ![e] = "Closing"]
          /\ pending' = [pending EXCEPT ![e] = TRUE]
          /\ tx' = [tx EXCEPT ![e] = t]
          /\ UNCHANGED <<want_write, kernel>>
       \/ /\ Allocated(t) <= HighWater
          /\ Flush(e, t, state)
    /\ UNCHANGED <<at, short, rx, got>>

-----------------------------------------------------------------------------
(* on_readable.                                                            *)

Readable(e) ==
    IF backend[e] = "kqueue" THEN edge_in[e]
    ELSE pipe[Peer(e)] # <<>> \/ fin[Peer(e)]

OnReadable(e) ==
    /\ LiveEnd(e) /\ at[e] = "idle" /\ Readable(e)
    /\ at' = [at EXCEPT ![e] = "recv"]
    /\ edge_in' = [edge_in EXCEPT ![e] = FALSE]
    /\ UNCHANGED <<state, short, tx, rx, want_write, pending, sent, got, pipe, edge_out, fin, rst>>

(* recv() gives some of what the kernel has: all of it unless the buffer   *)
(* offered was too small.                                                  *)
Recv(e) ==
    LET p == pipe[Peer(e)] IN
    /\ at[e] = "recv" /\ p # <<>>
    /\ \E k \in 1..Len(p) :
         /\ rx' = [rx EXCEPT ![e] = @ \o SubSeq(p, 1, k)]
         /\ pipe' = [pipe EXCEPT ![Peer(e)] = SubSeq(p, k + 1, Len(p))]
         /\ short' \in {[short EXCEPT ![e] = b] : b \in IF k = Len(p) THEN BOOLEAN ELSE {FALSE}}
    /\ at' = [at EXCEPT ![e] = "parse"]
    /\ edge_out' = [edge_out EXCEPT ![Peer(e)] = @ \/ want_write[Peer(e)]]
    /\ UNCHANGED <<state, tx, want_write, pending, sent, got, edge_in, fin, rst>>

WouldBlock(e) ==
    /\ at[e] = "recv" /\ pipe[Peer(e)] = <<>> /\ ~fin[Peer(e)]
    /\ at' = [at EXCEPT ![e] = "idle"]
    /\ UNCHANGED <<state, short, tx, rx, want_write, pending, sent, got, kernel>>

(* recv() returns 0: the peer closed and everything is read.               *)
PeerClosed(e) ==
    /\ at[e] = "recv" /\ pipe[Peer(e)] = <<>> /\ fin[Peer(e)]
    /\ at' = [at EXCEPT ![e] = "idle"]
    /\ state' = [state EXCEPT ![e] = "Closing"]
    /\ pending' = [pending EXCEPT ![e] = TRUE]
    /\ UNCHANGED <<short, tx, rx, want_write, sent, got, kernel>>

(* Mutant: the loop stops after one recv().                                *)
BlocksDoneOneRead(e) ==
    /\ at[e] = "parse" /\ Len(rx[e]) < 2
    /\ at' = [at EXCEPT ![e] = "idle"]
    /\ UNCHANGED <<state, short, tx, rx, want_write, pending, sent, got, kernel>>

(* process_blocks finds no complete block: read on, or stop after a short  *)
(* read.                                                                   *)
BlocksDone(e) ==
    /\ at[e] = "parse" /\ Len(rx[e]) < 2
    /\ at' = [at EXCEPT ![e] = IF short[e] THEN "idle" ELSE "recv"]
    /\ UNCHANGED <<state, short, tx, rx, want_write, pending, sent, got, kernel>>

Body(e) == rx[e][1][1]

(* Mutant: bytes behind the last handshake message are dropped.            *)
DriveHandshakeAlone(e) ==
    LET m == Body(e) IN
    /\ at[e] = "parse" /\ Len(rx[e]) >= 2 /\ state[e] = "Handshaking"
    /\ rx' = [rx EXCEPT ![e] = <<>>]
    /\ \/ m = -1 /\ Flush(e, tx[e] \o Block(-2), state)
       \/ m = -2 /\ Flush(e, tx[e] \o Block(-3), [state EXCEPT ![e] = "Established"])
       \/ /\ m = -3
          /\ state' = [state EXCEPT ![e] = "Established"]
          /\ UNCHANGED <<tx, want_write, pending, kernel>>
    /\ at' = [at EXCEPT ![e] = "call"]
    /\ UNCHANGED <<short, sent, got>>

(* drive_handshake.  Noise XX: -1 out to in, -2 in to out, -3 out to in;   *)
(* an end is Established once it has read its last message, which the      *)
(* initiator answers first.                                                *)
DriveHandshake(e) ==
    LET m == Body(e) IN
    /\ at[e] = "parse" /\ Len(rx[e]) >= 2 /\ state[e] = "Handshaking"
    /\ rx' = [rx EXCEPT ![e] = SubSeq(@, 3, Len(@))]
    /\ \/ m = -1 /\ Flush(e, tx[e] \o Block(-2), state)
       \/ m = -2 /\ Flush(e, tx[e] \o Block(-3), [state EXCEPT ![e] = "Established"])
       \/ /\ m = -3
          /\ state' = [state EXCEPT ![e] = "Established"]
          /\ UNCHANGED <<tx, want_write, pending, kernel>>
    /\ at' = [at EXCEPT ![e] = "call"]
    /\ UNCHANGED <<short, sent, got>>

(* deliver_frame: on_frame, then the block is consumed.                    *)
DeliverFrame(e) ==
    /\ at[e] = "parse" /\ Len(rx[e]) >= 2 /\ state[e] = "Established"
    /\ got' = [got EXCEPT ![e] = Body(e)]
    /\ rx' = [rx EXCEPT ![e] = SubSeq(@, 3, Len(@))]
    /\ at' = [at EXCEPT ![e] = "call"]
    /\ UNCHANGED <<state, short, tx, want_write, pending, sent, kernel>>

(* The callback returns; it may have sent, and so put the end in Closing.  *)
CallReturns(e) ==
    /\ at[e] = "call"
    /\ at' = [at EXCEPT ![e] = IF state[e] = "Closing" THEN "idle" ELSE "parse"]
    /\ UNCHANGED <<state, short, tx, rx, want_write, pending, sent, got, kernel>>

-----------------------------------------------------------------------------
(* on_writable, on_error and teardown.                                     *)

Writable(e) == IF backend[e] = "kqueue" THEN edge_out[e] ELSE Room(e) > 0

OnWritable(e) ==
    /\ LiveEnd(e) /\ at[e] = "idle" /\ want_write[e]
    /\ \/ ~fin[Peer(e)] /\ Writable(e)
       \/ fin[Peer(e)]
    /\ Flush(e, tx[e], state)
    /\ UNCHANGED <<at, short, rx, sent, got>>

(* PollErr or PollHup.  kqueue reports the peer's FIN as PollHup together  *)
(* with the readable bytes (EV_EOF).                                       *)
HungUp(e) == rst[Peer(e)] \/ (backend[e] = "kqueue" /\ fin[Peer(e)] /\ edge_in[e])

OnError(e) ==
    /\ LiveEnd(e) /\ at[e] = "idle" /\ HungUp(e)
    /\ state' = [state EXCEPT ![e] = "Closing"]
    /\ pending' = [pending EXCEPT ![e] = TRUE]
    /\ UNCHANGED <<at, short, tx, rx, want_write, sent, got, kernel>>

(* Reactor::close from the application or the establish timer.             *)
Close(e) ==
    /\ e \in MayClose /\ LiveEnd(e) /\ ~pending[e] /\ at[e] \in {"idle", "call"}
    /\ pending' = [pending EXCEPT ![e] = TRUE]
    /\ UNCHANGED <<state, at, short, tx, rx, want_write, sent, got, kernel>>

(* Reactor::remove: the socket is closed.  Unread bytes make it a reset.   *)
TeardownEnd(e) ==
    /\ pending[e] /\ at[e] = "idle" /\ state[e] # "Closed"
    /\ state' = [state EXCEPT ![e] = "Closed"]
    /\ fin' = [fin EXCEPT ![e] = TRUE]
    /\ rst' = [rst EXCEPT ![e] = pipe[Peer(e)] # <<>>]
    /\ edge_in' = [edge_in EXCEPT ![Peer(e)] = TRUE]
    /\ UNCHANGED <<at, short, tx, rx, want_write, pending, sent, got, pipe, edge_out>>

Step(e) ==
    /\ \/ Connect(e) \/ AcceptEnd(e)
       \/ OnReadable(e) \/ Recv(e) \/ WouldBlock(e) \/ PeerClosed(e)
       \/ BlocksDone(e) \/ DriveHandshake(e) \/ DeliverFrame(e) \/ CallReturns(e)
       \/ OnWritable(e) \/ OnError(e) \/ TeardownEnd(e)
    /\ UNCHANGED backend

ConnNext ==
    \E e \in Ends :
        \/ Step(e)
        \/ (ConnectFails(e) \/ Send(e) \/ Close(e)) /\ UNCHANGED backend

(* Each end's reactor keeps polling; nothing obliges the application.      *)
ConnFairness == \A e \in Ends : WF_endVars(Step(e))

ConnSpec == ConnInit /\ [][ConnNext]_endVars /\ ConnFairness

-----------------------------------------------------------------------------
(* Properties.                                                             *)

(* The frames in s, and the end as its user sees it.                       *)
Frames(s) == {s[i][1] : i \in {j \in 1..Len(s) : s[j][1] > 0 /\ s[j][2] = 2}}
Shut(e) == state[e] \in {"Closing", "Closed"}
Mode(e) == IF state[e] = "Established" THEN "open" ELSE IF Shut(e) THEN "shut" ELSE "new"

(* What e has accepted and its peer, while it is open, can still deliver.  *)
Undelivered(e) ==
    IF Shut(Peer(e)) THEN {}
    ELSE Frames(rx[Peer(e)]) \cup Frames(pipe[e]) \cup (IF Shut(e) THEN {} ELSE Frames(tx[e]))

Channel == INSTANCE FrameChannel WITH
    mode <- [e \in Ends |-> Mode(e)],
    wire <- [e \in Ends |-> Undelivered(e)]

(* Whatever the kernel cuts, delays or resets, the two Connections are an  *)
(* ordered channel: frames in order, none twice, none missing before the   *)
(* last delivered, none to an end not established.                         *)
IsChannel == Channel!Spec

(* "We must drain to would-block ... stopping with data still queued would *)
(* leave the connection stalled": an accepted frame arrives, unless an end *)
(* closes.                                                                 *)
FramesArrive ==
    \A e \in Ends : \A n \in 1..MaxFrames[e] :
        (sent[e] >= n) ~> (got[Peer(e)] >= n \/ \E f \in Ends : state[f] = "Closed")

=============================================================================
