---------------------------- MODULE FileTransfer ----------------------------
(***************************************************************************)
(* The FileTransfer subsystem of connected nodes: the offer     / accept / *)
(* stream / verify / complete protocol with its send workers, its disk     *)
(* writers and its control operations.                                     *)
(*                                                                         *)
(* A transfer has an Outgoing at From[x] and an Incoming at To[x].  Wire   *)
(* messages carry only the id, which is unique per SENDER; handlers find   *)
(* their transfer with find_outgoing(id) and find_incoming(peer, id).      *)
(* File contents are positions: a chunk is (file, offset, length), and a   *)
(* SHA-256 is the sequence of chunks hashed since the last reset.  A step  *)
(* is one critical section of t->mtx with what its thread does up to the   *)
(* next one.  Messages between two nodes arrive in order (one link).       *)
(***************************************************************************)
EXTENDS Naturals, Sequences, FiniteSets

CONSTANTS
    Nodes,       \* the nodes
    Xfers,       \* transfers
    From, To,    \* Xfers -> Nodes
    Id,          \* Xfers -> ids (next_id_ of each sender starts at 1)
    Sizes,       \* Xfers -> sizes of the files, in order
    Workers,     \* send workers of a node
    Disks,       \* disk writers of a node
    Chunk,       \* Config::chunk_size
    Window,      \* Config::window_bytes
    Interval,    \* Config::progress_interval
    Ops,         \* which of the operations below the environment performs
    MaxOps       \* bound on how many of them

(* A node numbers its transfers.                                           *)
ASSUME TransferAssumption ==
    /\ From \in [Xfers -> Nodes] /\ To \in [Xfers -> Nodes] /\ Id \in [Xfers -> Nat]
    /\ \A x, y \in Xfers : From[x] = From[y] /\ Id[x] = Id[y] => x = y
    /\ Sizes \in [Xfers -> Seq(Nat)]
    /\ Chunk \in Nat \ {0} /\ Window \in Nat /\ Interval \in Nat /\ MaxOps \in Nat

AllOps == {"reject", "cancel", "pause", "resume", "readfail", "diskfail",
           "timeout", "disconnect"}

VARIABLES
    out,     \* the Outgoing of each transfer
    inc,     \* the Incoming of each transfer
    queue,   \* send_queue_ of each node
    wk,      \* the send workers
    ready,   \* disk_ready_ of each node
    dk,      \* the disk writers
    chan,    \* chan[<<n, m>>]: messages from n on their way to m
    placed,  \* placed[x]: the files moved to their final path, with their chunks
    ops,     \* how many environment operations have happened
    ended    \* history: transfers somebody ended, rejected or broke

vars == <<out, inc, queue, wk, ready, dk, chan, placed, ops, ended>>

Files(x) == DOMAIN Sizes[x]

(* Mutant: the acknowledgement interval ignores the window.                *)
AckEveryInterval == Interval

(* ack_interval of process_data *)
AckEvery == LET half == Window \div 2
                h == IF half = 0 THEN 1 ELSE half
            IN IF Interval < h THEN Interval ELSE h

NoOutgoing == [st |-> "None", fin |-> FALSE, file |-> 1, off |-> 0, sent |-> 0,
               acked |-> 0, active |-> FALSE, hash |-> <<>>]
NoIncoming == [st |-> "None", fin |-> FALSE, erased |-> FALSE, file |-> 1, enq |-> 0, wq |-> <<>>,
               scheduled |-> FALSE, done |-> 0, lastAck |-> 0, got |-> 0,
               hash |-> <<>>, hashing |-> 0, final |-> {}]
Statuses == {"None", "Pending", "Active", "Paused", "Completed", "Failed", "Cancelled"}
IdleWorker == [at |-> "idle", x |-> 0, file |-> 0, off |-> 0]
NoJob == [op |-> "none"]
IdleDisk == [at |-> "idle", x |-> 0, job |-> NoJob]

(* Map lookups: a finished or rejected transfer has been erased.           *)
FindOutgoing(n, i) ==
    {x \in Xfers : From[x] = n /\ Id[x] = i /\ out[x].st # "None" /\ ~out[x].fin}
FindIncoming(n, peer, i) ==
    {x \in Xfers : /\ To[x] = n /\ From[x] = peer /\ Id[x] = i
                   /\ inc[x].st # "None" /\ ~inc[x].fin /\ ~inc[x].erased}
Known(x) == x \in FindIncoming(To[x], From[x], Id[x])

(* Messages of x from its sender and from its receiver.                    *)
Down(x) == <<From[x], To[x]>>
Up(x) == <<To[x], From[x]>>
Ok(b) == [ok |-> b]
Msg(op, x, a) == [op |-> op, id |-> Id[x], a |-> a]
Send(way, m) == chan' = [chan EXCEPT ![way] = Append(@, m)]

TypeOK ==
    \A x \in Xfers :
        /\ out[x].st \in Statuses
        /\ out[x].file \in 1..(Len(Sizes[x]) + 1)
        /\ out[x].off = 0 \/ out[x].off < Sizes[x][out[x].file]
        /\ out[x].sent \in Nat /\ out[x].acked \in Nat
        /\ inc[x].st \in Statuses
        /\ inc[x].file \in 1..(Len(Sizes[x]) + 1)
        /\ inc[x].done \in Nat
        /\ inc[x].final \subseteq Files(x)

Init ==
    /\ out = [x \in Xfers |-> NoOutgoing]
    /\ inc = [x \in Xfers |-> NoIncoming]
    /\ queue = [n \in Nodes |-> <<>>]
    /\ wk = [n \in Nodes |-> [w \in Workers |-> IdleWorker]]
    /\ ready = [n \in Nodes |-> <<>>]
    /\ dk = [n \in Nodes |-> [d \in Disks |-> IdleDisk]]
    /\ chan = [way \in Nodes \X Nodes |-> <<>>]
    /\ placed = [x \in Xfers |-> {}]
    /\ ops = 0
    /\ ended = {}

(* finish_outgoing and finish_incoming: the first call wins, a Cancelled   *)
(* status stays.                                                           *)
Finished(t, ok) ==
    IF t.fin THEN t
    ELSE [t EXCEPT !.fin = TRUE,
                   !.st = IF @ = "Cancelled" THEN @ ELSE IF ok THEN "Completed" ELSE "Failed"]
Cancelled(t) == Finished([t EXCEPT !.st = "Cancelled"], FALSE)

-----------------------------------------------------------------------------
(* The application.                                                        *)

(* The environment may perform operation o once more.                      *)
Allowed(o) == o \in Ops /\ ops < MaxOps /\ ops' = ops + 1

(* send_file / send_directory -> start_send                                *)
StartSend(x) ==
    /\ out[x].st = "None"
    /\ out' = [out EXCEPT ![x].st = "Pending"]
    /\ Send(Down(x), Msg("OFFER", x, [xfer |-> x]))
    /\ UNCHANGED <<inc, queue, wk, ready, dk, placed, ops, ended>>

(* accept(); an offer without files completes at once.                     *)
Accept(x) ==
    /\ Known(x)
    /\ inc[x].st = "Pending"
    /\ IF Files(x) = {}
         THEN /\ inc' = [inc EXCEPT ![x] = Finished([@ EXCEPT !.st = "Active"], TRUE)]
              /\ chan' = [chan EXCEPT ![Up(x)] =
                            @ \o <<Msg("RESPONSE", x, Ok(TRUE)), Msg("COMPLETE", x, Ok(TRUE))>>]
         ELSE /\ inc' = [inc EXCEPT ![x].st = "Active"]
              /\ Send(Up(x), Msg("RESPONSE", x, Ok(TRUE)))
    /\ UNCHANGED <<out, queue, wk, ready, dk, placed, ops, ended>>

(* reject() only erases the Incoming, whatever its status: a writer that   *)
(* holds it carries on.                                                    *)
Reject(x) ==
    /\ Allowed("reject")
    /\ Known(x)
    /\ inc' = [inc EXCEPT ![x].erased = TRUE]
    /\ Send(Up(x), Msg("RESPONSE", x, Ok(FALSE)))
    /\ ended' = ended \cup {x}
    /\ UNCHANGED <<out, queue, wk, ready, dk, placed>>

(* cancel(peer, id) on node n: the outgoing transfer with that id and the  *)
(* incoming one from that peer are both cancelled, and their peers told.   *)
(* The call names the transfers between n and peer with that id.           *)
Cancel(n, peer, i) ==
    LET os == FindOutgoing(n, i)
        is == FindIncoming(n, peer, i)
        note == [op |-> "CANCEL", id |-> i, a |-> Ok(TRUE)]
    IN /\ os \cup is # {}
       /\ Allowed("cancel")
       /\ out' = [x \in Xfers |-> IF x \in os THEN Cancelled(out[x]) ELSE out[x]]
       /\ inc' = [x \in Xfers |-> IF x \in is THEN Cancelled(inc[x]) ELSE inc[x]]
       /\ chan' = [way \in Nodes \X Nodes |->
                     chan[way]
                       \o (IF \E x \in os : Down(x) = way THEN <<note>> ELSE <<>>)
                       \o (IF \E x \in is : Up(x) = way THEN <<note>> ELSE <<>>)]
       /\ ended' = ended \cup {x \in Xfers : Id[x] = i /\ {From[x], To[x]} = {n, peer}}
       /\ UNCHANGED <<queue, wk, ready, dk, placed>>

(* pause(peer, id) on node n: the outgoing transfer if that is Active,     *)
(* otherwise the incoming one.                                             *)
Pause(n, peer, i) ==
    LET os == {x \in FindOutgoing(n, i) : out[x].st = "Active"}
        is == {x \in FindIncoming(n, peer, i) : inc[x].st = "Active"}
        way == IF os # {} THEN Down(CHOOSE x \in os : TRUE) ELSE <<n, peer>>
    IN /\ Allowed("pause")
       /\ os \cup is # {}
       /\ out' = [x \in Xfers |-> IF x \in os THEN [out[x] EXCEPT !.st = "Paused"] ELSE out[x]]
       /\ inc' = IF os # {} THEN inc
                 ELSE [x \in Xfers |-> IF x \in is THEN [inc[x] EXCEPT !.st = "Paused"] ELSE inc[x]]
       /\ Send(way, [op |-> "PAUSE", id |-> i, a |-> Ok(TRUE)])
       /\ UNCHANGED <<queue, wk, ready, dk, placed, ended>>

(* resume(peer, id): also queues the outgoing transfer for a worker.       *)
Resume(n, peer, i) ==
    LET os == {x \in FindOutgoing(n, i) : out[x].st = "Paused"}
        is == {x \in FindIncoming(n, peer, i) : inc[x].st = "Paused"}
        way == IF os # {} THEN Down(CHOOSE x \in os : TRUE) ELSE <<n, peer>>
    IN /\ Allowed("resume")
       /\ os \cup is # {}
       /\ out' = [x \in Xfers |-> IF x \in os THEN [out[x] EXCEPT !.st = "Active"] ELSE out[x]]
       /\ queue' = IF os = {} THEN queue ELSE [queue EXCEPT ![n] = Append(@, i)]
       /\ inc' = IF os # {} THEN inc
                 ELSE [x \in Xfers |-> IF x \in is THEN [inc[x] EXCEPT !.st = "Active"] ELSE inc[x]]
       /\ Send(way, [op |-> "RESUME", id |-> i, a |-> Ok(TRUE)])
       /\ UNCHANGED <<wk, ready, dk, placed, ended>>

-----------------------------------------------------------------------------
(* Send workers: worker_loop and run_send.                                 *)
SetWorker(n, w, r) == wk' = [wk EXCEPT ![n][w] = r]

(* Pop an id; drop it if the transfer is gone or another worker owns it.   *)
Claim(n, w) ==
    LET xs == FindOutgoing(n, Head(queue[n]))
        mine == {x \in xs : ~out[x].active}
    IN /\ wk[n][w].at = "idle"
       /\ queue[n] # <<>>
       /\ queue' = [queue EXCEPT ![n] = Tail(@)]
       /\ out' = [x \in Xfers |-> IF x \in mine THEN [out[x] EXCEPT !.active = TRUE] ELSE out[x]]
       /\ IF mine = {} THEN wk' = wk
          ELSE SetWorker(n, w, [IdleWorker EXCEPT !.at = "top", !.x = CHOOSE x \in mine : TRUE])
       /\ UNCHANGED <<inc, ready, dk, chan, placed, ops, ended>>

(* Top of run_send's loop: return unless Active, leave when all is sent,   *)
(* otherwise pick up the cursor and reset the hash at a file's start.      *)
Top(n, w) ==
    LET x == wk[n][w].x
        t == out[x]
    IN /\ wk[n][w].at = "top"
       /\ IF t.st # "Active" \/ t.file \notin Files(x)
            THEN SetWorker(n, w, [wk[n][w] EXCEPT !.at = "exit"]) /\ out' = out
            ELSE /\ SetWorker(n, w, [at |-> "send", x |-> x, file |-> t.file, off |-> t.off])
                 /\ out' = IF t.off = 0 THEN [out EXCEPT ![x].hash = <<>>] ELSE out
       /\ UNCHANGED <<inc, queue, ready, dk, chan, placed, ops, ended>>

(* Length of the chunk at offset o of file f.                              *)
Want(x, f, o) == IF Sizes[x][f] - o < Chunk THEN Sizes[x][f] - o ELSE Chunk

SendChunk(n, w) ==
    LET r == wk[n][w]
        len == Want(r.x, r.file, r.off)
    IN /\ r.at = "send"
       /\ Send(Down(r.x), IF len = 0 THEN Msg("FILE_END", r.x, [file |-> r.file, sha |-> <<>>])
                  ELSE Msg("CHUNK", r.x, [file |-> r.file, off |-> r.off, len |-> len]))
       /\ SetWorker(n, w, [r EXCEPT !.at = "sent"])
       /\ UNCHANGED <<out, inc, queue, ready, dk, placed, ops, ended>>

(* The source cannot be opened or read: tell the peer, fail the transfer.  *)
ReadFails(n, w) ==
    LET r == wk[n][w]
    IN /\ r.at = "send"
       /\ Want(r.x, r.file, r.off) > 0
       /\ Allowed("readfail")
       /\ Send(Down(r.x), Msg("COMPLETE", r.x, Ok(FALSE)))
       /\ out' = [out EXCEPT ![r.x] = Finished(@, FALSE)]
       /\ SetWorker(n, w, [r EXCEPT !.at = "exit"])
       /\ ended' = ended \cup {r.x}
       /\ UNCHANGED <<inc, queue, ready, dk, placed>>

(* After the chunk went out: hash it, advance the cursor, and send the     *)
(* digest when the file is complete.                                       *)
Advance(n, w) ==
    LET r == wk[n][w]
        t == out[r.x]
        len == Want(r.x, r.file, r.off)
        hash == IF len = 0 THEN t.hash ELSE Append(t.hash, r.off)
        done == t.off + len >= Sizes[r.x][r.file]
    IN /\ r.at = "sent"
       /\ out' = [out EXCEPT ![r.x] =
                    [t EXCEPT !.hash = hash,
                              !.sent = @ + len,
                              !.off = IF done THEN 0 ELSE @ + len,
                              !.file = IF done THEN @ + 1 ELSE @]]
       /\ IF done /\ len > 0
            THEN Send(Down(r.x), Msg("FILE_END", r.x, [file |-> r.file, sha |-> hash]))
            ELSE UNCHANGED chan
       /\ SetWorker(n, w, [r EXCEPT !.at = IF len = 0 THEN "top" ELSE "wait"])
       /\ UNCHANGED <<inc, queue, ready, dk, placed, ops, ended>>

(* The backpressure loop's exit condition; the difference is unsigned, so  *)
(* an acknowledgement ahead of bytes_done would look like a full window.   *)
WindowOpen(t) ==
    t.st # "Active" \/ (t.acked <= t.sent /\ t.sent - t.acked < Window)

Wait(n, w) ==
    /\ wk[n][w].at = "wait"
    /\ WindowOpen(out[wk[n][w].x])
    /\ SetWorker(n, w, [wk[n][w] EXCEPT !.at = "top"])
    /\ UNCHANGED <<out, inc, queue, ready, dk, chan, placed, ops, ended>>

(* Back in worker_loop: worker_active = false.                             *)
Exit(n, w) ==
    /\ wk[n][w].at = "exit"
    /\ out' = [out EXCEPT ![wk[n][w].x].active = FALSE]
    /\ SetWorker(n, w, IdleWorker)
    /\ UNCHANGED <<inc, queue, ready, dk, chan, placed, ops, ended>>

-----------------------------------------------------------------------------
(* on_message from peer, on the reactor thread of n.                       *)

(* handle_offer                                                            *)
OnOffer(n, peer, m) ==
    /\ m.op = "OFFER"
    /\ inc' = IF FindIncoming(n, peer, m.id) = {} THEN [inc EXCEPT ![m.a.xfer].st = "Pending"] ELSE inc
    /\ UNCHANGED <<out, queue, ready, placed>>

OnResponse(n, peer, m) ==
    /\ m.op = "RESPONSE"
    /\ LET xs == FindOutgoing(n, m.id)
       IN /\ out' = [x \in Xfers |->
                       IF x \notin xs THEN out[x]
                       ELSE IF ~m.a.ok THEN Finished(out[x], FALSE)
                       ELSE IF out[x].st = "Pending" THEN [out[x] EXCEPT !.st = "Active"]
                       ELSE out[x]]
          /\ queue' = IF m.a.ok /\ xs # {} THEN [queue EXCEPT ![n] = Append(@, m.id)] ELSE queue
    /\ UNCHANGED <<inc, ready, placed>>

(* The ordering checks of handle_chunk and handle_file_end.                *)
InOrder(x, m) ==
    /\ m.a.file \in Files(x)
    /\ m.a.file = inc[x].file
    /\ IF m.op = "CHUNK"
         THEN m.a.off = inc[x].enq /\ m.a.off + m.a.len <= Sizes[x][m.a.file]
         ELSE inc[x].enq = Sizes[x][m.a.file]

(* handle_chunk, handle_file_end: queue the job and schedule the transfer  *)
(* for a writer if it is not; fail the transfer if out of order.           *)
OnData(n, peer, m) ==
    /\ m.op \in {"CHUNK", "FILE_END"}
    /\ LET xs == {x \in FindIncoming(n, peer, m.id) :
                    IF m.op = "CHUNK" THEN inc[x].st \in {"Active", "Paused"}
                                      ELSE m.a.file \in Files(x)}
           good == {x \in xs : InOrder(x, m)}
           new == {x \in good : ~inc[x].scheduled}
       IN /\ inc' = [x \in Xfers |->
                       IF x \in good
                         THEN [inc[x] EXCEPT
                                 !.wq = Append(@, m),
                                 !.enq = IF m.op = "CHUNK" THEN @ + m.a.len ELSE 0,
                                 !.file = IF m.op = "CHUNK" THEN @ ELSE @ + 1,
                                 !.scheduled = TRUE]
                       ELSE IF x \in xs THEN Finished(inc[x], FALSE) ELSE inc[x]]
          /\ ready' = IF new = {} THEN ready ELSE [ready EXCEPT ![n] = Append(@, CHOOSE x \in new : TRUE)]
    /\ UNCHANGED <<out, queue, placed>>

OnProgress(n, peer, m) ==
    /\ m.op = "PROGRESS"
    /\ out' = [x \in Xfers |-> IF x \in FindOutgoing(n, m.id)
                                 THEN [out[x] EXCEPT !.acked = m.a.bytes] ELSE out[x]]
    /\ UNCHANGED <<inc, queue, ready, placed>>

OnComplete(n, peer, m) ==
    /\ m.op = "COMPLETE"
    /\ out' = [x \in Xfers |-> IF x \in FindOutgoing(n, m.id)
                                 THEN Finished(out[x], m.a.ok) ELSE out[x]]
    /\ UNCHANGED <<inc, queue, ready, placed>>

OnCancel(n, peer, m) ==
    /\ m.op = "CANCEL"
    /\ out' = [x \in Xfers |-> IF x \in FindOutgoing(n, m.id) THEN Cancelled(out[x]) ELSE out[x]]
    /\ inc' = [x \in Xfers |-> IF x \in FindIncoming(n, peer, m.id) THEN Cancelled(inc[x]) ELSE inc[x]]
    /\ UNCHANGED <<queue, ready, placed>>

Switch(t, from, to) == IF t.st = from THEN [t EXCEPT !.st = to] ELSE t

OnPause(n, peer, m) ==
    /\ m.op = "PAUSE"
    /\ out' = [x \in Xfers |-> IF x \in FindOutgoing(n, m.id)
                                 THEN Switch(out[x], "Active", "Paused") ELSE out[x]]
    /\ inc' = [x \in Xfers |-> IF x \in FindIncoming(n, peer, m.id)
                                 THEN Switch(inc[x], "Active", "Paused") ELSE inc[x]]
    /\ UNCHANGED <<queue, ready, placed>>

OnResume(n, peer, m) ==
    /\ m.op = "RESUME"
    /\ LET xs == {x \in FindOutgoing(n, m.id) : out[x].st = "Paused"}
       IN /\ out' = [x \in Xfers |-> IF x \in xs THEN [out[x] EXCEPT !.st = "Active"] ELSE out[x]]
          /\ queue' = IF xs = {} THEN queue ELSE [queue EXCEPT ![n] = Append(@, m.id)]
    /\ inc' = [x \in Xfers |-> IF x \in FindIncoming(n, peer, m.id)
                                 THEN Switch(inc[x], "Paused", "Active") ELSE inc[x]]
    /\ UNCHANGED <<ready, placed>>

(* A failed ordering check answers COMPLETE(false).                        *)
Complains(n, peer, m) ==
    /\ m.op \in {"CHUNK", "FILE_END"}
    /\ \E x \in FindIncoming(n, peer, m.id) : inc'[x].fin /\ inc'[x].st = "Failed"

Deliver(peer, n) ==
    LET m == Head(chan[<<peer, n>>])
    IN /\ chan[<<peer, n>>] # <<>>
       /\ \/ OnOffer(n, peer, m) \/ OnResponse(n, peer, m) \/ OnData(n, peer, m)
          \/ OnProgress(n, peer, m) \/ OnComplete(n, peer, m) \/ OnCancel(n, peer, m)
          \/ OnPause(n, peer, m) \/ OnResume(n, peer, m)
       /\ chan' = [way \in Nodes \X Nodes |->
                     IF way = <<peer, n>> THEN Tail(chan[way])
                     ELSE IF way = <<n, peer>> /\ Complains(n, peer, m)
                            THEN Append(chan[way], [op |-> "COMPLETE", id |-> m.id, a |-> Ok(FALSE)])
                            ELSE chan[way]]
       /\ UNCHANGED <<wk, dk, ops, ended>>

-----------------------------------------------------------------------------
(* Disk writers: disk_worker_loop and drain_writes.                        *)
SetDisk(n, d, r) == dk' = [dk EXCEPT ![n][d] = r]

TakeReady(n, d) ==
    /\ dk[n][d].at = "idle"
    /\ ready[n] # <<>>
    /\ SetDisk(n, d, [at |-> "drain", x |-> Head(ready[n]), job |-> NoJob])
    /\ ready' = [ready EXCEPT ![n] = Tail(@)]
    /\ UNCHANGED <<out, inc, queue, wk, chan, placed, ops, ended>>

(* Next job, or release the transfer (dropping the queue of a finished     *)
(* one).                                                                   *)
Drain(n, d) ==
    LET x == dk[n][d].x
        t == inc[x]
    IN /\ dk[n][d].at = "drain"
       /\ IF t.fin \/ t.wq = <<>>
            THEN /\ inc' = [inc EXCEPT ![x] = [t EXCEPT !.wq = <<>>, !.scheduled = FALSE]]
                 /\ SetDisk(n, d, IdleDisk)
            ELSE /\ inc' = [inc EXCEPT ![x] = [t EXCEPT !.wq = Tail(@)]]
                 /\ SetDisk(n, d, [at |-> "job", x |-> x, job |-> Head(t.wq)])
       /\ UNCHANGED <<out, queue, wk, ready, chan, placed, ops, ended>>

(* The hash context of file f, reset when a file starts.                   *)
HashOf(t, f) == IF t.hashing = f THEN t.hash ELSE <<>>

(* Ack on the byte threshold and whenever a file's data is all on disk.    *)
AckDue(x, t, f, got, done) == got >= Sizes[x][f] \/ done - t.lastAck >= AckEvery

(* process_data: write, hash, account, acknowledge.                        *)
WriteData(n, d) ==
    LET x == dk[n][d].x
        t == inc[x]
        c == dk[n][d].job.a
        got == t.got + c.len
        done == t.done + c.len
        ack == AckDue(x, t, c.file, got, done)
    IN /\ dk[n][d].at = "job"
       /\ dk[n][d].job.op = "CHUNK"
       /\ SetDisk(n, d, [dk[n][d] EXCEPT !.at = "drain", !.job = NoJob])
       /\ IF t.fin THEN UNCHANGED <<inc, chan>>
          ELSE /\ inc' = [inc EXCEPT ![x] =
                            [t EXCEPT !.hash = Append(HashOf(t, c.file), c.off),
                                      !.hashing = c.file,
                                      !.got = got,
                                      !.done = done,
                                      !.lastAck = IF ack THEN done ELSE @]]
               /\ IF ack THEN Send(Up(x), Msg("PROGRESS", x, [bytes |-> done])) ELSE UNCHANGED chan
       /\ UNCHANGED <<out, queue, wk, ready, placed, ops, ended>>

(* The temp file cannot be created or written, or the verified file cannot *)
(* be moved into place (tried whether or not the transfer ended meanwhile).*)
WriteFails(n, d) ==
    LET x == dk[n][d].x
    IN /\ \/ dk[n][d].at = "job" /\ dk[n][d].job.op = "CHUNK" /\ ~inc[x].fin
          \/ dk[n][d].at = "place"
       /\ Allowed("diskfail")
       /\ inc' = [inc EXCEPT ![x] = Finished(@, FALSE)]
       /\ Send(Up(x), Msg("COMPLETE", x, Ok(FALSE)))
       /\ SetDisk(n, d, [dk[n][d] EXCEPT !.at = "drain", !.job = NoJob])
       /\ ended' = ended \cup {x}
       /\ UNCHANGED <<out, queue, wk, ready, placed>>

DigestMatches(t, e) == HashOf(t, e.file) = e.sha

(* process_file_end up to the move: verify the digest.                     *)
VerifyFile(n, d) ==
    LET x == dk[n][d].x
        t == inc[x]
        e == dk[n][d].job.a
        skip == t.fin \/ e.file \in t.final
        good == DigestMatches(t, e)
    IN /\ dk[n][d].at = "job"
       /\ dk[n][d].job.op = "FILE_END"
       /\ IF skip THEN UNCHANGED <<inc, chan>>
          ELSE /\ inc' = [inc EXCEPT ![x] =
                            LET u == [t EXCEPT !.hash = HashOf(t, e.file), !.hashing = 0,
                                               !.got = 0]
                            IN IF good THEN u ELSE Finished(u, FALSE)]
               /\ IF good THEN UNCHANGED chan ELSE Send(Up(x), Msg("COMPLETE", x, Ok(FALSE)))
       /\ IF ~skip /\ good
            THEN SetDisk(n, d, [dk[n][d] EXCEPT !.at = "place"])
            ELSE SetDisk(n, d, [dk[n][d] EXCEPT !.at = "drain", !.job = NoJob])
       /\ UNCHANGED <<out, queue, wk, ready, placed, ops, ended>>

(* Mutant: all_done is never reset to false.                               *)
PlaceFileEarly(n, d) ==
    LET x == dk[n][d].x
        e == dk[n][d].job.a
        final == inc[x].final \cup {e.file}
        all == final # {}
    IN /\ dk[n][d].at = "place"
       /\ placed' = [placed EXCEPT ![x] = @ \cup {[file |-> e.file, chunks |-> inc[x].hash]}]
       /\ inc' = [inc EXCEPT ![x] =
                    LET u == [@ EXCEPT !.final = final]
                    IN IF all THEN Finished(u, TRUE) ELSE u]
       /\ IF all THEN Send(Up(x), Msg("COMPLETE", x, Ok(TRUE))) ELSE UNCHANGED chan
       /\ SetDisk(n, d, [dk[n][d] EXCEPT !.at = "drain", !.job = NoJob])
       /\ UNCHANGED <<out, queue, wk, ready, ops, ended>>

(* ... and the move into place, outside the lock; the last file completes  *)
(* the transfer.                                                           *)
PlaceFile(n, d) ==
    LET x == dk[n][d].x
        e == dk[n][d].job.a
        final == inc[x].final \cup {e.file}
        all == final = Files(x)
    IN /\ dk[n][d].at = "place"
       /\ placed' = [placed EXCEPT ![x] = @ \cup {[file |-> e.file, chunks |-> inc[x].hash]}]
       /\ inc' = [inc EXCEPT ![x] =
                    LET u == [@ EXCEPT !.final = final]
                    IN IF all THEN Finished(u, TRUE) ELSE u]
       /\ IF all THEN Send(Up(x), Msg("COMPLETE", x, Ok(TRUE))) ELSE UNCHANGED chan
       /\ SetDisk(n, d, [dk[n][d] EXCEPT !.at = "drain", !.job = NoJob])
       /\ UNCHANGED <<out, queue, wk, ready, ops, ended>>

-----------------------------------------------------------------------------
(* maintenance_loop: a transfer idle for too long is failed; a paused one  *)
(* is not, nor an offer waiting at the receiver.                           *)
TimeoutOutgoing(x) ==
    /\ Allowed("timeout")
    /\ out[x].st \in {"Pending", "Active"}
    /\ ~out[x].fin
    /\ out' = [out EXCEPT ![x] = Finished(@, FALSE)]
    /\ Send(Down(x), Msg("COMPLETE", x, Ok(FALSE)))
    /\ ended' = ended \cup {x}
    /\ UNCHANGED <<inc, queue, wk, ready, dk, placed>>

TimeoutIncoming(x) ==
    /\ Allowed("timeout")
    /\ inc[x].st = "Active"
    /\ Known(x)
    /\ inc' = [inc EXCEPT ![x] = Finished(@, FALSE)]
    /\ Send(Up(x), Msg("COMPLETE", x, Ok(FALSE)))
    /\ ended' = ended \cup {x}
    /\ UNCHANGED <<out, queue, wk, ready, dk, placed>>

(* The link of x breaks: what was under way is lost, and the disconnect    *)
(* handlers of both nodes fail every transfer between them.                *)
Disconnect(x) ==
    LET hit(y) == {From[y], To[y]} = {From[x], To[x]}
    IN
    /\ Allowed("disconnect")
    /\ chan' = [chan EXCEPT ![Down(x)] = <<>>, ![Up(x)] = <<>>]
    /\ out' = [y \in Xfers |-> IF hit(y) /\ y \in FindOutgoing(From[y], Id[y])
                                 THEN Finished(out[y], FALSE) ELSE out[y]]
    /\ inc' = [y \in Xfers |-> IF hit(y) /\ Known(y) THEN Finished(inc[y], FALSE) ELSE inc[y]]
    /\ ended' = ended \cup {y \in Xfers : hit(y)}
    /\ UNCHANGED <<queue, wk, ready, dk, placed>>

WorkerStep(n, w) ==
    Claim(n, w) \/ Top(n, w) \/ SendChunk(n, w) \/ Advance(n, w) \/ Wait(n, w) \/ Exit(n, w)

DiskStep(n, d) ==
    TakeReady(n, d) \/ Drain(n, d) \/ WriteData(n, d) \/ VerifyFile(n, d) \/ PlaceFile(n, d)

Next ==
    \/ \E x \in Xfers :
         \/ StartSend(x) \/ Accept(x) \/ Reject(x)
         \/ TimeoutOutgoing(x) \/ TimeoutIncoming(x)
         \/ Disconnect(x)
         \/ \E n, peer \in Nodes :
              /\ {n, peer} = {From[x], To[x]}
              /\ Cancel(n, peer, Id[x]) \/ Pause(n, peer, Id[x]) \/ Resume(n, peer, Id[x])
    \/ \E n \in Nodes :
         \/ \E peer \in Nodes : Deliver(peer, n)
         \/ \E w \in Workers : WorkerStep(n, w) \/ ReadFails(n, w)
         \/ \E d \in Disks : DiskStep(n, d) \/ WriteFails(n, d)

Spec == Init /\ [][Next]_vars

(* Worker, disk and reactor threads keep running and the link delivers;    *)
(* the receiving application answers offers.                               *)
FairSpec ==
    /\ Spec
    /\ \A n \in Nodes :
         /\ \A peer \in Nodes : WF_vars(Deliver(peer, n))
         /\ \A w \in Workers : WF_vars(WorkerStep(n, w))
         /\ \A d \in Disks : WF_vars(DiskStep(n, d))
    /\ \A x \in Xfers : WF_vars(Accept(x))

-----------------------------------------------------------------------------
(* Properties.                                                             *)

(* The chunks of file f of x, in order.                                    *)
Whole(x, f) ==
    [k \in 1..((Sizes[x][f] + Chunk - 1) \div Chunk) |-> (k - 1) * Chunk]

(* "verified end-to-end before the temp file is moved into place"          *)
(* (file_transfer.h): whatever the threads do, a file in its final place   *)
(* is complete and in order, and a sender that reports success really      *)
(* delivered every file.                                                   *)
DeliveredWhole ==
    \A x \in Xfers :
        /\ \A p \in placed[x] : p.chunks = Whole(x, p.file)
        /\ out[x].st = "Completed" => {p.file : p \in placed[x]} = Files(x)

(* Backpressure, acknowledgements and the two thread pools never deadlock: *)
(* an offered or resumed transfer completes on both sides unless somebody  *)
(* ends it or it is paused again.                                          *)
Completes ==
    \A x \in Xfers :
        []<>(\/ out[x].st = "None"
             \/ out[x].st = "Completed" /\ inc[x].st = "Completed"
             \/ x \in ended \/ "Paused" \in {out[x].st, inc[x].st})

=============================================================================
