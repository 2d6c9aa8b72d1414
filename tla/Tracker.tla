------------------------------ MODULE Tracker ------------------------------
(***************************************************************************)
(* Announces to a torrent's trackers, each on a thread of its own, over    *)
(* UDP or HTTP, and stop(), which waits for them.  Every announce opens a  *)
(* socket; its port may be that of an earlier one, whose answers may still *)
(* be on the way, lost or repeated.  Transaction ids are numbers never     *)
(* drawn twice.                                                            *)
(***************************************************************************)
EXTENDS Integers, FiniteSets

CONSTANTS
    Trackers, IsUdp(_),     \* the torrent's trackers
    Intervals,              \* what a tracker may say its interval is, any integer
    IntBits,                \* width of an unsigned int
    MinInterval, MaxInterval, DefaultInterval,
    MaxAnnounces            \* bound: announce threads

ASSUME TrackerAssumption ==
    /\ {MinInterval, MaxInterval, DefaultInterval, MaxAnnounces} \subseteq Nat
    /\ MinInterval <= MaxInterval
    /\ Intervals \subseteq Int
    /\ 2 ^ IntBits \in Nat \ {0}

VARIABLE ann

Announces == 1 .. MaxAnnounces
NoThread == [tracker |-> "none", stage |-> "none", tid |-> 0]

TrackerInit ==
    ann = [made |-> 0, tids |-> 0, thread |-> [n \in Announces |-> NoThread], inflight |-> 0, stopping |-> FALSE,
           stopped |-> FALSE, asked |-> {}, net |-> {}, posted |-> {}, late |-> FALSE]

Question(kind, n, conn) == [kind |-> kind, n |-> n, tid |-> ann.tids + 1, conn |-> conn]
At(n, stage) == ann.thread[n].stage = stage

-----------------------------------------------------------------------------
(* announce(): a thread for each tracker.  UDP asks for a connection id    *)
(* first; HTTP asks at once, on a connection of its own.                   *)
announce(t) ==
    /\ ann.made < MaxAnnounces /\ ~ann.stopping
    /\ LET n == ann.made + 1
       IN ann' = [ann EXCEPT !.made = n, !.inflight = @ + 1, !.tids = IF IsUdp(t) THEN @ + 1 ELSE @,
                             !.thread[n] = [tracker |-> t, stage |-> IF IsUdp(t) THEN "connect" ELSE "http", tid |-> IF IsUdp(t) THEN ann.tids + 1 ELSE 0],
                             !.asked = IF IsUdp(t) THEN @ \cup {Question("connect", n, 0)} ELSE @]

(* The tracker answers what it was asked, with a connection id, the peers  *)
(* for the announce, or an error.                                          *)
TrackerReplies(q) ==
    /\ q \in ann.asked
    /\ \E kind \in (IF q.kind = "connect" \/ q.conn = q.n THEN {q.kind, "error"} ELSE {"error"}) :
         ann' = [ann EXCEPT !.net = @ \cup {[kind |-> kind, tid |-> q.tid, n |-> q.n]}]

(* The interval the tracker wants, as an unsigned int, kept within bounds. *)
(* Mutant: only what is too short is corrected.                            *)
cadence_unbounded(i) == LET u == i % 2 ^ IntBits IN IF u = 0 THEN DefaultInterval ELSE IF u < MinInterval THEN MinInterval ELSE u
cadence(i) ==
    LET u == i % 2 ^ IntBits
        v == IF u = 0 THEN DefaultInterval ELSE u
    IN IF v < MinInterval THEN MinInterval ELSE IF v > MaxInterval THEN MaxInterval ELSE v

(* The thread's end, in one hold of the lock: post what came, unless       *)
(* stopping, and be counted out.                                           *)
Finish(b, n, ok, of, i) ==
    [b EXCEPT !.thread[n].stage = "notify", !.inflight = @ - 1, !.late = @ \/ b.stopped,
              !.posted = IF ok /\ ~b.stopping THEN @ \cup {[n |-> n, of |-> of, interval |-> cadence(i)]} ELSE @]

(* Mutant: the announce's answer is taken for its kind.                    *)
answers_kind(n, d) == d.kind = ann.thread[n].stage
(* A datagram of the kind that is due, with the transaction's id.          *)
answers(n, d) == d.kind = ann.thread[n].stage /\ d.tid = ann.thread[n].tid

(* A datagram comes, once or again, or never.  One that is no answer ends  *)
(* the announce; i is the interval an answer names.                        *)
receive_udp(n, d, i) ==
    /\ d \in ann.net /\ ann.thread[n].stage \in {"connect", "announce"}
    /\ ann' = IF ~answers(n, d) THEN Finish(ann, n, FALSE, 0, 0)
              ELSE IF d.kind = "announce" THEN Finish(ann, n, TRUE, d.n, i)
              ELSE [ann EXCEPT !.tids = @ + 1, !.thread[n] = [tracker |-> @.tracker, stage |-> "announce", tid |-> ann.tids + 1],
                               !.asked = @ \cup {Question("announce", n, d.n)}]

(* The wait runs out, or the socket cannot be had, or the URL is bad.      *)
Fails(n) == ann.thread[n].stage \in {"connect", "announce", "http"} /\ ann' = Finish(ann, n, FALSE, 0, 0)

(* parse_http_response: a dictionary without a failure reason.             *)
receive_http(n, i) == At(n, "http") /\ ann' = Finish(ann, n, TRUE, n, i)

(* The notify of drain_cv_ comes after the unlock, and may come after      *)
(* stop() has returned.                                                    *)
Notify(n) == At(n, "notify") /\ ann' = [ann EXCEPT !.thread[n].stage = "over"]

AnnouncerStops == ~ann.stopping /\ ann' = [ann EXCEPT !.stopping = TRUE]
StopReturns == ann.stopping /\ ~ann.stopped /\ ann.inflight = 0 /\ ann' = [ann EXCEPT !.stopped = TRUE]

TrackerNext ==
    \/ \E t \in Trackers : announce(t)
    \/ \E q \in ann.asked : TrackerReplies(q)
    \/ \E n \in Announces : Fails(n) \/ Notify(n) \/ \E i \in Intervals : receive_http(n, i) \/ \E d \in ann.net : receive_udp(n, d, i)
    \/ AnnouncerStops \/ StopReturns

TrackerSpec == TrackerInit /\ [][TrackerNext]_ann

-----------------------------------------------------------------------------
(* Peers are those the tracker gave for this very announce, though answers *)
(* to earlier ones come to the same port; the next announce is never       *)
(* sooner or later than the bounds; and once stop() has returned no thread *)
(* takes the lock or posts any more.                                       *)
AnnounceSound ==
    /\ \A p \in ann.posted : p.of = p.n /\ p.interval \in MinInterval .. MaxInterval
    /\ ann.inflight = Cardinality({n \in Announces : ann.thread[n].stage \notin {"none", "notify", "over"}})
    /\ ~ann.late

=============================================================================
