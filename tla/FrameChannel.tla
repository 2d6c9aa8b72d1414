---------------------------- MODULE FrameChannel ----------------------------
(***************************************************************************)
(* What a pair of Connections promises: an ordered channel of frames in    *)
(* each direction.  Frames are accepted only while the sending end is      *)
(* open, delivered only while the receiving end is, in the order they were *)
(* accepted, none twice and none skipped.  An end that shuts loses what it *)
(* has not handed over: a suffix, never a frame from the middle.           *)
(***************************************************************************)
EXTENDS Naturals

CONSTANTS Ends, Peer(_)

VARIABLES
    mode,   \* mode[e]: "new", "open" or "shut"
    sent,   \* sent[e]: frames end e has accepted, numbered from 1
    wire,   \* wire[e]: the frames of e that can still be delivered
    got     \* got[e]: number of the last frame delivered to e

vars == <<mode, sent, wire, got>>

Init ==
    /\ mode = [e \in Ends |-> "new"]
    /\ sent = [e \in Ends |-> 0]
    /\ wire = [e \in Ends |-> {}]
    /\ got = [e \in Ends |-> 0]

Open(e) ==
    /\ mode[e] = "new"
    /\ mode' = [mode EXCEPT ![e] = "open"]
    /\ UNCHANGED <<sent, wire, got>>

(* A frame sent to an end that has shut is lost.                           *)
Send(e) ==
    /\ mode[e] = "open"
    /\ sent' = [sent EXCEPT ![e] = @ + 1]
    /\ wire' = IF mode[Peer(e)] = "shut" THEN wire
               ELSE [wire EXCEPT ![e] = @ \cup {sent[e] + 1}]
    /\ UNCHANGED <<mode, got>>

Deliver(e) ==
    LET p == Peer(e) IN
    /\ mode[e] = "open"
    /\ got[e] + 1 \in wire[p]
    /\ got' = [got EXCEPT ![e] = @ + 1]
    /\ wire' = [wire EXCEPT ![p] = @ \ {got[e] + 1}]
    /\ UNCHANGED <<mode, sent>>

(* Of what e has sent the frames up to n, and nothing of what it awaits.   *)
Keep(e, n) == [f \in Ends |-> IF f = e THEN {k \in wire[e] : k <= n} ELSE {}]

(* The last frame may be refused as the end shuts (SlowConsumer).          *)
Shut(e) ==
    /\ mode[e] # "shut"
    /\ mode' = [mode EXCEPT ![e] = "shut"]
    /\ \E n \in 0..sent[e] : wire' = Keep(e, n)
    /\ sent' = sent \/ (mode[e] = "open" /\ sent' = [sent EXCEPT ![e] = @ + 1])
    /\ UNCHANGED got

Next == \E e \in Ends : Open(e) \/ Send(e) \/ Deliver(e) \/ Shut(e)

Spec == Init /\ [][Next]_vars

=============================================================================
