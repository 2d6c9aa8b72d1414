------------------------------ MODULE PeerLinks ------------------------------
(***************************************************************************)
(* Two nodes and the TCP links between them: does the duplicate rule make  *)
(* both ends keep the same link?                                           *)
(*                                                                         *)
(* Each node runs one reactor, so a delegate call is one step here (module *)
(* PeerDirectory splits it for several reactors).  What crosses the wire   *)
(* is reduced to the order it imposes: the end that completes the          *)
(* handshake second can do so only after the first has, and an end learns  *)
(* that the other has closed after everything that was sent before.  With  *)
(* Noise the initiator completes first, with plaintext the responder.      *)
(***************************************************************************)
EXTENDS Naturals, FiniteSets, PeerTable

CONSTANTS
    Small, Large,    \* the two nodes, by the order of their ids
    Links,           \* TCP connections
    DialsOf,         \* how many dials each node makes
    MaxCrashes,      \* how often a node dies without a FIN and comes back
    NoLink

Nodes == {Small, Large}

ASSUME LinksAssumption ==
    /\ Small # Large
    /\ DialsOf \in [Nodes -> Nat]
    /\ MaxCrashes \in Nat
    /\ NoLink \notin Links \cup Nodes

VARIABLES
    initiatorFirst,  \* NodeConfig::security: Noise XX (TRUE) or plaintext hello
    dialer,   \* the node that dialed the link, NoLink if unused
    end,      \* end[l][n]: n's Connection object for l
    done,     \* nodes that completed the handshake of l at some time
    cut,      \* links on which an end vanished without a FIN
    table,    \* table[n]: the link n's PeerTable routes the other node to
    closing,   \* closing[n]: links in n's pending_close_
    crashes

linksVars == <<initiatorFirst, dialer, end, done, cut, table, closing, crashes>>

Other(n) == IF n = Small THEN Large ELSE Small
RoleOf(n, l) == IF dialer[l] = n THEN "Outbound" ELSE "Inbound"

(* Mutant: both ends favour their own dial.                                *)
PreferOutboundAlways(n) == TRUE

(* prefer_outbound: identity_.id < remote_id *)
PreferOutbound(n) == n = Small

(* The end whose handshake completes first.                                *)
First(l) == IF initiatorFirst THEN dialer[l] ELSE Other(dialer[l])

LinksTypeOK ==
    /\ initiatorFirst \in BOOLEAN
    /\ dialer \in [Links -> Nodes \cup {NoLink}]
    /\ end \in [Links -> [Nodes -> {"none", "opening", "established", "gone"}]]
    /\ done \in [Links -> SUBSET Nodes]
    /\ cut \subseteq Links
    /\ table \in [Nodes -> Links \cup {NoLink}]
    /\ closing \in [Nodes -> SUBSET Links]
    /\ crashes \in 0..MaxCrashes

LinksInit ==
    /\ initiatorFirst \in BOOLEAN
    /\ dialer = [l \in Links |-> NoLink]
    /\ end = [l \in Links |-> [n \in Nodes |-> "none"]]
    /\ done = [l \in Links |-> {}]
    /\ cut = {}
    /\ table = [n \in Nodes |-> NoLink]
    /\ closing = [n \in Nodes |-> {}]
    /\ crashes = 0

-----------------------------------------------------------------------------
(* Node::connect; the other node's listener accepts the connection.        *)
DialLink(n, l) ==
    /\ dialer[l] = NoLink
    /\ Cardinality({k \in Links : dialer[k] = n}) < DialsOf[n]
    /\ dialer' = [dialer EXCEPT ![l] = n]
    /\ end' = [end EXCEPT ![l] = [m \in Nodes |-> "opening"]]
    /\ UNCHANGED <<initiatorFirst, done, cut, table, closing, crashes>>

(* The handshake of l completes at n: an end that was marked for close     *)
(* gets no further event.                                                  *)
HandshakeEnds(n, l) ==
    /\ end[l][n] = "opening"
    /\ l \notin closing[n]
    /\ n = First(l) \/ First(l) \in done[l]
    /\ end[l][Other(n)] # "gone" \/ l \notin cut

(* Node::on_established on n for link l: register, or resolve the          *)
(* duplicate, and close the loser.                                         *)
EstablishLink(n, l) ==
    LET cur == table[n]
        new == \/ cur = NoLink
               \/ KeepNew(RoleOf(n, cur), RoleOf(n, l), PreferOutbound(n))
        loser == IF ~new THEN l ELSE cur
    IN /\ HandshakeEnds(n, l)
       /\ end' = [end EXCEPT ![l][n] = "established"]
       /\ done' = [done EXCEPT ![l] = @ \cup {n}]
       /\ table' = [table EXCEPT ![n] = IF new THEN l ELSE cur]
       /\ closing' = IF loser = NoLink THEN closing
                    ELSE [closing EXCEPT ![n] = @ \cup {loser}]
       /\ UNCHANGED <<initiatorFirst, dialer, cut, crashes>>

(* The other end is gone: its FIN or reset reaches n (a reset may overtake *)
(* handshake data).  A cut link stays silent.                              *)
FinArrives(n, l) ==
    /\ end[l][n] \in {"opening", "established"}
    /\ end[l][Other(n)] = "gone"
    /\ l \notin cut \cup closing[n]

HangUp(n, l) ==
    /\ FinArrives(n, l)
    /\ closing' = [closing EXCEPT ![n] = @ \cup {l}]
    /\ UNCHANGED <<initiatorFirst, dialer, end, done, cut, table, crashes>>

(* process_pending_close: remove the closing links; on_closed drops the     *)
(* peer only if the link is the routed one.                                *)
TeardownLinks(n) ==
    /\ closing[n] # {}
    /\ end' = [l \in Links |-> IF l \in closing[n] THEN [end[l] EXCEPT ![n] = "gone"]
                                                  ELSE end[l]]
    /\ table' = [table EXCEPT ![n] = IF @ \in closing[n] THEN NoLink ELSE @]
    /\ closing' = [closing EXCEPT ![n] = {}]
    /\ UNCHANGED <<initiatorFirst, dialer, done, cut, crashes>>

(* The host of n loses power: its ends vanish without a FIN, and n starts  *)
(* again with an empty table.                                              *)
Crash(n) ==
    /\ crashes < MaxCrashes
    /\ crashes' = crashes + 1
    /\ cut' = cut \cup {l \in Links : end[l][n] \in {"opening", "established"}}
    /\ end' = [l \in Links |-> IF dialer[l] = NoLink THEN end[l]
                                                     ELSE [end[l] EXCEPT ![n] = "gone"]]
    /\ table' = [table EXCEPT ![n] = NoLink]
    /\ closing' = [closing EXCEPT ![n] = {}]
    /\ UNCHANGED <<initiatorFirst, dialer, done>>

LinksNext ==
    \/ \E n \in Nodes, l \in Links : DialLink(n, l) \/ EstablishLink(n, l) \/ HangUp(n, l)
    \/ \E n \in Nodes : TeardownLinks(n) \/ Crash(n)

LinksSpec == LinksInit /\ [][LinksNext]_linksVars

-----------------------------------------------------------------------------
(* Nothing more will happen unless somebody dials or dies.                 *)
Quiet ==
    \A n \in Nodes, l \in Links :
        closing[n] = {} /\ ~HandshakeEnds(n, l) /\ ~FinArrives(n, l)

Dialed == {l \in Links : dialer[l] # NoLink}

(* "both converge on the same one" (PeerTable::add), "Either way exactly   *)
(* one survives": once a link was dialed and things are quiet again, both  *)
(* tables route to the same link and no second one is left open.           *)
Converged ==
    (Quiet /\ Dialed # {} /\ crashes = 0) =>
        /\ table[Small] = table[Large]
        /\ table[Small] # NoLink
        /\ \A l \in Links, n \in Nodes :
              end[l][n] = "established" => l = table[n]

=============================================================================
