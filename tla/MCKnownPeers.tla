---------------------------- MODULE MCKnownPeers ----------------------------
(* The peers a node remembers, for TLC: the reconnection service's targets *)
(* (Reconnection) and the book it keeps on disk (PeerBook).  A behaviour   *)
(* is one part's.                                                          *)
EXTENDS Reconnection, PeerBook, TLC

CONSTANTS a1, a2, t1

VARIABLE part

TwoAddrs == {a1, a2}
OneThread == {t1}

PartsInit ==
    /\ part \in {"reconnection", "book"}
    /\ ReconInit /\ BookInit
    /\ part = "book" => book = {}

PartsNext ==
    /\ \/ part = "reconnection" /\ ReconNext /\ UNCHANGED bookVars
       \/ part = "book" /\ BookNext /\ UNCHANGED reconVars
    /\ UNCHANGED part

On(A) == part = "reconnection" /\ A

PartsSpec ==
    /\ PartsInit
    /\ [][PartsNext]_<<part, bookVars, reconVars>>
    /\ WF_reconVars(On(LoopStep))
    /\ WF_reconVars(On(TimePasses))
    /\ \A a \in Endpoints :
         /\ WF_reconVars(On(OnConnected(a)))
         /\ WF_reconVars(On(DialConnects(a) \/ OnDialFailed(a) \/ DialLost(a)))
=============================================================================
