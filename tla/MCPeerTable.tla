---------------------------- MODULE MCPeerTable ----------------------------
(* From the socket to the peer table, for TLC: the table of one node       *)
(* (PeerDirectory), the tables of two nodes that dial each other           *)
(* (PeerLinks) and the two ends of one TCP connection (Connection).  A     *)
(* behaviour is one part's; the variables of the others keep their initial *)
(* value.                                                                  *)
EXTENDS PeerDirectory, PeerLinks, Connection, TLC

CONSTANTS Parts, p1, p2, c1, c2, r0, r1, me, a, b, l1, l2

VARIABLE part

TwoPeers == {p1, p2}
OneLarger == {p1}
TwoConns == {c1, c2}
TwoReactors == {r0, r1}

TwoLinks == {l1, l2}

(* Both nodes dial each other once, or one node dials twice.               *)
CrossDials == a :> 1 @@ b :> 1
RepeatedDials == a :> 2 @@ b :> 0

(* Frames each end of a connection sends.                                  *)
BothWays == [e \in Ends |-> IF e = "out" THEN 2 ELSE 1]

PartsInit ==
    /\ part \in Parts
    /\ Init /\ LinksInit /\ ConnInit
    /\ part # "links" => initiatorFirst
    /\ part # "connection" => backend = [e \in Ends |-> "epoll"]

PartsNext ==
    /\ \/ part = "directory" /\ Next /\ UNCHANGED <<linksVars, endVars>>
       \/ part = "links" /\ LinksNext /\ UNCHANGED <<vars, endVars>>
       \/ part = "connection" /\ ConnNext /\ UNCHANGED <<vars, linksVars>>
    /\ UNCHANGED part

On(p, A) == part = p /\ A

(* The fairness of each part, while it is the one that runs.               *)
PartsSpec ==
    /\ PartsInit
    /\ [][PartsNext]_<<part, vars, linksVars, endVars>>
    /\ \A r \in Reactors :
         /\ WF_vars(On("directory", DelegateStep(r)))
         /\ WF_vars(On("directory", StartTeardown(r)))
         /\ \A c \in Conns :
              /\ WF_vars(On("directory", RunCloseTask(r, c)))
              /\ WF_vars(On("directory", Remove(r, c)))
    /\ \A n \in Nodes :
         /\ WF_linksVars(On("links", TeardownLinks(n)))
         /\ \A l \in Links :
              /\ WF_linksVars(On("links", EstablishLink(n, l)))
              /\ WF_linksVars(On("links", HangUp(n, l)))
    /\ \A e \in Ends : WF_endVars(On("connection", Step(e)))
=============================================================================
