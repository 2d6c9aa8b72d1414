------------------------------ MODULE MCPubSub ------------------------------
(* PubSub for TLC: the deployments explored.                               *)
EXTENDS PubSub, TLC

CONSTANTS n1, n2, n3

Still(N, S) ==
    [nodes |-> N, subscribed |-> S, mesh |-> [n \in N |-> {}],
     low |-> 1, target |-> 1, high |-> 2, windows |-> 1, offered |-> 1,
     publishers |-> {}, refusing |-> {}, calls |-> {}, prompt |-> FALSE,
     maxCalls |-> 0, maxMessages |-> 0, maxDrops |-> 0]

(* Two nodes come, go, subscribe, unsubscribe and publish.                 *)
Churn ==
    [Still({n1, n2}, {}) EXCEPT
        !.high = 1, !.calls = {"subscribe", "unsubscribe"}, !.publishers = {n1, n2},
        !.maxCalls = 3, !.maxMessages = 1, !.maxDrops = 2]

(* Two nodes subscribe while connections drop.                             *)
Views == [Still({n1, n2}, {}) EXCEPT !.calls = {"subscribe"}, !.maxCalls = 2, !.maxDrops = 3]

(* Three subscribers form a mesh, with room for all and without.           *)
Grow == Still({n1, n2, n3}, {n1, n2, n3})
Prune == [Grow EXCEPT !.high = 1]

(* Three publish, and one refuses what it gets.                            *)
Refuse ==
    [Grow EXCEPT !.target = 2, !.prompt = TRUE, !.publishers = {n1, n2, n3},
                 !.refusing = {n3}, !.maxMessages = 2]

(* A pair is meshed; gossip alone reaches the third.                       *)
Split ==
    [Grow EXCEPT
        !.mesh = (n1 :> {n2}) @@ (n2 :> {n1}) @@ (n3 :> {}), !.low = 0,
        !.windows = 3, !.offered = 2,
        !.prompt = TRUE, !.publishers = {n1}, !.maxMessages = 1]

Explored == {Churn, Views, Grow, Prune, Refuse, Split}

=============================================================================
