-------------------------------- MODULE MCDht -------------------------------
(* The parts of the DHT side by side: each behaviour is one part's.        *)
EXTENDS DhtLookup, DhtNode, Krpc, DhtClient

CONSTANT Parts

VARIABLE part

C(id, ip, port) == [id |-> id, ip |-> ip, port |-> port]
Contacts == {C(12, "a1", 1), C(9, "a2", 1), C(5, "c1", 1), C(6, "l1", 2), C(7, "l1", 2), C(2, "l1", 3)}
PrivateContacts == {C(5, "l1", 1), C(6, "l1", 2), C(7, "l1", 3), C(12, "l1", 4)}
ServedContacts == {C(12, "a1", 1), C(5, "c1", 1)}
Subnets == [a \in {"a1", "a2", "c1", "l1"} |-> IF a \in {"a1", "a2"} THEN "a" ELSE a]
VerifiedContacts == {C(12, "a1", 1)}
TwiceAtTop == <<2>>
BootstrapRouters == <<C(NoId, "l1", 2)>>
CompliantIds == [a \in {"p", "q"} |-> IF a = "p" THEN 1 ELSE 6]

Bytes(n, v) == [i \in 1..n |-> v]
MCWireIds == {Bytes(20, 7)}
MCWireIps == {Unspecified, Bytes(4, 1), Bytes(16, 2)}
MCWants == {<<>>, <<"n4", "n6">>}

tableOnly == <<table, tableCalls>>
lookupOnly == <<lk, lookups>>
nodeOnly == <<now, served, secrets, issued, store, dos, votes, voters, external, pings, spider>>
vars == <<part, tableOnly, lookupOnly, nodeOnly, krpc, clientVars>>

Init ==
    /\ part \in Parts
    /\ TableInit /\ LookupInit /\ NodeInit /\ KrpcInit /\ ClientInit
    /\ part # "table" => table.self = 1

Next ==
    /\ \/ part = "table" /\ TableNext /\ UNCHANGED <<lookupOnly, nodeOnly, krpc, clientVars>>
       \/ part = "lookup" /\ LookupNext /\ UNCHANGED <<nodeOnly, krpc, clientVars>>
       \/ part = "node" /\ NodeNext /\ UNCHANGED <<lookupOnly, krpc, clientVars>>
       \/ part = "krpc" /\ KrpcNext /\ UNCHANGED <<tableOnly, lookupOnly, nodeOnly, clientVars>>
       \/ part = "client" /\ ClientNext /\ UNCHANGED <<tableOnly, lookupOnly, nodeOnly, krpc>>
    /\ UNCHANGED part

Spec == Init /\ [][Next]_vars /\ TicksGoOn

=============================================================================
