---------------------------- MODULE Peers_proofs ----------------------------
(***************************************************************************)
(* Proofs about the peer table.  Of one node, under any number of reactor  *)
(* threads: the invariants of PeerDirectory are not inductive as they      *)
(* stand, because a delegate call in progress holds facts about its        *)
(* connection (CallOK).  Of two nodes that dial each other: the link the   *)
(* smaller id dialed wins at both ends.  And of the connections themselves *)
(* that they implement the ordered channel of FrameChannel: all that is on *)
(* the way from one end to the other is one gapless run of units (Way).    *)
(***************************************************************************)
EXTENDS PeerDirectory, PeerLinks, Connection, FiniteSetTheorems, TLAPS

(* One node.                                                               *)

Unrouted(c) == \A p \in Peers : route[p] # c

(* What thread r knows about the connection its delegate call is for.      *)
CallOK ==
    \A r \in Reactors :
        LET k == call[r] IN
        k.at # "idle" =>
            /\ k.conn \in Conns
            /\ owner[k.conn] = r
            /\ remote[k.conn] \in Ids
            /\ k.at \in {"check", "add", "close", "connected"} => cstate[k.conn] = "established"
            /\ k.at \in {"check", "add"} => Unrouted(k.conn)
            /\ k.at \in {"add", "close", "connected", "disconnected"} => remote[k.conn] \in Peers
            /\ k.at \in {"closed", "disconnected"} => cstate[k.conn] = "removed"

(* An established connection has authenticated some id.                    *)
EstablishedHasId ==
    \A c \in Conns : cstate[c] = "established" => remote[c] \in Ids

IndInv ==
    /\ TypeOK
    /\ CallOK
    /\ EstablishedHasId
    /\ RouteIsLive
    /\ NoLingeringLoser

LEMMA InitInd == Init => IndInv
  BY DirectoryAssumption DEF Init, IndInv, TypeOK, CallOK, EstablishedHasId,
     RouteIsLive, NoLingeringLoser, Ids, Roles, Steps, Idle, Call

(* A routed connection is established or removed, never fresh.             *)
LEMMA RoutedState ==
    ASSUME IndInv, NEW p \in Peers, route[p] # None
    PROVE  /\ route[p] \in Conns
           /\ cstate[route[p]] \in {"established", "removed"}
           /\ remote[route[p]] = p
  BY DEF IndInv, TypeOK, RouteIsLive, CallOK

(* The connection of a delegate call is past its handshake.                *)
LEMMA CallConn ==
    ASSUME IndInv, NEW r \in Reactors, call[r].at # "idle"
    PROVE  call[r].conn \in Conns /\ cstate[call[r].conn] \in {"established", "removed"}
  BY DEF IndInv, TypeOK, CallOK, Steps

(* Reactor::remove spelled out for the three kinds of batch entries.       *)
LEMMA RemoveCases ==
    ASSUME IndInv, NEW r \in Reactors, NEW c \in Conns, Remove(r, c)
    PROVE  /\ call[r].at = "idle" /\ owner[c] = r
           /\ batch' = batch \ {c}
           /\ UNCHANGED <<role, remote, owner, route, marked, tasks, stopped, seen>>
           /\ \/ /\ cstate' = [cstate EXCEPT ![c] = "removed"]
                 /\ remote[c] \in Ids
                 /\ call' = [call EXCEPT ![r] = Call("closed", c)]
              \/ /\ cstate' = [cstate EXCEPT ![c] = "removed"]
                 /\ remote[c] = None /\ cstate[c] # "established"
                 /\ call' = call
              \/ cstate' = cstate /\ call' = call /\ cstate[c] # "established"
<1> USE DirectoryAssumption DEF IndInv, TypeOK, EstablishedHasId, Ids
<1>1. CASE Live(c) /\ remote[c] # None
  BY <1>1 DEF Remove, Ready
<1>2. CASE Live(c) /\ remote[c] = None
  BY <1>2 DEF Remove, Ready
<1>3. CASE ~Live(c)
  BY <1>3 DEF Remove, Ready, Live
<1> QED
  BY <1>1, <1>2, <1>3

LEMMA TypeStep == ASSUME IndInv, [Next]_vars PROVE TypeOK'
<1> USE DirectoryAssumption DEF IndInv, TypeOK
<1>1. CASE UNCHANGED vars
  BY <1>1 DEF vars
<1>2. ASSUME NEW r \in Reactors, NEW c \in Conns, Dial(r, c) PROVE TypeOK'
  BY <1>2 DEF Dial, Roles
<1>3. ASSUME NEW c \in Conns, Accept(c) PROVE TypeOK'
  BY <1>3 DEF Accept, Roles
<1>4. ASSUME NEW r \in Reactors, NEW c \in Conns, NEW id \in Ids, Establish(r, c, id) PROVE TypeOK'
  BY <1>4 DEF Establish, Steps, Call
<1>5. ASSUME NEW r \in Reactors, NEW c \in Conns, LinkFails(r, c) PROVE TypeOK'
  BY <1>5 DEF LinkFails, connVars
<1>6. ASSUME NEW c \in Conns, CloseByHandle(c) PROVE TypeOK'
  BY <1>6 DEF CloseByHandle, connVars
<1>7. ASSUME NEW r \in Reactors, NEW c \in Conns, RunCloseTask(r, c) PROVE TypeOK'
  BY <1>7 DEF RunCloseTask, connVars
<1>8. ASSUME NEW r \in Reactors, CheckLimit(r) PROVE TypeOK'
  BY <1>8 DEF CheckLimit, connVars, Idle, Call, Steps, CallOK
<1>9. ASSUME NEW r \in Reactors, TableAdd(r) PROVE TypeOK'
  <2> DEFINE c == call[r].conn
  <2>1. c \in Conns /\ remote[c] \in Peers
    BY <1>9 DEF TableAdd, CallOK
  <2>2. AddRoute(remote[c], c) \in Conns \cup {None} /\ AddLoser(remote[c], c) \in Conns \cup {None}
    BY <2>1 DEF AddRoute, AddLoser
  <2> QED
    BY <1>9, <2>1, <2>2 DEF TableAdd, connVars, Steps
<1>10. ASSUME NEW r \in Reactors, CloseLoser(r) PROVE TypeOK'
  BY <1>10 DEF CloseLoser, CloseFrom, connVars, Idle, Call, Steps
<1>11. ASSUME NEW r \in Reactors, FireConnected(r) PROVE TypeOK'
  BY <1>11 DEF FireConnected, connVars, Idle, Call, Steps
<1>12. ASSUME NEW r \in Reactors, StartTeardown(r) PROVE TypeOK'
  BY <1>12 DEF StartTeardown, connVars
<1>13. ASSUME NEW r \in Reactors, NEW c \in Conns, Remove(r, c) PROVE TypeOK'
  <2>0. /\ cstate' = cstate \/ cstate' = [cstate EXCEPT ![c] = "removed"]
        /\ batch' = batch \ {c}
        /\ UNCHANGED <<role, remote, owner, route, marked, tasks, stopped, seen>>
    BY <1>13, RemoveCases
  <2>1. /\ cstate' \in [Conns -> {"unused", "opening", "established", "removed"}]
        /\ batch' \in SUBSET Conns
    BY <2>0
  <2>2. Call("closed", c) \in [at : Steps, conn : Conns \cup {None},
                               loser : Conns \cup {None}, fresh : BOOLEAN]
    BY DEF Steps, Call
  <2>3. call' = call \/ call' = [call EXCEPT ![r] = Call("closed", c)]
    BY <1>13, RemoveCases
  <2>4. call' \in [Reactors -> [at : Steps, conn : Conns \cup {None},
                                loser : Conns \cup {None}, fresh : BOOLEAN]]
    BY <2>2, <2>3
  <2> QED
    BY <2>0, <2>1, <2>4
<1>14. ASSUME NEW r \in Reactors, TableRemove(r) PROVE TypeOK'
  BY <1>14 DEF TableRemove, connVars, Idle, Call, Steps
<1>15. ASSUME NEW r \in Reactors, FireDisconnected(r) PROVE TypeOK'
  BY <1>15 DEF FireDisconnected, connVars, Idle, Call, Steps
<1>16. ASSUME NEW r \in Reactors, Stop(r) PROVE TypeOK'
  BY <1>16 DEF Stop, connVars
<1>17. CASE Restart
  BY <1>17 DEF Restart, connVars
<1> QED
  BY <1>1, <1>2, <1>3, <1>4, <1>5, <1>6, <1>7, <1>8, <1>9, <1>10, <1>11,
     <1>12, <1>13, <1>14, <1>15, <1>16, <1>17 DEF Next, DelegateStep

-----------------------------------------------------------------------------
(* Steps that leave the table, the owners and the ids alone and condemn no *)
(* fewer connections than before: what the delegate calls do to the        *)
(* invariants is in the steps below.                                       *)

LEMMA CallStep == ASSUME IndInv, [Next]_vars PROVE CallOK'
<1> USE DirectoryAssumption DEF IndInv, TypeOK, CallOK, Unrouted
<1>1. CASE UNCHANGED vars
  BY <1>1 DEF vars
<1>2. ASSUME NEW r \in Reactors, NEW c \in Conns, Dial(r, c) PROVE CallOK'
  BY <1>2, CallConn DEF Dial
<1>3. ASSUME NEW c \in Conns, Accept(c) PROVE CallOK'
  BY <1>3, CallConn DEF Accept
<1>4. ASSUME NEW r \in Reactors, NEW c \in Conns, NEW id \in Ids, Establish(r, c, id) PROVE CallOK'
  <2>1. Unrouted(c)
    BY <1>4, RoutedState DEF Establish
  <2> QED
    BY <1>4, <2>1 DEF Establish, Call
<1>5. ASSUME NEW r \in Reactors, NEW c \in Conns, LinkFails(r, c) PROVE CallOK'
  BY <1>5 DEF LinkFails, connVars
<1>6. ASSUME NEW c \in Conns, CloseByHandle(c) PROVE CallOK'
  BY <1>6 DEF CloseByHandle, connVars
<1>7. ASSUME NEW r \in Reactors, NEW c \in Conns, RunCloseTask(r, c) PROVE CallOK'
  BY <1>7 DEF RunCloseTask, connVars
<1>8. ASSUME NEW r \in Reactors, CheckLimit(r) PROVE CallOK'
  BY <1>8 DEF CheckLimit, connVars, Idle, Call, Ids
<1>9. ASSUME NEW r \in Reactors, TableAdd(r) PROVE CallOK'
  <2> DEFINE c == call[r].conn
             p == remote[c]
  <2>1. c \in Conns /\ p \in Peers /\ owner[c] = r
    BY <1>9 DEF TableAdd
  <2>2. route' = [route EXCEPT ![p] = AddRoute(p, c)] /\ AddRoute(p, c) \in {route[p], c}
    BY <1>9 DEF TableAdd, AddRoute
  <2>3. \A d \in Conns : d # c /\ Unrouted(d) => Unrouted(d)'
    BY <2>1, <2>2
  <2>4. \A s \in Reactors \ {r} : call[s].at # "idle" => call[s].conn # c
    BY <2>1
  <2> QED
    BY <1>9, <2>1, <2>3, <2>4 DEF TableAdd, connVars
<1>10. ASSUME NEW r \in Reactors, CloseLoser(r) PROVE CallOK'
  BY <1>10 DEF CloseLoser, connVars, Idle, Call
<1>11. ASSUME NEW r \in Reactors, FireConnected(r) PROVE CallOK'
  BY <1>11 DEF FireConnected, connVars, Idle, Call
<1>12. ASSUME NEW r \in Reactors, StartTeardown(r) PROVE CallOK'
  BY <1>12 DEF StartTeardown, connVars
<1>13. ASSUME NEW r \in Reactors, NEW c \in Conns, Remove(r, c) PROVE CallOK'
  <2>1. \A s \in Reactors : call[s].at # "idle" => call[s].conn # c
    BY <1>13, RemoveCases
  <2>2. CASE call' = call
    BY <1>13, <2>1, <2>2, RemoveCases
  <2>3. CASE /\ cstate' = [cstate EXCEPT ![c] = "removed"]
             /\ remote[c] \in Ids
             /\ call' = [call EXCEPT ![r] = Call("closed", c)]
    <3>1. call'[r].at = "closed" /\ call'[r].conn = c
      BY <2>3 DEF Call
    <3>2. \A s \in Reactors : s # r => call'[s] = call[s]
      BY <2>3
    <3>3. UNCHANGED <<owner, remote, route>> /\ owner[c] = r
      BY <1>13, RemoveCases
    <3> QED
      BY <2>1, <2>3, <3>1, <3>2, <3>3
  <2> QED
    BY <1>13, <2>2, <2>3, RemoveCases
<1>14. ASSUME NEW r \in Reactors, TableRemove(r) PROVE CallOK'
  <2> DEFINE c == call[r].conn
             p == remote[c]
  <2>1. CASE Evicts(p, c)
    <3>1. route' = [route EXCEPT ![p] = None] /\ p \in Peers /\ c \in Conns
      BY <1>14, <2>1 DEF TableRemove, Evicts
    <3>2. \A d \in Conns : Unrouted(d) => Unrouted(d)'
      BY <3>1
    <3> QED
      BY <1>14, <2>1, <3>1, <3>2 DEF TableRemove, connVars, Call
  <2>2. CASE ~Evicts(p, c)
    BY <1>14, <2>2 DEF TableRemove, connVars, Idle, Call
  <2> QED
    BY <2>1, <2>2
<1>15. ASSUME NEW r \in Reactors, FireDisconnected(r) PROVE CallOK'
  BY <1>15 DEF FireDisconnected, connVars, Idle, Call
<1>16. ASSUME NEW r \in Reactors, Stop(r) PROVE CallOK'
  BY <1>16 DEF Stop, connVars
<1>17. CASE Restart
  BY <1>17 DEF Restart, connVars
<1> QED
  BY <1>1, <1>2, <1>3, <1>4, <1>5, <1>6, <1>7, <1>8, <1>9, <1>10, <1>11,
     <1>12, <1>13, <1>14, <1>15, <1>16, <1>17 DEF Next, DelegateStep

LEMMA IdStep == ASSUME IndInv, [Next]_vars PROVE EstablishedHasId'
<1> USE DirectoryAssumption DEF IndInv, TypeOK, EstablishedHasId
<1>1. ASSUME NEW r \in Reactors, NEW c \in Conns, Remove(r, c) PROVE EstablishedHasId'
  BY <1>1, RemoveCases
<1>2. ASSUME NEW r \in Reactors, NEW c \in Conns, NEW id \in Ids, Establish(r, c, id)
      PROVE EstablishedHasId'
  BY <1>2 DEF Establish
<1>3. ASSUME NEW r \in Reactors, NEW c \in Conns, Dial(r, c) PROVE EstablishedHasId'
  BY <1>3 DEF Dial
<1>4. ASSUME NEW c \in Conns, Accept(c) PROVE EstablishedHasId'
  BY <1>4 DEF Accept
<1>5. ASSUME UNCHANGED connVars PROVE EstablishedHasId'
  BY <1>5 DEF connVars
<1> QED
  BY <1>1, <1>2, <1>3, <1>4, <1>5 DEF Next, DelegateStep, vars, connVars, CheckLimit,
     TableAdd, CloseLoser, FireConnected, TableRemove, FireDisconnected,
     StartTeardown, Stop, LinkFails, RunCloseTask, CloseByHandle, Restart

-----------------------------------------------------------------------------
LEMMA RouteStep == ASSUME IndInv, [Next]_vars PROVE RouteIsLive'
<1> USE DirectoryAssumption DEF IndInv, TypeOK
<1>1. ASSUME UNCHANGED <<connVars, route, call>> PROVE RouteIsLive'
  BY <1>1 DEF RouteIsLive, connVars
<1>2. ASSUME NEW r \in Reactors, NEW c \in Conns, Dial(r, c) PROVE RouteIsLive'
  BY <1>2, RoutedState DEF Dial, RouteIsLive
<1>3. ASSUME NEW c \in Conns, Accept(c) PROVE RouteIsLive'
  BY <1>3, RoutedState DEF Accept, RouteIsLive
<1>4. ASSUME NEW r \in Reactors, NEW c \in Conns, NEW id \in Ids, Establish(r, c, id) PROVE RouteIsLive'
  BY <1>4, RoutedState DEF Establish, RouteIsLive, Looping, Ready
(* No call at "closed" is touched by a step of on_established.             *)
<1>5. ASSUME NEW r \in Reactors, call[r].at # "closed", UNCHANGED <<connVars, route>>,
             \A s \in Reactors \ {r} : call'[s] = call[s]
      PROVE RouteIsLive'
  BY <1>5 DEF RouteIsLive, connVars
<1>6. ASSUME NEW r \in Reactors, TableAdd(r) PROVE RouteIsLive'
  <2> DEFINE c == call[r].conn
             p == remote[c]
  <2>1. c \in Conns /\ p \in Peers /\ owner[c] = r /\ cstate[c] = "established"
    BY <1>6 DEF TableAdd, CallOK
  <2>2. /\ route' = [route EXCEPT ![p] = AddRoute(p, c)]
        /\ AddRoute(p, c) \in {route[p], c}
        /\ UNCHANGED connVars
        /\ call[r].at # "closed"
        /\ \A s \in Reactors \ {r} : call'[s] = call[s]
    BY <1>6 DEF TableAdd, AddRoute
  <2> QED
    BY <2>1, <2>2 DEF RouteIsLive, connVars
<1>7. ASSUME NEW r \in Reactors, TableRemove(r) PROVE RouteIsLive'
  <2> DEFINE c == call[r].conn
             p == remote[c]
  <2>1. c \in Conns /\ owner[c] = r
    BY <1>7 DEF TableRemove, CallOK
  <2>2. \A q \in Peers : route'[q] # None => route'[q] = route[q] /\ route[q] # c
    BY <1>7, <2>1 DEF TableRemove, Evicts, RouteIsLive
  <2>3. UNCHANGED connVars /\ \A s \in Reactors \ {r} : call'[s] = call[s]
    BY <1>7 DEF TableRemove
  <2> QED
    BY <2>1, <2>2, <2>3 DEF RouteIsLive, connVars
<1>8. ASSUME NEW r \in Reactors, NEW c \in Conns, Remove(r, c) PROVE RouteIsLive'
  <2>1. CASE /\ cstate' = [cstate EXCEPT ![c] = "removed"]
             /\ call' = [call EXCEPT ![r] = Call("closed", c)]
    <3>1. call'[r].at = "closed" /\ call'[r].conn = c
      BY <2>1 DEF Call
    <3>2. \A s \in Reactors \ {r} : call'[s] = call[s]
      BY <2>1
    <3>3. UNCHANGED <<owner, remote, route>> /\ owner[c] = r /\ call[r].at = "idle"
      BY <1>8, RemoveCases
    <3> QED
      BY <2>1, <3>1, <3>2, <3>3 DEF RouteIsLive
  <2>2. CASE call' = call /\ cstate[c] # "established"
    <3>1. UNCHANGED <<owner, remote, route, call>>
          /\ \A d \in Conns : cstate[d] = "established" => cstate'[d] = "established"
      BY <1>8, <2>2, RemoveCases
    <3> QED
      BY <3>1 DEF RouteIsLive
  <2> QED
    BY <1>8, <2>1, <2>2, RemoveCases
<1>9. ASSUME NEW r \in Reactors, CheckLimit(r) \/ CloseLoser(r) \/ FireConnected(r) \/ FireDisconnected(r)
      PROVE RouteIsLive'
  BY <1>5, <1>9 DEF CheckLimit, CloseLoser, FireConnected, FireDisconnected
<1> QED
  BY <1>1, <1>2, <1>3, <1>4, <1>6, <1>7, <1>8, <1>9 DEF Next, DelegateStep, vars, connVars,
     StartTeardown, Stop, LinkFails, RunCloseTask, CloseByHandle, Restart

-----------------------------------------------------------------------------
LEMMA LoserStep == ASSUME IndInv, [Next]_vars PROVE NoLingeringLoser'
<1> USE DirectoryAssumption DEF IndInv, TypeOK
<1> SUFFICES ASSUME NEW d \in Conns, cstate'[d] = "established", Unrouted(d)'
             PROVE  Pending(d)'
  BY DEF NoLingeringLoser, Unrouted
<1>0. cstate[d] = "established" /\ Unrouted(d) => Pending(d)
  BY DEF NoLingeringLoser, Unrouted
<1>1. CASE UNCHANGED vars
  BY <1>0, <1>1 DEF vars, Pending, Unrouted
<1>2. ASSUME NEW r \in Reactors, NEW c \in Conns, Dial(r, c) PROVE Pending(d)'
  BY <1>0, <1>2 DEF Dial, Pending, Unrouted
<1>3. ASSUME NEW c \in Conns, Accept(c) PROVE Pending(d)'
  BY <1>0, <1>3 DEF Accept, Pending, Unrouted
<1>4. ASSUME NEW r \in Reactors, NEW c \in Conns, NEW id \in Ids, Establish(r, c, id) PROVE Pending(d)'
  <2>1. CASE d = c
    BY <1>4, <2>1 DEF Establish, Pending, Call
  <2>2. CASE d # c
    BY <1>0, <1>4, <2>2 DEF Establish, Pending, Unrouted, Looping, Ready
  <2> QED
    BY <2>1, <2>2
<1>5. ASSUME NEW r \in Reactors, NEW c \in Conns, LinkFails(r, c) PROVE Pending(d)'
  BY <1>0, <1>5 DEF LinkFails, connVars, Pending, Unrouted
<1>6. ASSUME NEW c \in Conns, CloseByHandle(c) PROVE Pending(d)'
  BY <1>0, <1>6 DEF CloseByHandle, connVars, Pending, Unrouted
<1>7. ASSUME NEW r \in Reactors, NEW c \in Conns, RunCloseTask(r, c) PROVE Pending(d)'
  BY <1>0, <1>7 DEF RunCloseTask, connVars, Pending, Unrouted, Live
<1>8. ASSUME NEW r \in Reactors, CheckLimit(r) PROVE Pending(d)'
  <2>1. call[r].conn \in Conns /\ owner[call[r].conn] = r
    BY <1>8 DEF CheckLimit, CallOK
  <2> QED
    BY <1>0, <1>8, <2>1 DEF CheckLimit, connVars, Pending, Unrouted, Idle, Call
<1>9. ASSUME NEW r \in Reactors, TableAdd(r) PROVE Pending(d)'
  <2> DEFINE c == call[r].conn
             p == remote[c]
  <2>1. c \in Conns /\ p \in Peers /\ owner[c] = r /\ Unrouted(c)
    BY <1>9 DEF TableAdd, CallOK
  <2>2. /\ UNCHANGED <<connVars, marked, batch, tasks>>
        /\ route' = [route EXCEPT ![p] = AddRoute(p, c)]
        /\ call[r].at = "add"
        /\ call'[r].at = "close" /\ call'[r].loser = AddLoser(p, c)
        /\ \A s \in Reactors \ {r} : call'[s] = call[s]
    BY <1>9 DEF TableAdd
  <2>3. cstate[d] = "established"
    BY <2>2 DEF connVars
  <2>4. CASE d = AddLoser(p, c)
    BY <2>2, <2>4 DEF Pending
  <2>5. CASE d # AddLoser(p, c)
    <3>1. d # c
      BY <2>1, <2>2, <2>5 DEF AddRoute, AddLoser, AddResult, Unrouted
    <3>2. route[p] # d
      BY <2>1, <2>2, <2>5 DEF AddRoute, AddLoser, AddResult, Unrouted
    <3>3. Unrouted(d)
      BY <2>1, <2>2, <3>2 DEF Unrouted
    <3> QED
      BY <1>0, <2>2, <2>3, <3>1, <3>3 DEF Pending, connVars
  <2> QED
    BY <2>4, <2>5
<1>10. ASSUME NEW r \in Reactors, CloseLoser(r) PROVE Pending(d)'
  <2>1. /\ UNCHANGED <<connVars, route, batch>>
        /\ call[r].at = "close"
        /\ \A s \in Reactors \ {r} : call'[s] = call[s]
        /\ marked \subseteq marked' /\ \A s \in Reactors : tasks[s] \subseteq tasks'[s]
    BY <1>10 DEF CloseLoser, CloseFrom
  <2>2. Pending(d)
    BY <1>0, <2>1 DEF connVars, Unrouted
  <2>3. CASE call[r].loser = d
    BY <1>10, <2>1, <2>3 DEF CloseLoser, CloseFrom, Pending, Live, connVars
  <2>4. CASE call[r].loser # d
    BY <2>1, <2>2, <2>4 DEF Pending, connVars
  <2> QED
    BY <2>3, <2>4
<1>11. ASSUME NEW r \in Reactors, FireConnected(r) \/ FireDisconnected(r) PROVE Pending(d)'
  <2>1. /\ UNCHANGED <<connVars, route, marked, batch, tasks>>
        /\ call[r].at \in {"connected", "disconnected"}
        /\ \A s \in Reactors \ {r} : call'[s] = call[s]
    BY <1>11 DEF FireConnected, FireDisconnected
  <2>2. Pending(d)
    BY <1>0, <2>1 DEF connVars, Unrouted
  <2> QED
    BY <2>1, <2>2 DEF Pending, connVars
<1>12. ASSUME NEW r \in Reactors, StartTeardown(r) PROVE Pending(d)'
  BY <1>0, <1>12 DEF StartTeardown, connVars, Pending, Unrouted
<1>13. ASSUME NEW r \in Reactors, NEW c \in Conns, Remove(r, c) PROVE Pending(d)'
  <2>1. /\ d # c /\ cstate[d] = "established" /\ Unrouted(d)
        /\ call[r].at = "idle" /\ batch' = batch \ {c}
        /\ UNCHANGED <<owner, marked, tasks>>
        /\ \A s \in Reactors \ {r} : call'[s] = call[s]
    BY <1>13, RemoveCases DEF Unrouted
  <2> QED
    BY <1>0, <2>1 DEF Pending
<1>14. ASSUME NEW r \in Reactors, TableRemove(r) PROVE Pending(d)'
  <2>1. /\ UNCHANGED <<connVars, marked, batch, tasks>>
        /\ \A s \in Reactors \ {r} : call'[s] = call[s]
        /\ call[r].at = "closed"
        /\ cstate[call[r].conn] = "removed"
    BY <1>14 DEF TableRemove, CallOK
  <2>2. Unrouted(d)
    BY <1>14, <2>1 DEF TableRemove, Evicts, Unrouted, connVars
  <2> QED
    BY <1>0, <2>1, <2>2 DEF Pending, connVars
<1>15. ASSUME NEW r \in Reactors, Stop(r) PROVE Pending(d)'
  BY <1>0, <1>15 DEF Stop, connVars, Pending, Unrouted, Live
<1>16. CASE Restart
  BY <1>0, <1>16 DEF Restart, connVars, Pending, Unrouted
<1> QED
  BY <1>1, <1>2, <1>3, <1>4, <1>5, <1>6, <1>7, <1>8, <1>9, <1>10, <1>11,
     <1>12, <1>13, <1>14, <1>15, <1>16 DEF Next, DelegateStep

-----------------------------------------------------------------------------
(* IndInv is an inductive invariant of the specification.                  *)
THEOREM Inductive == Spec => []IndInv
<1>1. IndInv /\ [Next]_vars => IndInv'
  BY TypeStep, CallStep, IdStep, RouteStep, LoserStep DEF IndInv
<1> QED
  BY <1>1, InitInd, PTL DEF Spec

(* Type correctness of the directory.                                      *)
THEOREM TypeCorrect == Spec => []TypeOK
<1>1. IndInv => TypeOK
  BY DEF IndInv
<1> QED
  BY <1>1, Inductive, PTL

(* Node::send and Peer handles obtained from the table never reach a       *)
(* connection of another peer or one that is gone from its reactor.        *)
THEOREM RoutesStayLive == Spec => []RouteIsLive
<1>1. IndInv => RouteIsLive
  BY DEF IndInv
<1> QED
  BY <1>1, Inductive, PTL

(* However many reactors share the table, the loser of every duplicate is  *)
(* condemned from the moment it stops serving its peer.                    *)
THEOREM LosersCondemned == Spec => []NoLingeringLoser
<1>1. IndInv => NoLingeringLoser
  BY DEF IndInv
<1> QED
  BY <1>1, Inductive, PTL

(* The teardown of a stale connection never evicts its successor.          *)
THEOREM StaleTeardownHarmless == Spec => OnlyOwnTeardownEvicts
<1> DEFINE Evict == \A p \in Peers :
              (route[p] # None /\ route'[p] = None) => cstate[route[p]] = "removed"
<1>1. IndInv /\ [Next]_vars => [Evict]_vars
  <2> SUFFICES ASSUME IndInv, [Next]_vars PROVE Evict \/ UNCHANGED vars
    OBVIOUS
  <2> USE DirectoryAssumption DEF IndInv, TypeOK
  <2>1. ASSUME UNCHANGED route PROVE Evict
    BY <2>1
  <2>2. ASSUME NEW r \in Reactors, TableAdd(r) PROVE Evict
    <3> DEFINE c == call[r].conn
               p == remote[c]
    <3>1. c \in Conns
      BY <2>2 DEF TableAdd, CallOK
    <3>2. AddRoute(p, c) # None \/ route[p] = None
      BY <3>1 DEF AddRoute
    <3> QED
      BY <2>2, <3>2 DEF TableAdd
  <2>3. ASSUME NEW r \in Reactors, TableRemove(r) PROVE Evict
    BY <2>3 DEF TableRemove, Evicts, CallOK
  <2> QED
    BY <2>1, <2>2, <2>3 DEF Next, DelegateStep, vars, CheckLimit, CloseLoser,
       FireConnected, FireDisconnected, StartTeardown, Stop, Dial, Accept, Establish,
       LinkFails, RunCloseTask, CloseByHandle, Remove, Restart
<1> QED
  BY <1>1, Inductive, PTL DEF Spec, OnlyOwnTeardownEvicts

-----------------------------------------------------------------------------
(* With a single reactor (NodeConfig::reactor_threads = 1, the default)    *)
(* the events the application sees agree with the table.  Between the      *)
(* table update and the callback they may differ, for the peer of the      *)
(* delegate call in progress only.                                         *)

Rising(r, p) ==
    /\ remote[call[r].conn] = p
    /\ call[r].at = "connected" \/ (call[r].at = "close" /\ call[r].fresh)

Falling(r, p) == remote[call[r].conn] = p /\ call[r].at = "disconnected"

ViewInv(r) ==
    \A p \in Peers :
        /\ Rising(r, p) => route[p] # None /\ seen[p] # "connected"
        /\ Falling(r, p) => route[p] = None /\ seen[p] = "connected"
        /\ ~Rising(r, p) /\ ~Falling(r, p) =>
              ((seen[p] = "connected") <=> (route[p] # None))

LEMMA ViewStep ==
    ASSUME NEW r \in Reactors, Reactors = {r}, IndInv, ViewInv(r), [Next]_vars
    PROVE  ViewInv(r)'
<1> USE DirectoryAssumption DEF IndInv, TypeOK, ViewInv, Rising, Falling
<1>1. ASSUME UNCHANGED <<remote, route, call, seen>> PROVE ViewInv(r)'
  BY <1>1
<1>2. ASSUME NEW c \in Conns, NEW id \in Ids, Establish(r, c, id) PROVE ViewInv(r)'
  <2>1. /\ call[r].at = "idle" /\ call'[r].at = "check"
        /\ UNCHANGED <<route, seen>>
    BY <1>2 DEF Establish, Looping, Ready, Call
  <2> QED
    BY <2>1
<1>3. ASSUME CheckLimit(r) PROVE ViewInv(r)'
  <2>1. /\ call[r].at = "check" /\ call'[r].at \in {"idle", "add"}
        /\ UNCHANGED <<route, seen>>
    BY <1>3 DEF CheckLimit, Idle, Call
  <2> QED
    BY <2>1
<1>4. ASSUME TableAdd(r) PROVE ViewInv(r)'
  <2> DEFINE c == call[r].conn
             p == remote[c]
  <2>1. /\ c \in Conns /\ p \in Peers /\ c # None
        /\ call[r].at = "add"
        /\ call'[r].at = "close" /\ call'[r].conn = c
        /\ call'[r].fresh = (AddResult(p, c) = "NewPeer")
        /\ route' = [route EXCEPT ![p] = AddRoute(p, c)]
        /\ UNCHANGED <<remote, seen>>
    BY <1>4 DEF TableAdd, CallOK, connVars
  <2>2. /\ AddRoute(p, c) # None
        /\ (AddResult(p, c) = "NewPeer") <=> (route[p] = None)
    BY <2>1 DEF AddRoute, AddResult
  <2>3. \A q \in Peers : ~Rising(r, q) /\ ~Falling(r, q) /\ ~Falling(r, q)'
    BY <2>1
  <2>4. \A q \in Peers : q # p => route'[q] = route[q] /\ ~Rising(r, q)'
    BY <2>1
  <2>5. CASE route[p] = None
    <3>1. call'[r].fresh = TRUE
      BY <2>1, <2>2, <2>5
    <3> QED
      BY <2>1, <2>2, <2>3, <2>4, <2>5, <3>1
  <2>6. CASE route[p] # None
    <3>1. call'[r].fresh = FALSE
      BY <2>1, <2>2, <2>6
    <3> QED
      BY <2>1, <2>2, <2>3, <2>4, <2>6, <3>1
  <2> QED
    BY <2>5, <2>6
<1>5. ASSUME CloseLoser(r) PROVE ViewInv(r)'
  <2>1. /\ call[r].at = "close"
        /\ call[r].fresh => call'[r].at = "connected" /\ call'[r].conn = call[r].conn
        /\ ~call[r].fresh => call'[r].at = "idle"
        /\ UNCHANGED <<remote, route, seen>>
    BY <1>5 DEF CloseLoser, Idle, Call, connVars
  <2> QED
    BY <2>1
<1>6. ASSUME FireConnected(r) PROVE ViewInv(r)'
  <2>1. /\ call[r].at = "connected" /\ call'[r].at = "idle"
        /\ remote[call[r].conn] \in Peers
        /\ seen' = [seen EXCEPT ![remote[call[r].conn]] = "connected"]
        /\ UNCHANGED <<remote, route>>
    BY <1>6 DEF FireConnected, Idle, Call, connVars, CallOK
  <2> QED
    BY <2>1
<1>7. ASSUME NEW c \in Conns, Remove(r, c) PROVE ViewInv(r)'
  <2>1. /\ call[r].at = "idle"
        /\ UNCHANGED <<remote, route, seen>>
        /\ call' = call \/ call' = [call EXCEPT ![r] = Call("closed", c)]
    BY <1>7, RemoveCases
  <2>2. call'[r].at \in {"idle", "closed"}
    BY <2>1 DEF Call
  <2> QED
    BY <2>1, <2>2
<1>8. ASSUME TableRemove(r) PROVE ViewInv(r)'
  <2> DEFINE c == call[r].conn
             p == remote[c]
  <2>1. /\ call[r].at = "closed" /\ c \in Conns /\ c # None
        /\ UNCHANGED <<remote, seen>>
    BY <1>8 DEF TableRemove, CallOK, connVars
  <2>2. CASE Evicts(p, c)
    <3>1. /\ route' = [route EXCEPT ![p] = None] /\ p \in Peers /\ route[p] # None
          /\ call'[r].at = "disconnected" /\ call'[r].conn = c
      BY <1>8, <2>1, <2>2 DEF TableRemove, Evicts, Call
    <3> QED
      BY <2>1, <3>1
  <2>3. CASE ~Evicts(p, c)
    <3>1. route' = route /\ call'[r].at = "idle"
      BY <1>8, <2>3 DEF TableRemove, Idle, Call
    <3> QED
      BY <2>1, <3>1
  <2> QED
    BY <2>2, <2>3
<1>9. ASSUME FireDisconnected(r) PROVE ViewInv(r)'
  <2>1. /\ call[r].at = "disconnected" /\ call'[r].at = "idle"
        /\ remote[call[r].conn] \in Peers
        /\ seen' = [seen EXCEPT ![remote[call[r].conn]] = "disconnected"]
        /\ UNCHANGED <<remote, route>>
    BY <1>9 DEF FireDisconnected, Idle, Call, connVars, CallOK
  <2> QED
    BY <2>1
<1> QED
  BY <1>1, <1>2, <1>3, <1>4, <1>5, <1>6, <1>7, <1>8, <1>9 DEF Next, DelegateStep, vars,
     connVars, Dial, Accept, LinkFails, RunCloseTask, CloseByHandle, StartTeardown,
     Stop, Restart

(* Default configuration: with one reactor thread, whenever no delegate    *)
(* call is in progress the last event fired for a peer tells whether the   *)
(* peer is in the table, for any number of peers and connections.          *)
THEOREM SingleReactorView ==
    ASSUME NEW r \in Reactors, Reactors = {r}
    PROVE  Spec => []AppViewSettled
<1>1. Init => ViewInv(r)
  BY DEF Init, ViewInv, Rising, Falling, Idle, Call
<1>2. IndInv /\ ViewInv(r) /\ [Next]_vars => ViewInv(r)'
  BY ViewStep
<1>3. ViewInv(r) => AppViewSettled
  BY DEF ViewInv, Rising, Falling, AppViewSettled, Ready
<1> QED
  BY <1>1, <1>2, <1>3, Inductive, PTL DEF Spec

-----------------------------------------------------------------------------
(* Two nodes.                                                              *)

(* A node has dialed one link at most.                                     *)
OneDialEach == \A k, l \in Links : dialer[k] = dialer[l] /\ dialer[k] # NoLink => k = l

(* A link has ends once it is dialed; the table names an established one.  *)
EndsMade ==
    /\ cut = {}
    /\ \A l \in Links, n \in Nodes : dialer[l] = NoLink <=> end[l][n] = "none"
    /\ \A n \in Nodes : \A l \in closing[n] : dialer[l] # NoLink
    /\ \A l \in Links, n \in Nodes : end[l][n] = "established" => n \in done[l]
    /\ \A n \in Nodes : table[n] # NoLink => end[table[n]][n] = "established"

(* The link the smaller id dialed is never given up, and routed to as soon *)
(* as it is established.                                                   *)
SmallWins ==
    \A l \in Links, n \in Nodes :
        dialer[l] = Small => /\ end[l][n] # "gone" /\ l \notin closing[n]
                             /\ end[l][n] = "established" => table[n] = l

(* The link the larger id dialed gives way, but only to that one.          *)
LargeYields ==
    \A l \in Links, n \in Nodes :
        dialer[l] = Large => /\ end[l][n] = "established" => table[n] = l \/ l \in closing[n]
                             /\ end[l][n] = "gone" \/ l \in closing[n] => \E k \in Links : dialer[k] = Small

LinksInv == LinksTypeOK /\ OneDialEach /\ (crashes = 0 => EndsMade /\ SmallWins /\ LargeYields)

LEMMA LinksInitInv == LinksInit => LinksInv
  BY LinksAssumption
     DEF LinksInit, LinksInv, LinksTypeOK, OneDialEach, EndsMade, SmallWins, LargeYields, Nodes

LEMMA NodesAreTwo ==
    /\ Small \in Nodes /\ Large \in Nodes
    /\ \A n \in Nodes : Other(n) \in Nodes /\ (n = Small \/ n = Large)
  BY DEF Nodes, Other

(* A node dials only while it has dialed none.                             *)
LEMMA DialsOnce ==
    ASSUME LinksInv, \A n \in Nodes : DialsOf[n] <= 1, NEW n \in Nodes, NEW l \in Links, DialLink(n, l)
    PROVE  \A k \in Links : dialer[k] # n
  <1> SUFFICES ASSUME NEW k \in Links, dialer[k] = n PROVE FALSE
    OBVIOUS
  <1>1. {j \in Links : dialer[j] = n} = {k}
    BY LinksAssumption DEF LinksInv, LinksTypeOK, OneDialEach, Nodes
  <1>2. Cardinality({k}) = 1
    BY FS_Singleton
  <1>3. DialsOf[n] \in Nat
    BY LinksAssumption
  <1> QED
    BY <1>1, <1>2, <1>3 DEF DialLink

LEMMA DialKeeps ==
    ASSUME LinksInv, \A n \in Nodes : DialsOf[n] <= 1, NEW n \in Nodes, NEW l \in Links, DialLink(n, l)
    PROVE  LinksInv'
  <1>1. \A k \in Links : dialer[k] # n
    BY DialsOnce
  <1>2. /\ dialer' = [dialer EXCEPT ![l] = n] /\ end' = [end EXCEPT ![l] = [m \in Nodes |-> "opening"]]
        /\ dialer[l] = NoLink /\ UNCHANGED <<initiatorFirst, done, cut, table, closing, crashes>>
    BY DEF DialLink
  <1>4. LinksTypeOK'
    BY <1>2 DEF LinksInv, LinksTypeOK
  <1>5. OneDialEach'
    BY <1>1, <1>2 DEF LinksInv, LinksTypeOK, OneDialEach
  <1>6. ASSUME crashes = 0 PROVE EndsMade'
    BY <1>2, <1>6, LinksAssumption DEF LinksInv, LinksTypeOK, EndsMade
  <1>7. ASSUME crashes = 0 PROVE SmallWins' /\ LargeYields'
    <2>1. /\ EndsMade /\ SmallWins /\ LargeYields /\ Small # NoLink /\ Large # NoLink
          /\ \A k \in Links : dialer'[k] = IF k = l THEN n ELSE dialer[k]
          /\ \A k \in Links, m \in Nodes : end'[k][m] = IF k = l THEN "opening" ELSE end[k][m]
      BY <1>2, <1>7, LinksAssumption DEF LinksInv, LinksTypeOK, Nodes
    <2>2. \A m \in Nodes : l \notin closing[m]
      BY <1>2, <2>1 DEF EndsMade
    <2>3. SmallWins'
      BY <1>2, <2>1, <2>2 DEF SmallWins
    <2>4. LargeYields'
      BY <1>2, <2>1, <2>2 DEF LargeYields
    <2> QED
      BY <2>3, <2>4
  <1> QED
    BY <1>2, <1>4, <1>5, <1>6, <1>7 DEF LinksInv

LEMMA EstablishKeeps ==
    ASSUME LinksInv, NEW n \in Nodes, NEW l \in Links, EstablishLink(n, l)
    PROVE  LinksInv'
  <1> DEFINE cur == table[n]
             new == cur = NoLink \/ KeepNew(RoleOf(n, cur), RoleOf(n, l), PreferOutbound(n))
             loser == IF ~new THEN l ELSE cur
  <1>1. /\ end[l][n] = "opening" /\ l \notin closing[n]
        /\ end' = [end EXCEPT ![l][n] = "established"]
        /\ done' = [done EXCEPT ![l] = @ \cup {n}]
        /\ table' = [table EXCEPT ![n] = IF new THEN l ELSE cur]
        /\ closing' = IF loser = NoLink THEN closing ELSE [closing EXCEPT ![n] = @ \cup {loser}]
        /\ UNCHANGED <<initiatorFirst, dialer, cut, crashes>>
    BY DEF EstablishLink, HandshakeEnds
  <1>2. /\ table[n] \in Links \cup {NoLink} /\ end[l] \in [Nodes -> {"none", "opening", "established", "gone"}]
        /\ closing[n] \subseteq Links /\ done[l] \subseteq Nodes
    BY DEF LinksInv, LinksTypeOK
  <1>3. LinksTypeOK' /\ OneDialEach'
    <2>1. loser \in Links \cup {NoLink}
      BY <1>2
    <2>2. end' \in [Links -> [Nodes -> {"none", "opening", "established", "gone"}]]
      BY <1>1, <1>2 DEF LinksInv, LinksTypeOK
    <2>3. closing' \in [Nodes -> SUBSET Links]
      BY <1>1, <1>2, <2>1 DEF LinksInv, LinksTypeOK
    <2>4. table' \in [Nodes -> Links \cup {NoLink}] /\ done' \in [Links -> SUBSET Nodes]
      BY <1>1, <1>2 DEF LinksInv, LinksTypeOK
    <2> QED
      BY <1>1, <2>2, <2>3, <2>4 DEF LinksInv, LinksTypeOK, OneDialEach
  <1>4. ASSUME crashes = 0 PROVE EndsMade' /\ SmallWins' /\ LargeYields'
    <2> USE <1>4
    <2>0. EndsMade /\ SmallWins /\ LargeYields
      BY DEF LinksInv
    <2>1. dialer[l] \in {Small, Large} /\ dialer[l] # NoLink
      BY <1>1, <2>0, LinksAssumption DEF EndsMade, LinksInv, LinksTypeOK, Nodes
    <2>2. cur # NoLink => /\ cur \in Links /\ cur # l /\ end[cur][n] = "established"
                          /\ dialer[cur] \in {Small, Large} \ {dialer[l]}
      BY <1>1, <1>2, <2>0, <2>1, LinksAssumption DEF EndsMade, LinksInv, LinksTypeOK, OneDialEach, Nodes
    <2>3. dialer[l] = Small => new
      BY <2>2, LinksAssumption
         DEF KeepNew, SurvivingRole, RoleOf, PreferOutbound, Nodes
    <2>4. dialer[l] = Large /\ cur # NoLink => ~new /\ dialer[cur] = Small
      BY <2>2, LinksAssumption
         DEF KeepNew, SurvivingRole, RoleOf, PreferOutbound, Nodes
    <2>5. /\ \A k \in Links, m \in Nodes : end'[k][m] = IF k = l /\ m = n THEN "established" ELSE end[k][m]
          /\ \A k \in Links : done[k] \subseteq done'[k]
          /\ n \in done'[l]
          /\ \A m \in Nodes : table'[m] = IF m = n THEN (IF new THEN l ELSE cur) ELSE table[m]
          /\ \A m \in Nodes : closing'[m] = IF m = n /\ loser # NoLink THEN closing[n] \cup {loser} ELSE closing[m]
      BY <1>1, <1>2 DEF LinksInv, LinksTypeOK
    <2>6. loser # NoLink => loser \in Links /\ dialer[loser] = Large /\ \E k \in Links : dialer[k] = Small
      BY <2>1, <2>2, <2>3, <2>4, LinksAssumption
    <2> HIDE DEF new, loser, cur
    <2>7. EndsMade'
      <3>1. \A m \in Nodes : table'[m] # NoLink => end'[table'[m]][m] = "established"
        <4> SUFFICES ASSUME NEW m \in Nodes, table'[m] # NoLink PROVE end'[table'[m]][m] = "established"
          OBVIOUS
        <4>1. table[m] \in Links \cup {NoLink}
          BY DEF LinksInv, LinksTypeOK
        <4> QED
          BY <2>0, <2>2, <2>5, <4>1 DEF EndsMade, cur
      <3>2. /\ cut' = {}
            /\ \A k \in Links, m \in Nodes : dialer'[k] = NoLink <=> end'[k][m] = "none"
        BY <1>1, <2>0, <2>1, <2>5 DEF EndsMade
      <3>3. \A m \in Nodes : \A k \in closing'[m] : dialer'[k] # NoLink
        BY <1>1, <2>0, <2>5, <2>6, LinksAssumption DEF EndsMade, Nodes
      <3>4. \A k \in Links, m \in Nodes : end'[k][m] = "established" => m \in done'[k]
        BY <2>0, <2>5 DEF EndsMade
      <3> QED
        BY <3>1, <3>2, <3>3, <3>4 DEF EndsMade
    <2>8. SmallWins'
      BY <1>1, <2>0, <2>1, <2>2, <2>3, <2>5, <2>6, LinksAssumption DEF SmallWins, EndsMade, cur, loser, Nodes
    <2>9. LargeYields'
      BY <1>1, <2>0, <2>1, <2>2, <2>3, <2>4, <2>5, <2>6, LinksAssumption DEF LargeYields, EndsMade, cur, loser, Nodes
    <2> QED
      BY <2>7, <2>8, <2>9
  <1> QED
    BY <1>1, <1>3, <1>4 DEF LinksInv

LEMMA OthersKeep ==
    ASSUME LinksInv, NEW n \in Nodes,
           (\E l \in Links : HangUp(n, l)) \/ TeardownLinks(n) \/ Crash(n)
    PROVE  LinksInv'
  <1>1. ASSUME NEW l \in Links, HangUp(n, l) PROVE LinksInv'
    <2>1. /\ end[l][n] \in {"opening", "established"} /\ end[l][Other(n)] = "gone"
          /\ closing' = [closing EXCEPT ![n] = @ \cup {l}]
          /\ UNCHANGED <<initiatorFirst, dialer, end, done, cut, table, crashes>>
      BY <1>1 DEF HangUp, FinArrives
    <2>2. LinksTypeOK' /\ OneDialEach'
      BY <2>1 DEF LinksInv, LinksTypeOK, OneDialEach
    <2>3. ASSUME crashes = 0 PROVE EndsMade' /\ SmallWins' /\ LargeYields'
      <3>1. EndsMade /\ SmallWins /\ LargeYields /\ Other(n) \in Nodes
        BY <2>3, NodesAreTwo DEF LinksInv
      <3>2. dialer[l] = Large /\ \E k \in Links : dialer[k] = Small
        BY <2>1, <3>1, LinksAssumption DEF EndsMade, SmallWins, LargeYields, LinksInv, LinksTypeOK, Nodes
      <3>3. \A m \in Nodes : closing'[m] = IF m = n THEN closing[m] \cup {l} ELSE closing[m]
        BY <2>1 DEF LinksInv, LinksTypeOK
      <3> QED
        BY <2>1, <3>1, <3>2, <3>3, LinksAssumption DEF EndsMade, SmallWins, LargeYields, Nodes
    <2> QED
      BY <2>1, <2>2, <2>3 DEF LinksInv
  <1>2. ASSUME TeardownLinks(n) PROVE LinksInv'
    <2>1. /\ end' = [l \in Links |-> IF l \in closing[n] THEN [end[l] EXCEPT ![n] = "gone"] ELSE end[l]]
          /\ table' = [table EXCEPT ![n] = IF @ \in closing[n] THEN NoLink ELSE @]
          /\ closing' = [closing EXCEPT ![n] = {}]
          /\ UNCHANGED <<initiatorFirst, dialer, done, cut, crashes>>
      BY <1>2 DEF TeardownLinks
    <2>2. /\ \A l \in Links, m \in Nodes : end'[l][m] = IF m = n /\ l \in closing[n] THEN "gone" ELSE end[l][m]
          /\ \A m \in Nodes : table'[m] = IF m = n /\ table[n] \in closing[n] THEN NoLink ELSE table[m]
          /\ \A m \in Nodes : closing'[m] = IF m = n THEN {} ELSE closing[m]
      BY <2>1 DEF LinksInv, LinksTypeOK
    <2>3. LinksTypeOK' /\ OneDialEach'
      <3>1. end' \in [Links -> [Nodes -> {"none", "opening", "established", "gone"}]]
        BY <2>1 DEF LinksInv, LinksTypeOK
      <3>2. table' \in [Nodes -> Links \cup {NoLink}]
        BY <2>1 DEF LinksInv, LinksTypeOK
      <3> QED
        BY <2>1, <3>1, <3>2 DEF LinksInv, LinksTypeOK, OneDialEach
    <2>4. ASSUME crashes = 0 PROVE EndsMade' /\ SmallWins' /\ LargeYields'
      <3>1. EndsMade /\ SmallWins /\ LargeYields /\ closing \in [Nodes -> SUBSET Links]
            /\ table \in [Nodes -> Links \cup {NoLink}]
        BY <2>4 DEF LinksInv, LinksTypeOK
      <3>2. EndsMade'
        BY <2>1, <2>2, <3>1 DEF EndsMade
      <3>3. SmallWins' /\ LargeYields'
        BY <2>1, <2>2, <3>1 DEF SmallWins, LargeYields
      <3> QED
        BY <3>2, <3>3
    <2> QED
      BY <2>1, <2>3, <2>4 DEF LinksInv
  <1>3. ASSUME Crash(n) PROVE LinksInv'
    <2>1. crashes' # 0 /\ crashes' \in 0..MaxCrashes
      BY <1>3, LinksAssumption DEF Crash, LinksInv, LinksTypeOK
    <2>2. end' \in [Links -> [Nodes -> {"none", "opening", "established", "gone"}]]
      BY <1>3 DEF Crash, LinksInv, LinksTypeOK
    <2>3. LinksTypeOK' /\ OneDialEach'
      BY <1>3, <2>1, <2>2 DEF Crash, LinksInv, LinksTypeOK, OneDialEach
    <2> QED
      BY <2>1, <2>3 DEF LinksInv
  <1> QED
    BY <1>1, <1>2, <1>3

(* When nothing is under way, the handshakes of a link nobody gives up are *)
(* done.                                                                   *)
LEMMA QuietLinkIsUp ==
    ASSUME LinksInv, crashes = 0, Quiet, NEW l \in Links, dialer[l] # NoLink,
           \A n \in Nodes : end[l][n] # "gone" /\ l \notin closing[n]
    PROVE  \A n \in Nodes : end[l][n] = "established"
  <1>1. /\ EndsMade /\ dialer[l] \in Nodes /\ First(l) \in Nodes
        /\ \A n \in Nodes : end[l][n] \in {"opening", "established"}
    <2>1. EndsMade /\ dialer[l] \in Nodes
      BY DEF LinksInv, LinksTypeOK
    <2>2. First(l) \in Nodes
      BY <2>1, NodesAreTwo DEF First
    <2>3. \A n \in Nodes : end[l][n] \in {"none", "opening", "established", "gone"}
      BY DEF LinksInv, LinksTypeOK
    <2> QED
      BY <2>1, <2>2, <2>3 DEF EndsMade
  <1>2. \A n \in Nodes : ~HandshakeEnds(n, l)
    BY DEF Quiet
  <1>3. end[l][First(l)] = "established" /\ First(l) \in done[l]
    BY <1>1, <1>2 DEF EndsMade, HandshakeEnds
  <1> QED
    BY <1>1, <1>2, <1>3 DEF EndsMade, HandshakeEnds

(* "both converge on the same one": two nodes that dial each other once at *)
(* most come to rest on one connection, with any handshake order.          *)
THEOREM CrossDialsConverge ==
    ASSUME \A n \in Nodes : DialsOf[n] <= 1
    PROVE  LinksSpec => []Converged
  <1>1. LinksInv /\ [LinksNext]_linksVars => LinksInv'
    <2> SUFFICES ASSUME LinksInv, [LinksNext]_linksVars PROVE LinksInv'
      OBVIOUS
    <2>1. CASE \E n \in Nodes, l \in Links : DialLink(n, l)
      BY <2>1, DialKeeps
    <2>2. CASE \E n \in Nodes, l \in Links : EstablishLink(n, l)
      BY <2>2, EstablishKeeps
    <2>3. CASE \E n \in Nodes : (\E l \in Links : HangUp(n, l)) \/ TeardownLinks(n) \/ Crash(n)
      BY <2>3, OthersKeep
    <2>4. CASE UNCHANGED linksVars
      BY <2>4 DEF linksVars, LinksInv, LinksTypeOK, OneDialEach, EndsMade, SmallWins, LargeYields
    <2> QED
      BY <2>1, <2>2, <2>3, <2>4 DEF LinksNext
  <1>2. LinksInv => Converged
    <2> SUFFICES ASSUME LinksInv, Quiet, Dialed # {}, crashes = 0
                 PROVE  /\ table[Small] = table[Large] /\ table[Small] # NoLink
                        /\ \A l \in Links, n \in Nodes : end[l][n] = "established" => l = table[n]
      BY DEF Converged
    <2>1. EndsMade /\ SmallWins /\ LargeYields /\ \A n \in Nodes : closing[n] = {}
      <3>1. PICK l \in Links : dialer[l] # NoLink
        BY DEF Dialed
      <3> QED
        BY <3>1 DEF LinksInv, Quiet
    <2>2. PICK l \in Links : /\ dialer[l] # NoLink
                             /\ \A n \in Nodes : end[l][n] # "gone" /\ (end[l][n] = "established" => table[n] = l)
      <3>1. CASE \E k \in Links : dialer[k] = Small
        BY <2>1, <3>1, LinksAssumption DEF SmallWins, Nodes
      <3>2. CASE ~\E k \in Links : dialer[k] = Small
        <4>1. PICK k \in Links : dialer[k] # NoLink
          BY DEF Dialed
        <4>2. dialer[k] = Large
          BY <3>2, <4>1 DEF LinksInv, LinksTypeOK, Nodes
        <4> QED
          BY <2>1, <3>2, <4>1, <4>2 DEF LargeYields
      <3> QED
        BY <3>1, <3>2
    <2>3. \A n \in Nodes : table[n] = l
      BY <2>1, <2>2, QuietLinkIsUp
    <2>4. ASSUME NEW k \in Links, NEW n \in Nodes, end[k][n] = "established" PROVE k = table[n]
      <3>1. dialer[k] \in {Small, Large}
        BY <2>1, <2>4 DEF EndsMade, LinksInv, LinksTypeOK, Nodes
      <3> QED
        BY <2>1, <2>4, <3>1 DEF SmallWins, LargeYields
    <2> QED
      BY <2>3, <2>4, NodesAreTwo, LinksAssumption
  <1> QED
    BY <1>1, <1>2, LinksInitInv, PTL DEF LinksSpec

(* Two ends of a connection.                                               *)

(* The blocks of e in the order it makes them: its handshake messages, of  *)
(* which there are Greetings(e), and its frames.                           *)
Greetings(e) == IF e = "out" THEN 2 ELSE 1
Blocks(e) == (IF e = "out" THEN {-1, -3} ELSE {-2}) \cup (Nat \ {0})
Index(e, m) == IF m > 0 THEN m + Greetings(e) ELSE IF m = -3 THEN 2 ELSE 1

(* s holds units o + 1, o + 2, ... of what e says.                         *)
Stretch(e, s, o) ==
    \A i \in 1..Len(s) :
        s[i][1] \in Blocks(e) /\ s[i][2] \in {1, 2} /\ 2 * Index(e, s[i][1]) + s[i][2] = o + i + 2

(* The units that e has said and consumed while it is open.  Handshaking   *)
(* does not tell whether the responder has answered the first message.     *)
SaidBy(e, answered) ==
    IF state[e] = "Established" THEN 2 * (Greetings(e) + sent[e])
    ELSE IF state[e] = "Handshaking" /\ (e = "out" \/ answered) THEN 2 ELSE 0
ReadBy(e, answered) ==
    IF state[e] = "Established" THEN 2 * (Greetings(Peer(e)) + got[e])
    ELSE IF state[e] = "Handshaking" /\ e = "in" /\ answered THEN 2 ELSE 0

(* Read, received, in the kernel and in the backlog are one run of units.  *)
InOrder(e, o, r, p, t) ==
    Stretch(e, r, o) /\ Stretch(e, p, o + Len(r)) /\ Stretch(e, t, o + Len(r) + Len(p))

(* The direction from e to an open end; nothing is missing while e is open *)
(* too.                                                                    *)
Way(e, answered) ==
    LET o == ReadBy(Peer(e), answered) IN
    /\ InOrder(e, o, rx[Peer(e)], pipe[e], tx[e])
    /\ ~Shut(e) => o + Len(rx[Peer(e)]) + Len(pipe[e]) + Len(tx[e]) = SaidBy(e, answered)

Gapless(answered) == \A e \in Ends : ~Shut(Peer(e)) => Way(e, answered)

Units == Int \X {1, 2}
StreamTypes ==
    /\ state \in [Ends -> {"Connecting", "Handshaking", "Established", "Closing", "Closed"}]
    /\ rx \in [Ends -> Seq(Units)] /\ pipe \in [Ends -> Seq(Units)] /\ tx \in [Ends -> Seq(Units)]
    /\ sent \in [Ends -> Nat] /\ got \in [Ends -> Nat]
    /\ fin \in [Ends -> BOOLEAN] /\ rst \in [Ends -> BOOLEAN]
    /\ \A e \in Ends : Len(pipe[e]) <= PipeCapacity

(* Only a closed end was reset, and frames come after the handshake.       *)
Phases ==
    \A e \in Ends :
        /\ fin[e] \/ rst[e] => Shut(e)
        /\ state[e] \in {"Connecting", "Handshaking"} => sent[e] = 0 /\ got[e] = 0

StreamInv == StreamTypes /\ Phases /\ \E answered \in BOOLEAN : Gapless(answered)

LEMMA EndsAreTwo ==
    \A e \in Ends : Peer(e) \in Ends /\ Peer(e) # e /\ Peer(Peer(e)) = e /\ (\A f \in Ends : f = e \/ f = Peer(e))
  BY DEF Ends, Peer

LEMMA StretchCat ==
    ASSUME NEW e, NEW o \in Nat, NEW s \in Seq(Units), NEW t \in Seq(Units),
           Stretch(e, s, o), Stretch(e, t, o + Len(s))
    PROVE  s \o t \in Seq(Units) /\ Len(s \o t) = Len(s) + Len(t) /\ Stretch(e, s \o t, o)
  <1>1. s \o t \in Seq(Units) /\ Len(s \o t) = Len(s) + Len(t)
    OBVIOUS
  <1>2. ASSUME NEW i \in 1..Len(s \o t)
        PROVE  (s \o t)[i] = IF i <= Len(s) THEN s[i] ELSE t[i - Len(s)]
    OBVIOUS
  <1> HIDE DEF Index, Blocks
  <1> DEFINE W == s \o t
  <1>3. ASSUME NEW i \in 1..Len(W)
        PROVE  W[i][1] \in Blocks(e) /\ W[i][2] \in {1, 2} /\ 2 * Index(e, W[i][1]) + W[i][2] = o + i + 2
    <2>1. CASE i <= Len(s)
      <3>1. W[i] = s[i] /\ i \in 1..Len(s)
        BY <2>1, <1>2
      <3> QED
        BY <3>1 DEF Stretch
    <2>2. CASE ~(i <= Len(s))
      <3>1. W[i] = t[i - Len(s)] /\ i - Len(s) \in 1..Len(t)
        BY <2>2, <1>1, <1>2
      <3>2. o + Len(s) + (i - Len(s)) + 2 = o + i + 2
        OBVIOUS
      <3> QED
        BY <3>1, <3>2 DEF Stretch
    <2> QED
      BY <2>1, <2>2
  <1> QED
    BY <1>1, <1>3 DEF Stretch

LEMMA StretchCut ==
    ASSUME NEW e, NEW o \in Nat, NEW s \in Seq(Units), NEW k \in 0..Len(s), Stretch(e, s, o)
    PROVE  /\ SubSeq(s, 1, k) \in Seq(Units) /\ Len(SubSeq(s, 1, k)) = k /\ Stretch(e, SubSeq(s, 1, k), o)
           /\ SubSeq(s, k + 1, Len(s)) \in Seq(Units) /\ Len(SubSeq(s, k + 1, Len(s))) = Len(s) - k
           /\ Stretch(e, SubSeq(s, k + 1, Len(s)), o + k)
  <1>1. SubSeq(s, 1, k) \in Seq(Units) /\ Len(SubSeq(s, 1, k)) = k
        /\ \A i \in 1..k : SubSeq(s, 1, k)[i] = s[i] /\ i \in 1..Len(s)
    OBVIOUS
  <1>2. SubSeq(s, k + 1, Len(s)) \in Seq(Units) /\ Len(SubSeq(s, k + 1, Len(s))) = Len(s) - k
        /\ \A i \in 1..(Len(s) - k) : SubSeq(s, k + 1, Len(s))[i] = s[k + i] /\ k + i \in 1..Len(s)
    OBVIOUS
  <1>3. Stretch(e, SubSeq(s, 1, k), o)
    BY <1>1 DEF Stretch
  <1>4. Stretch(e, SubSeq(s, k + 1, Len(s)), o + k)
    <2> DEFINE W == SubSeq(s, k + 1, Len(s))
    <2> SUFFICES ASSUME NEW i \in 1..Len(W)
                 PROVE  W[i][1] \in Blocks(e) /\ W[i][2] \in {1, 2} /\ 2 * Index(e, W[i][1]) + W[i][2] = (o + k) + i + 2
      BY DEF Stretch
    <2>1. W[i] = s[k + i] /\ k + i \in 1..Len(s) /\ o + (k + i) + 2 = (o + k) + i + 2
      BY <1>2
    <2> QED
      BY <2>1 DEF Stretch
  <1> QED
    BY <1>1, <1>2, <1>3, <1>4

(* The frames whose last unit is one of units o + 1 to z of what e says.   *)
Window(e, o, z) == {n \in Nat \ {0} : o < 2 * (Greetings(e) + n) /\ 2 * (Greetings(e) + n) <= z}

LEMMA StretchFrames ==
    ASSUME NEW e \in Ends, NEW o \in Nat, NEW s \in Seq(Units), Stretch(e, s, o)
    PROVE  Frames(s) = Window(e, o, o + Len(s))
  <1>1. ASSUME NEW n \in Frames(s) PROVE n \in Window(e, o, o + Len(s))
    <2>1. PICK i \in 1..Len(s) : s[i][1] > 0 /\ s[i][2] = 2 /\ n = s[i][1]
      BY DEF Frames
    <2>2. n \in Nat \ {0} /\ 2 * (n + Greetings(e)) + 2 = o + i + 2
      BY <2>1 DEF Stretch, Blocks, Index
    <2> QED
      BY <2>2 DEF Window, Greetings
  <1>2. ASSUME NEW n \in Window(e, o, o + Len(s)) PROVE n \in Frames(s)
    <2> DEFINE i == 2 * (Greetings(e) + n) - o
    <2>1. i \in 1..Len(s) /\ n \in Nat \ {0}
      BY DEF Window, Greetings
    <2>2. s[i][1] \in Blocks(e) /\ s[i][2] \in {1, 2} /\ 2 * Index(e, s[i][1]) + s[i][2] = 2 * (Greetings(e) + n) + 2
      <3>1. o + i + 2 = 2 * (Greetings(e) + n) + 2
        BY <2>1 DEF Greetings
      <3> HIDE DEF i
      <3> QED
        BY <2>1, <3>1 DEF Stretch
    <2> HIDE DEF i
    <2>3. s[i][1] = n /\ s[i][2] = 2
      BY <2>1, <2>2 DEF Blocks, Index, Greetings
    <2> QED
      BY <2>1, <2>3 DEF Frames
  <1> QED
    BY <1>1, <1>2

(* Where the units end that can still reach an open peer of e.             *)
Limit(e, answered) ==
    IF Shut(e) THEN ReadBy(Peer(e), answered) + Len(rx[Peer(e)]) + Len(pipe[e]) ELSE SaidBy(e, answered)

LEMMA ReadIsNat ==
    ASSUME StreamTypes, NEW w \in BOOLEAN, NEW e \in Ends
    PROVE  ReadBy(e, w) \in Nat /\ SaidBy(e, w) \in Nat
  <1>1. sent[e] \in Nat /\ got[e] \in Nat /\ Greetings(e) \in Nat /\ Greetings(Peer(e)) \in Nat
    BY DEF StreamTypes, Greetings
  <1> QED
    BY <1>1 DEF ReadBy, SaidBy

(* The frames under way, by number: those after the last delivered one, up *)
(* to the limit.                                                           *)
LEMMA UndeliveredIs ==
    ASSUME StreamTypes, Phases, NEW w \in BOOLEAN, Gapless(w), NEW e \in Ends, ~Shut(Peer(e))
    PROVE  /\ Undelivered(e) = {n \in Nat \ {0} : n > got[Peer(e)] /\ 2 * (Greetings(e) + n) <= Limit(e, w)}
           /\ Frames(rx[Peer(e)]) \cup Frames(pipe[e])
                = {n \in Nat \ {0} : n > got[Peer(e)] /\
                     2 * (Greetings(e) + n) <= ReadBy(Peer(e), w) + Len(rx[Peer(e)]) + Len(pipe[e])}
  <1> DEFINE o == ReadBy(Peer(e), w)  r == rx[Peer(e)]  p == pipe[e]  t == tx[e]
             z == o + Len(r) + Len(p)
  <1>1. o \in Nat /\ r \in Seq(Units) /\ p \in Seq(Units) /\ t \in Seq(Units) /\ Peer(e) \in Ends
    BY ReadIsNat, EndsAreTwo DEF StreamTypes
  <1>2. Len(r) \in Nat /\ Len(p) \in Nat /\ Len(t) \in Nat
    BY <1>1
  <1>3. Stretch(e, r, o) /\ Stretch(e, p, o + Len(r)) /\ Stretch(e, t, z)
    BY DEF Gapless, Way, InOrder
  <1>4. ~Shut(e) => z + Len(t) = SaidBy(e, w)
    BY DEF Gapless, Way
  <1>5. \A n \in Nat \ {0} : o < 2 * (Greetings(e) + n) <=> n > got[Peer(e)]
    <2>1. Greetings(Peer(Peer(e))) = Greetings(e) /\ got[Peer(e)] \in Nat /\ Greetings(e) \in {1, 2}
          /\ (Peer(e) = "in" => e = "out")
      BY EndsAreTwo, <1>1 DEF StreamTypes, Greetings, Peer, Ends
    <2>2. CASE state[Peer(e)] = "Established"
      BY <2>1, <2>2 DEF ReadBy
    <2>3. CASE state[Peer(e)] # "Established"
      <3>1. got[Peer(e)] = 0
        BY <2>3, <1>1 DEF Phases, Shut, StreamTypes
      <3>2. o = 0 \/ (o = 2 /\ Greetings(e) = 2)
        BY <2>3, <2>1 DEF ReadBy, Greetings
      <3> QED
        BY <3>1, <3>2, <2>1
    <2> QED
      BY <2>2, <2>3
  <1> HIDE DEF o, r, p, t
  <1>6. Frames(r) = Window(e, o, o + Len(r)) /\ Frames(p) = Window(e, o + Len(r), z) /\ Frames(t) = Window(e, z, z + Len(t))
    BY <1>1, <1>2, <1>3, StretchFrames
  <1>7. Greetings(e) \in Nat
    BY DEF Greetings
  <1>10. Frames(r) \cup Frames(p) = {n \in Nat \ {0} : n > got[Peer(e)] /\ 2 * (Greetings(e) + n) <= z}
    <2>1. Frames(r) \cup Frames(p) = {n \in Nat \ {0} : o < 2 * (Greetings(e) + n) /\ 2 * (Greetings(e) + n) <= z}
      BY <1>1, <1>2, <1>6, <1>7 DEF Window
    <2> QED
      BY <2>1, <1>5
  <1>8. ASSUME Shut(e)
        PROVE  Undelivered(e) = {n \in Nat \ {0} : n > got[Peer(e)] /\ 2 * (Greetings(e) + n) <= Limit(e, w)}
    <2>1. Undelivered(e) = Frames(r) \cup Frames(p)
      BY <1>8 DEF Undelivered, r, p
    <2>2. Limit(e, w) = z
      BY <1>8 DEF Limit, o, r, p
    <2> QED
      BY <2>1, <2>2, <1>10
  <1>9. ASSUME ~Shut(e)
        PROVE  Undelivered(e) = {n \in Nat \ {0} : n > got[Peer(e)] /\ 2 * (Greetings(e) + n) <= Limit(e, w)}
    <2>1. Undelivered(e) = Frames(r) \cup Frames(p) \cup Frames(t)
      BY <1>9 DEF Undelivered, r, p, t
    <2>2. Limit(e, w) = z + Len(t)
      BY <1>9, <1>4 DEF Limit
    <2>3. Frames(r) \cup Frames(p) \cup Frames(t)
            = {n \in Nat \ {0} : o < 2 * (Greetings(e) + n) /\ 2 * (Greetings(e) + n) <= z + Len(t)}
      BY <1>1, <1>2, <1>6, <1>7 DEF Window
    <2> QED
      BY <2>1, <2>2, <2>3, <1>5
  <1> QED
    BY <1>8, <1>9, <1>10 DEF o, r, p

LEMMA StreamInit == ConnInit => StreamInv
  <1> SUFFICES ASSUME ConnInit PROVE StreamInv
    OBVIOUS
  <1>1. StreamTypes
    BY ConnectionAssumption DEF ConnInit, StreamTypes
  <1>2. Phases
    BY DEF ConnInit, Phases
  <1>3. Gapless(FALSE)
    <2> SUFFICES ASSUME NEW e \in Ends PROVE Way(e, FALSE)
      BY DEF Gapless
    <2>1. /\ rx[Peer(e)] = <<>> /\ pipe[e] = <<>> /\ tx[e] = <<>>
          /\ state[e] = "Connecting" /\ state[Peer(e)] = "Connecting"
      BY EndsAreTwo DEF ConnInit
    <2>2. ReadBy(Peer(e), FALSE) = 0 /\ SaidBy(e, FALSE) = 0
      BY <2>1 DEF ReadBy, SaidBy
    <2>3. \A o : Stretch(e, <<>>, o)
      BY DEF Stretch
    <2>4. Len(<<>>) = 0 /\ 0 + 0 + 0 + 0 = 0
      OBVIOUS
    <2>5. InOrder(e, 0, <<>>, <<>>, <<>>)
      BY <2>3 DEF InOrder
    <2> QED
      BY <2>1, <2>2, <2>4, <2>5 DEF Way
  <1> QED
    BY <1>1, <1>2, <1>3 DEF StreamInv

-----------------------------------------------------------------------------
(* What a flush does: while the peer is open a prefix of t goes to the     *)
(* kernel and the rest stays; otherwise nobody will read it.               *)
Flushed(e, t) ==
    \E k \in 0..Len(t) :
        /\ pipe' = [pipe EXCEPT ![e] = @ \o SubSeq(t, 1, k)]
        /\ tx' = [tx EXCEPT ![e] = SubSeq(t, k + 1, Len(t))]

LEMMA FlushEffect ==
    ASSUME StreamTypes, Phases, NEW e \in Ends, NEW t \in Seq(Units), NEW s, Flush(e, t, s)
    PROVE  /\ \/ state' = s
              \/ state' = [s EXCEPT ![e] = "Closing"] /\ Shut(Peer(e)) /\ UNCHANGED pipe
           /\ pipe' \in [Ends -> Seq(Units)] /\ tx' \in [Ends -> Seq(Units)]
           /\ \A f \in Ends : Len(pipe'[f]) <= PipeCapacity
           /\ fin' = fin /\ rst' \in [Ends -> BOOLEAN]
           /\ \A f \in Ends : rst'[f] => Shut(f)
           /\ pipe'[Peer(e)] = pipe[Peer(e)] /\ tx'[Peer(e)] = tx[Peer(e)]
           /\ ~Shut(Peer(e)) => state' = s /\ Flushed(e, t)
  <1>0. Peer(e) \in Ends /\ Peer(e) # e
    BY EndsAreTwo
  <1>1. CASE FlushOn(e, t) /\ state' = s
    <2> DEFINE k == Taken(e, t)
    <2>1. pipe[e] \in Seq(Units) /\ Len(pipe[e]) \in Nat /\ Len(pipe[e]) <= PipeCapacity /\ Len(t) \in Nat
      BY DEF StreamTypes
    <2>2. k \in 0..Len(t) /\ Len(pipe[e]) + k <= PipeCapacity
      <3>1. PipeCapacity \in Nat /\ Room(e) = PipeCapacity - Len(pipe[e])
        BY ConnectionAssumption DEF Room
      <3>2. k = IF Len(t) < Room(e) THEN Len(t) ELSE Room(e)
        BY DEF Taken
      <3>3. CASE Len(t) < Room(e)
        BY <2>1, <3>1, <3>2, <3>3
      <3>4. CASE ~(Len(t) < Room(e))
        BY <2>1, <3>1, <3>2, <3>4
      <3> QED
        BY <3>3, <3>4
    <2> HIDE DEF k
    <2>3. /\ SubSeq(t, 1, k) \in Seq(Units) /\ Len(SubSeq(t, 1, k)) = k /\ SubSeq(t, k + 1, Len(t)) \in Seq(Units)
      BY <2>1, <2>2
    <2>4. pipe[e] \o SubSeq(t, 1, k) \in Seq(Units) /\ Len(pipe[e] \o SubSeq(t, 1, k)) = Len(pipe[e]) + k
      BY <2>1, <2>3
    <2>5. pipe' = [pipe EXCEPT ![e] = @ \o SubSeq(t, 1, k)] /\ tx' = [tx EXCEPT ![e] = SubSeq(t, k + 1, Len(t))]
      BY <1>1 DEF FlushOn, k
    <2>6. pipe' \in [Ends -> Seq(Units)] /\ tx' \in [Ends -> Seq(Units)]
      BY <2>3, <2>4, <2>5 DEF StreamTypes
    <2>7. \A f \in Ends : Len(pipe'[f]) <= PipeCapacity
      BY <2>2, <2>4, <2>5 DEF StreamTypes
    <2>8. fin' = fin /\ rst' = rst /\ state' = s
      BY <1>1 DEF FlushOn
    <2>9. pipe'[Peer(e)] = pipe[Peer(e)] /\ tx'[Peer(e)] = tx[Peer(e)]
      BY <1>0, <2>5 DEF StreamTypes
    <2>10. Flushed(e, t)
      BY <2>2, <2>5 DEF Flushed
    <2> QED
      BY <2>6, <2>7, <2>8, <2>9, <2>10 DEF StreamTypes, Phases
  <1>2. CASE FlushIntoReset(e, t) /\ state' = s
    <2>1. Shut(Peer(e))
      BY <1>0, <1>2 DEF FlushIntoReset, Phases
    <2>2. pipe' = pipe /\ fin' = fin /\ tx' = [tx EXCEPT ![e] = <<>>]
          /\ rst' = [rst EXCEPT ![Peer(e)] = @ \/ t # <<>>]
      BY <1>2 DEF FlushIntoReset
    <2>3. rst' \in [Ends -> BOOLEAN] /\ \A f \in Ends : f # Peer(e) => rst'[f] = rst[f]
      BY <2>2 DEF StreamTypes
    <2>4. \A f \in Ends : rst'[f] => Shut(f)
      BY <2>1, <2>3 DEF Phases
    <2>5. tx' \in [Ends -> Seq(Units)] /\ tx'[Peer(e)] = tx[Peer(e)]
      BY <1>0, <2>2 DEF StreamTypes
    <2> QED
      BY <1>2, <2>1, <2>2, <2>3, <2>4, <2>5 DEF StreamTypes
  <1>3. CASE FlushFails(e, t) /\ state' = [s EXCEPT ![e] = "Closing"]
    <2>1. Shut(Peer(e))
      BY <1>0, <1>3 DEF FlushFails, Phases
    <2>2. pipe' = pipe /\ fin' = fin /\ rst' = rst /\ tx' = [tx EXCEPT ![e] = t]
      BY <1>3 DEF FlushFails, kernel
    <2>3. tx' \in [Ends -> Seq(Units)] /\ tx'[Peer(e)] = tx[Peer(e)]
      BY <1>0, <2>2 DEF StreamTypes
    <2> QED
      BY <1>3, <2>1, <2>2, <2>3 DEF StreamTypes, Phases
  <1> QED
    BY <1>1, <1>2, <1>3 DEF Flush

(* A flush keeps the run of units.                                         *)
LEMMA FlushInOrder ==
    ASSUME StreamTypes, NEW e \in Ends, NEW t \in Seq(Units), Flushed(e, t), NEW o \in Nat,
           NEW r \in Seq(Units), InOrder(e, o, r, pipe[e], t)
    PROVE  /\ InOrder(e, o, r, pipe'[e], tx'[e])
           /\ Len(pipe'[e]) + Len(tx'[e]) = Len(pipe[e]) + Len(t)
  <1>1. PICK k \in 0..Len(t) :
            /\ pipe' = [pipe EXCEPT ![e] = @ \o SubSeq(t, 1, k)]
            /\ tx' = [tx EXCEPT ![e] = SubSeq(t, k + 1, Len(t))]
    BY DEF Flushed
  <1>2. pipe[e] \in Seq(Units) /\ pipe'[e] = pipe[e] \o SubSeq(t, 1, k) /\ tx'[e] = SubSeq(t, k + 1, Len(t))
    BY <1>1 DEF StreamTypes
  <1> DEFINE p == pipe[e]  a == o + Len(r)  b == a + Len(p)
  <1>0. Len(p) \in Nat /\ Len(t) \in Nat /\ Len(r) \in Nat /\ k \in Nat
    BY <1>2
  <1>3. p \in Seq(Units) /\ a \in Nat /\ b \in Nat /\ b = a + Len(p) /\ a = o + Len(r)
    <2>1. p \in Seq(Units)
      BY <1>2
    <2>2. a \in Nat
      BY <1>0
    <2> HIDE DEF a
    <2>3. b \in Nat
      BY <1>0, <2>2
    <2> QED
      BY <2>1, <2>2, <2>3 DEF a
  <1> HIDE DEF p, a, b
  <1>4. Stretch(e, p, a) /\ Stretch(e, t, b) /\ Stretch(e, r, o)
    BY DEF InOrder, p, a, b
  <1>5. /\ SubSeq(t, 1, k) \in Seq(Units) /\ Len(SubSeq(t, 1, k)) = k /\ Stretch(e, SubSeq(t, 1, k), b)
        /\ SubSeq(t, k + 1, Len(t)) \in Seq(Units) /\ Len(SubSeq(t, k + 1, Len(t))) = Len(t) - k
        /\ Stretch(e, SubSeq(t, k + 1, Len(t)), b + k)
    <2>1. b \in Nat /\ Stretch(e, t, b)
      BY <1>3, <1>4
    <2> QED
      BY <2>1, StretchCut, Zenon
  <1>6. Len(p \o SubSeq(t, 1, k)) = Len(p) + k /\ Stretch(e, p \o SubSeq(t, 1, k), a)
    <2>1. a \in Nat /\ p \in Seq(Units) /\ Stretch(e, p, a) /\ SubSeq(t, 1, k) \in Seq(Units)
          /\ Stretch(e, SubSeq(t, 1, k), a + Len(p)) /\ Len(SubSeq(t, 1, k)) = k
      BY <1>3, <1>4, <1>5
    <2> DEFINE q == SubSeq(t, 1, k)
    <2> HIDE DEF q
    <2>2. q \in Seq(Units) /\ Stretch(e, q, a + Len(p))
      BY <2>1 DEF q
    <2>3. Len(p \o q) = Len(p) + Len(q) /\ Stretch(e, p \o q, a)
      BY <2>1, <2>2, StretchCat
    <2> QED
      BY <2>1, <2>3 DEF q
  <1>7. a + (Len(p) + k) = b + k /\ (Len(p) + k) + (Len(t) - k) = Len(p) + Len(t)
    BY <1>0, <1>3
  <1>8. pipe'[e] = p \o SubSeq(t, 1, k)
    BY <1>2 DEF p
  <1>9. InOrder(e, o, r, pipe'[e], tx'[e])
    BY <1>2, <1>3, <1>4, <1>5, <1>6, <1>7, <1>8 DEF InOrder
  <1> QED
    BY <1>2, <1>5, <1>6, <1>7, <1>8, <1>9 DEF p

-----------------------------------------------------------------------------
(* A step that moves no unit: state may stay as it is, or e shuts.         *)
LEMMA NoUnitMoves ==
    ASSUME StreamTypes, Phases, NEW w \in BOOLEAN, Gapless(w), NEW e \in Ends,
           UNCHANGED <<rx, tx, pipe, sent, got>>,
           \/ state' = state
           \/ state' = [state EXCEPT ![e] = "Closing"]
           \/ state' = [state EXCEPT ![e] = "Closed"],
           fin' \in [Ends -> BOOLEAN], rst' \in [Ends -> BOOLEAN],
           \A f \in Ends : fin'[f] \/ rst'[f] => Shut(f)'
    PROVE  StreamTypes' /\ Phases' /\ Gapless(w)'
  <1>1. \A f \in Ends : state'[f] = state[f] \/ (f = e /\ state'[f] \in {"Closing", "Closed"})
    BY DEF StreamTypes
  <1>2. StreamTypes'
    BY DEF StreamTypes
  <1>3. Phases'
    BY <1>1 DEF Phases
  <1>4. Gapless(w)'
    <2> SUFFICES ASSUME NEW f \in Ends, ~Shut(Peer(f))'
                 PROVE  /\ InOrder(f, ReadBy(Peer(f), w)', rx[Peer(f)], pipe[f], tx[f])
                        /\ ~Shut(f)' => ReadBy(Peer(f), w)' + Len(rx[Peer(f)]) + Len(pipe[f]) + Len(tx[f])
                                          = SaidBy(f, w)'
      BY DEF Gapless, Way
    <2>1. Peer(f) \in Ends
      BY EndsAreTwo
    <2>2. state'[Peer(f)] = state[Peer(f)]
      BY <1>1, <2>1 DEF Shut
    <2>3. ReadBy(Peer(f), w)' = ReadBy(Peer(f), w) /\ ~Shut(Peer(f))
      BY <2>2 DEF ReadBy, Shut
    <2>4. ~Shut(f)' => ~Shut(f) /\ SaidBy(f, w)' = SaidBy(f, w)
      BY <1>1 DEF Shut, SaidBy
    <2> QED
      BY <2>3, <2>4 DEF Gapless, Way
  <1> QED
    BY <1>2, <1>3, <1>4

(* recv() moves units from the kernel to the receive buffer.               *)
LEMMA RecvKeeps ==
    ASSUME StreamTypes, Phases, NEW w \in BOOLEAN, Gapless(w), NEW e \in Ends, Recv(e)
    PROVE  /\ StreamTypes' /\ Phases' /\ Gapless(w)'
           /\ Len(rx'[e]) + Len(pipe'[Peer(e)]) = Len(rx[e]) + Len(pipe[Peer(e)])
  <1> DEFINE q == Peer(e)  p == pipe[q]  r == rx[e]
  <1>0. q \in Ends /\ q # e /\ Peer(q) = e /\ p \in Seq(Units) /\ r \in Seq(Units)
        /\ Len(p) \in Nat /\ Len(r) \in Nat
    BY EndsAreTwo DEF StreamTypes
  <1>1. PICK k \in 1..Len(p) :
            /\ rx' = [rx EXCEPT ![e] = @ \o SubSeq(p, 1, k)]
            /\ pipe' = [pipe EXCEPT ![q] = SubSeq(p, k + 1, Len(p))]
    BY DEF Recv
  <1>2. UNCHANGED <<state, tx, sent, got, fin, rst>>
    BY DEF Recv
  <1> DEFINE a == SubSeq(p, 1, k)  z == SubSeq(p, k + 1, Len(p))
  <1>3. a \in Seq(Units) /\ Len(a) = k /\ z \in Seq(Units) /\ Len(z) = Len(p) - k
        /\ r \o a \in Seq(Units) /\ Len(r \o a) = Len(r) + k
    BY <1>0
  <1>4. rx'[e] = r \o a /\ rx'[q] = rx[q] /\ pipe'[q] = z /\ pipe'[e] = pipe[e]
    BY <1>0, <1>1 DEF StreamTypes
  <1>5. StreamTypes'
    <2>1. rx' \in [Ends -> Seq(Units)] /\ pipe' \in [Ends -> Seq(Units)]
      BY <1>0, <1>1, <1>3 DEF StreamTypes
    <2>2. Len(z) <= Len(p)
      BY <1>0, <1>3
    <2>3. \A f \in Ends : Len(pipe'[f]) <= PipeCapacity
      <3>1. Len(z) <= PipeCapacity
        BY <1>0, <1>3, ConnectionAssumption DEF StreamTypes
      <3> QED
        BY <1>0, <1>4, <3>1, EndsAreTwo DEF StreamTypes
    <2> QED
      BY <1>2, <2>1, <2>3 DEF StreamTypes
  <1>6. Phases'
    BY <1>2 DEF Phases, Shut
  <1>7. \A f \in Ends : ReadBy(f, w)' = ReadBy(f, w) /\ SaidBy(f, w)' = SaidBy(f, w) /\ (Shut(f)' <=> Shut(f))
    BY <1>2 DEF ReadBy, SaidBy, Shut
  <1>8. Len(rx'[e]) + Len(pipe'[q]) = Len(r) + Len(p) /\ Len(rx'[e]) \in Nat /\ Len(pipe'[q]) \in Nat
    <2>1. Len(rx'[e]) = Len(r) + k /\ Len(pipe'[q]) = Len(p) - k
      BY <1>3, <1>4
    <2> HIDE DEF p, r
    <2> QED
      BY <1>0, <2>1
  <1>9. ASSUME ~Shut(e)
        PROVE  InOrder(q, ReadBy(e, w), rx'[e], pipe'[q], tx[q])
    <2> DEFINE o == ReadBy(e, w)
    <2>1. o \in Nat
      BY ReadIsNat
    <2>2. Stretch(q, r, o) /\ Stretch(q, p, o + Len(r)) /\ Stretch(q, tx[q], o + Len(r) + Len(p))
      BY <1>0, <1>9 DEF Gapless, Way, InOrder
    <2> HIDE DEF o, p, r
    <2>3. o + Len(r) \in Nat /\ k \in 0..Len(p)
      BY <1>0, <2>1
    <2>4. Stretch(q, a, o + Len(r)) /\ Stretch(q, z, o + Len(r) + k)
      BY <1>0, <2>2, <2>3, StretchCut
    <2> HIDE DEF a, z
    <2>5. Stretch(q, r \o a, o)
      BY <1>0, <1>3, <2>1, <2>2, <2>4, StretchCat
    <2>6. o + Len(r \o a) = o + Len(r) + k /\ o + Len(r \o a) + Len(z) = o + Len(r) + Len(p)
      BY <1>0, <1>3, <2>1
    <2> QED
      BY <1>4, <2>2, <2>4, <2>5, <2>6 DEF InOrder, o
  <1> HIDE DEF p, r, a, z
  <1>10. Gapless(w)'
    <2> SUFFICES ASSUME NEW f \in Ends, ~Shut(Peer(f))'
                 PROVE  /\ InOrder(f, ReadBy(Peer(f), w)', rx'[Peer(f)], pipe'[f], tx'[f])
                        /\ ~Shut(f)' => ReadBy(Peer(f), w)' + Len(rx'[Peer(f)]) + Len(pipe'[f]) + Len(tx'[f])
                                          = SaidBy(f, w)'
      BY DEF Gapless, Way
    <2>1. CASE f = q
      <3>1. ~Shut(e) /\ Peer(f) = e
        BY <1>0, <1>7, <2>1
      <3>2. InOrder(f, ReadBy(e, w)', rx'[e], pipe'[f], tx'[f])
        BY <1>2, <1>7, <1>9, <2>1, <3>1
      <3>3. ~Shut(f) => ReadBy(e, w) + Len(r) + Len(p) + Len(tx[f]) = SaidBy(f, w)
        BY <2>1, <3>1 DEF Gapless, Way, r, p
      <3>4. Len(rx'[e]) \in Nat /\ Len(pipe'[f]) \in Nat /\ Len(tx[f]) \in Nat /\ ReadBy(e, w) \in Nat
        <4>1. tx[f] \in Seq(Units)
          BY DEF StreamTypes
        <4>2. ReadBy(e, w) \in Nat
          BY ReadIsNat
        <4> QED
          BY <1>8, <2>1, <4>1, <4>2
      <3>5. ReadBy(e, w) + Len(rx'[e]) + Len(pipe'[f]) + Len(tx[f]) = ReadBy(e, w) + Len(r) + Len(p) + Len(tx[f])
        <4>1. Len(rx'[e]) + Len(pipe'[f]) = Len(r) + Len(p)
          BY <1>8, <2>1
        <4> DEFINE h == Len(rx'[e])  b == Len(pipe'[f])  c == Len(r)  d == Len(p)  u == Len(tx[f])  o == ReadBy(e, w)
        <4>2. h \in Nat /\ b \in Nat /\ c \in Nat /\ d \in Nat /\ u \in Nat /\ o \in Nat /\ h + b = c + d
          BY <1>0, <3>4, <4>1
        <4> HIDE DEF h, b, c, d, u, o
        <4>3. o + h + b + u = o + c + d + u
          BY <4>2
        <4> QED
          BY <4>3 DEF h, b, c, d, u, o
      <3> QED
        BY <1>2, <1>7, <2>1, <3>1, <3>2, <3>3, <3>5
    <2>2. CASE f = e
      <3>1. ~Shut(q) /\ Peer(f) = q
        BY <1>0, <1>7, <2>2
      <3> QED
        BY <1>0, <1>2, <1>4, <1>7, <2>2, <3>1 DEF Gapless, Way
    <2> QED
      BY <1>0, <2>1, <2>2, EndsAreTwo
  <1> QED
    BY <1>5, <1>6, <1>8, <1>10 DEF p, r

-----------------------------------------------------------------------------
(* A block behind the last unit that e has said.                           *)
LEMMA BlockAppended ==
    ASSUME NEW e \in Ends, NEW o \in Nat, NEW r \in Seq(Units), NEW p \in Seq(Units), NEW t \in Seq(Units),
           NEW m \in Blocks(e), InOrder(e, o, r, p, t),
           o + Len(r) + Len(p) + Len(t) + 2 = 2 * Index(e, m)
    PROVE  /\ t \o Block(m) \in Seq(Units) /\ Len(t \o Block(m)) = Len(t) + 2
           /\ InOrder(e, o, r, p, t \o Block(m))
  <1>1. Block(m) \in Seq(Units) /\ Len(Block(m)) = 2 /\ Block(m)[1] = <<m, 1>> /\ Block(m)[2] = <<m, 2>>
    BY DEF Block, Units, Blocks, Ends
  <1>2. Len(r) \in Nat /\ Len(p) \in Nat /\ Len(t) \in Nat
    OBVIOUS
  <1> DEFINE b == o + Len(r) + Len(p)  n == b + Len(t)
  <1>3. b \in Nat /\ n \in Nat /\ n = b + Len(t) /\ n + 2 = 2 * Index(e, m)
    BY <1>2
  <1>4. Stretch(e, r, o) /\ Stretch(e, p, o + Len(r)) /\ Stretch(e, t, b)
    BY DEF InOrder
  <1> HIDE DEF b, n
  <1>5. Stretch(e, Block(m), n)
    <2> HIDE DEF Block
    <2> SUFFICES ASSUME NEW i \in 1..2
                 PROVE  /\ Block(m)[i][1] \in Blocks(e) /\ Block(m)[i][2] \in {1, 2}
                        /\ 2 * Index(e, Block(m)[i][1]) + Block(m)[i][2] = n + i + 2
      BY <1>1 DEF Stretch
    <2>1. Block(m)[i][1] = m /\ Block(m)[i][2] = i
      BY <1>1
    <2>2. 2 * Index(e, m) + i = n + i + 2
      BY <1>3
    <2> QED
      BY <2>1, <2>2
  <1>6. t \o Block(m) \in Seq(Units) /\ Len(t \o Block(m)) = Len(t) + Len(Block(m)) /\ Stretch(e, t \o Block(m), b)
    <2> HIDE DEF Block
    <2>1. Stretch(e, Block(m), b + Len(t))
      BY <1>3, <1>5
    <2> QED
      BY <1>1, <1>3, <1>4, <2>1, StretchCat
  <1> QED
    BY <1>1, <1>4, <1>6 DEF InOrder, b

(* The outgoing direction of an end that flushes t.                        *)
LEMMA FlushWay ==
    ASSUME StreamTypes, Phases, NEW e \in Ends, NEW t \in Seq(Units), NEW s, Flush(e, t, s),
           NEW w \in BOOLEAN, NEW v \in BOOLEAN,
           ~Shut(Peer(e)),
           rx'[Peer(e)] = rx[Peer(e)],
           InOrder(e, ReadBy(Peer(e), w), rx[Peer(e)], pipe[e], t),
           ReadBy(Peer(e), v)' = ReadBy(Peer(e), w),
           ReadBy(Peer(e), w) + Len(rx[Peer(e)]) + Len(pipe[e]) + Len(t) = SaidBy(e, v)'
    PROVE  Way(e, v)'
  <1> DEFINE o == ReadBy(Peer(e), w)  r == rx[Peer(e)]
  <1>1. Peer(e) \in Ends /\ o \in Nat /\ r \in Seq(Units) /\ pipe[e] \in Seq(Units)
    BY EndsAreTwo, ReadIsNat DEF StreamTypes
  <1>2. Flushed(e, t) /\ pipe' \in [Ends -> Seq(Units)] /\ tx' \in [Ends -> Seq(Units)]
    BY FlushEffect
  <1> HIDE DEF o, r
  <1>3. InOrder(e, o, r, pipe[e], t)
    BY DEF o, r
  <1>4. InOrder(e, o, r, pipe'[e], tx'[e]) /\ Len(pipe'[e]) + Len(tx'[e]) = Len(pipe[e]) + Len(t)
    BY <1>1, <1>2, <1>3, FlushInOrder
  <1>5. Len(r) \in Nat /\ Len(pipe[e]) \in Nat /\ Len(t) \in Nat /\ Len(pipe'[e]) \in Nat /\ Len(tx'[e]) \in Nat
    BY <1>1, <1>2
  <1>6. o + Len(r) + Len(pipe'[e]) + Len(tx'[e]) = o + Len(r) + Len(pipe[e]) + Len(t)
    <2>1. o \in Nat /\ Len(pipe'[e]) + Len(tx'[e]) = Len(pipe[e]) + Len(t)
      BY <1>1, <1>4
    <2> DEFINE a == Len(pipe'[e])  b == Len(tx'[e])  c == Len(pipe[e])  d == Len(t)  u == Len(r)
    <2>2. a \in Nat /\ b \in Nat /\ c \in Nat /\ d \in Nat /\ u \in Nat /\ a + b = c + d
      BY <1>5, <2>1
    <2> HIDE DEF a, b, c, d, u
    <2>3. o + u + a + b = o + u + c + d
      BY <2>1, <2>2
    <2> QED
      BY <2>3 DEF a, b, c, d, u
  <1> QED
    BY <1>4, <1>6 DEF Way, o, r

LEMMA DropTwo ==
    ASSUME NEW s \in Seq(Units), Len(s) >= 2
    PROVE  /\ SubSeq(s, 3, Len(s)) \in Seq(Units) /\ Len(SubSeq(s, 3, Len(s))) = Len(s) - 2
           /\ \A i \in 1..(Len(s) - 2) : SubSeq(s, 3, Len(s))[i] = s[i + 2] /\ i + 2 \in 1..Len(s)
  <1>1. PICK k \in 0..Len(s) : k = 2 /\ k + 1 = 3
    OBVIOUS
  <1>2. SubSeq(s, k + 1, Len(s)) \in Seq(Units) /\ Len(SubSeq(s, k + 1, Len(s))) = Len(s) - k
        /\ \A i \in 1..(Len(s) - k) : SubSeq(s, k + 1, Len(s))[i] = s[i + k] /\ i + k \in 1..Len(s)
    OBVIOUS
  <1> QED
    BY <1>1, <1>2

(* The block at the front of the receive buffer.                           *)
LEMMA FirstBlock ==
    ASSUME StreamTypes, NEW e \in Ends, NEW j \in Nat, Len(rx[e]) >= 2, Stretch(Peer(e), rx[e], 2 * j)
    PROVE  /\ Body(e) \in Blocks(Peer(e)) /\ Index(Peer(e), Body(e)) = j + 1
           /\ SubSeq(rx[e], 3, Len(rx[e])) \in Seq(Units) /\ Len(SubSeq(rx[e], 3, Len(rx[e]))) = Len(rx[e]) - 2
           /\ Stretch(Peer(e), SubSeq(rx[e], 3, Len(rx[e])), 2 * (j + 1))
  <1>1. rx[e] \in Seq(Units) /\ Len(rx[e]) \in Nat /\ 2 \in 0..Len(rx[e]) /\ 1 \in 1..Len(rx[e])
    BY DEF StreamTypes
  <1>2. /\ Body(e) \in Blocks(Peer(e)) /\ rx[e][1][2] \in {1, 2}
        /\ 2 * Index(Peer(e), Body(e)) + rx[e][1][2] = 2 * j + 1 + 2
    BY <1>1 DEF Stretch, Body
  <1>3. Index(Peer(e), Body(e)) \in Nat
    BY <1>2 DEF Index, Blocks, Greetings
  <1>4. Index(Peer(e), Body(e)) = j + 1
    BY <1>2, <1>3
  <1>5. 2 * j \in Nat /\ 2 * j + 2 = 2 * (j + 1) /\ 2 + 1 = 3
    OBVIOUS
  <1> DEFINE s == rx[e]
  <1> HIDE DEF s
  <1>6. s \in Seq(Units) /\ 2 \in 0..Len(s) /\ Stretch(Peer(e), s, 2 * j)
    BY <1>1 DEF s
  <1>7. /\ SubSeq(s, 3, Len(s)) \in Seq(Units) /\ Len(SubSeq(s, 3, Len(s))) = Len(s) - 2
        /\ \A i \in 1..(Len(s) - 2) : SubSeq(s, 3, Len(s))[i] = s[i + 2] /\ i + 2 \in 1..Len(s)
    BY <1>1, <1>6, DropTwo DEF s
  <1>8. Stretch(Peer(e), SubSeq(s, 3, Len(s)), 2 * (j + 1))
    <2> DEFINE W == SubSeq(s, 3, Len(s))  q == Peer(e)
    <2> SUFFICES ASSUME NEW i \in 1..Len(W)
                 PROVE  W[i][1] \in Blocks(q) /\ W[i][2] \in {1, 2} /\ 2 * Index(q, W[i][1]) + W[i][2] = 2 * (j + 1) + i + 2
      BY DEF Stretch
    <2>1. W[i] = s[i + 2] /\ i + 2 \in 1..Len(s) /\ 2 * j + (i + 2) + 2 = 2 * (j + 1) + i + 2
      BY <1>7
    <2> HIDE DEF W, q
    <2>2. Stretch(q, s, 2 * j)
      BY <1>6 DEF q
    <2> QED
      BY <2>1, <2>2 DEF Stretch
  <1> QED
    BY <1>2, <1>4, <1>7, <1>8 DEF s

LEMMA BufferConsumed ==
    ASSUME StreamTypes, NEW e \in Ends, Len(rx[e]) >= 2, rx' = [rx EXCEPT ![e] = SubSeq(@, 3, Len(@))]
    PROVE  /\ rx' \in [Ends -> Seq(Units)] /\ rx'[Peer(e)] = rx[Peer(e)]
           /\ rx'[e] = SubSeq(rx[e], 3, Len(rx[e]))
  <1>1. rx[e] \in Seq(Units) /\ Peer(e) \in Ends /\ Peer(e) # e
    BY EndsAreTwo DEF StreamTypes
  <1>2. SubSeq(rx[e], 3, Len(rx[e])) \in Seq(Units)
    BY <1>1, DropTwo
  <1> QED
    BY <1>1, <1>2 DEF StreamTypes

(* The incoming direction of an end that consumes a block.                 *)
LEMMA ConsumeWay ==
    ASSUME StreamTypes, NEW e \in Ends, NEW j \in Nat, Len(rx[e]) >= 2, NEW w \in BOOLEAN, NEW v \in BOOLEAN,
           Way(Peer(e), w), ReadBy(e, w) = 2 * j, ReadBy(e, v)' = 2 * (j + 1),
           rx'[e] = SubSeq(rx[e], 3, Len(rx[e])), pipe'[Peer(e)] = pipe[Peer(e)], tx'[Peer(e)] = tx[Peer(e)],
           Shut(Peer(e))' <=> Shut(Peer(e)), ~Shut(Peer(e)) => SaidBy(Peer(e), v)' = SaidBy(Peer(e), w)
    PROVE  /\ Way(Peer(e), v)'
           /\ ReadBy(e, v)' + Len(rx'[e]) = ReadBy(e, w) + Len(rx[e])
  <1> DEFINE q == Peer(e)  r == rx[e]  c == SubSeq(r, 3, Len(r))
  <1>1. q \in Ends /\ q # e /\ Peer(q) = e
    BY EndsAreTwo
  <1>2. Stretch(q, r, 2 * j) /\ Stretch(q, pipe[q], 2 * j + Len(r)) /\ Stretch(q, tx[q], 2 * j + Len(r) + Len(pipe[q]))
    BY <1>1 DEF Way, InOrder
  <1>3. c \in Seq(Units) /\ Len(c) = Len(r) - 2 /\ Stretch(q, c, 2 * (j + 1))
    BY <1>2, FirstBlock
  <1>4. rx'[e] = c
    OBVIOUS
  <1>5. r \in Seq(Units) /\ Len(r) \in Nat /\ pipe[q] \in Seq(Units) /\ Len(pipe[q]) \in Nat
        /\ tx[q] \in Seq(Units) /\ Len(tx[q]) \in Nat
    BY <1>1 DEF StreamTypes
  <1> HIDE DEF q, r, c
  <1>6. 2 * (j + 1) + Len(c) = 2 * j + Len(r)
    BY <1>3, <1>5
  <1>7. InOrder(q, 2 * (j + 1), rx'[e], pipe'[q], tx'[q])
    BY <1>2, <1>3, <1>4, <1>6 DEF InOrder, q
  <1>8. ~Shut(q) => 2 * j + Len(r) + Len(pipe[q]) + Len(tx[q]) = SaidBy(q, w)
    BY <1>1 DEF Way, q, r
  <1>9. 2 * (j + 1) + Len(c) + Len(pipe[q]) + Len(tx[q]) = 2 * j + Len(r) + Len(pipe[q]) + Len(tx[q])
    BY <1>5, <1>6
  <1>10. Way(q, v)'
    BY <1>1, <1>4, <1>7, <1>8, <1>9 DEF Way, q
  <1> QED
    BY <1>4, <1>6, <1>10 DEF q, r

(* Both directions of a step of e.                                         *)
LEMMA TwoWays ==
    ASSUME NEW e \in Ends, NEW w, ~Shut(Peer(e))' => Way(e, w)', ~Shut(e)' => Way(Peer(e), w)'
    PROVE  Gapless(w)'
  BY EndsAreTwo DEF Gapless

-----------------------------------------------------------------------------
(* The view of the channel.                                                *)

LEMMA ModeIs ==
    \A e \in Ends : (Mode(e) = "shut" <=> Shut(e)) /\ (Mode(e) = "open" <=> state[e] = "Established")
                    /\ (Mode(e) = "new" <=> state[e] # "Established" /\ ~Shut(e))
  BY DEF Mode, Shut

LEMMA OpenWays ==
    ASSUME StreamInv, NEW e \in Ends, ~Shut(e), ~Shut(Peer(e))
    PROVE  Undelivered(e) = {n \in Nat \ {0} : n > got[Peer(e)] /\ n <= sent[e]}
  <1>1. PICK w \in BOOLEAN : Gapless(w)
    BY DEF StreamInv
  <1>2. StreamTypes /\ Phases
    BY DEF StreamInv
  <1>3. Undelivered(e) = {n \in Nat \ {0} : n > got[Peer(e)] /\ 2 * (Greetings(e) + n) <= SaidBy(e, w)}
    BY <1>1, <1>2, UndeliveredIs DEF Limit
  <1>4. \A n \in Nat \ {0} : 2 * (Greetings(e) + n) <= SaidBy(e, w) <=> n <= sent[e]
    <2>1. sent[e] \in Nat /\ Greetings(e) \in {1, 2}
      BY <1>2 DEF StreamTypes, Greetings
    <2>2. CASE state[e] = "Established"
      BY <2>1, <2>2 DEF SaidBy
    <2>3. CASE state[e] # "Established"
      <3>1. sent[e] = 0
        BY <1>2, <2>3 DEF Phases, Shut, StreamTypes
      <3>2. SaidBy(e, w) = 0 \/ SaidBy(e, w) = 2
        BY <2>3 DEF SaidBy
      <3> QED
        BY <2>1, <3>1, <3>2
    <2> QED
      BY <2>2, <2>3
  <1> QED
    BY <1>3, <1>4

(* The same, as facts about the next state too.                            *)
Counted ==
    /\ \A w \in BOOLEAN : StreamTypes /\ Phases /\ Gapless(w) =>
          \A e \in Ends : ~Shut(Peer(e)) =>
             Undelivered(e) = {n \in Nat \ {0} : n > got[Peer(e)] /\ 2 * (Greetings(e) + n) <= Limit(e, w)}
    /\ StreamInv =>
          \A e \in Ends : ~Shut(e) /\ ~Shut(Peer(e)) =>
             Undelivered(e) = {n \in Nat \ {0} : n > got[Peer(e)] /\ n <= sent[e]}

LEMMA Counts == Counted
  <1>1. ASSUME NEW w \in BOOLEAN, StreamTypes, Phases, Gapless(w), NEW e \in Ends, ~Shut(Peer(e))
        PROVE  Undelivered(e) = {n \in Nat \ {0} : n > got[Peer(e)] /\ 2 * (Greetings(e) + n) <= Limit(e, w)}
    BY <1>1, UndeliveredIs
  <1>2. ASSUME StreamInv, NEW e \in Ends, ~Shut(e), ~Shut(Peer(e))
        PROVE  Undelivered(e) = {n \in Nat \ {0} : n > got[Peer(e)] /\ n <= sent[e]}
    BY <1>2, OpenWays
  <1> QED
    BY <1>1, <1>2 DEF Counted

LEMMA CountsNext == Counted'
  BY Counts, PTL

LEMMA ChannelInit == ConnInit => Channel!Init
  <1> SUFFICES ASSUME ConnInit PROVE Channel!Init
    OBVIOUS
  <1>1. StreamInv
    BY StreamInit
  <1>2. \A e \in Ends : Peer(e) \in Ends /\ ~Shut(e) /\ Mode(e) = "new" /\ sent[e] = 0 /\ got[e] = 0
    BY EndsAreTwo DEF ConnInit, Shut, Mode
  <1>3. \A e \in Ends : Undelivered(e) = {}
    BY <1>1, <1>2, OpenWays
  <1> QED
    BY <1>2, <1>3 DEF Channel!Init, ConnInit

Unseen == UNCHANGED <<[e \in Ends |-> Mode(e)], sent, [e \in Ends |-> Undelivered(e)], got>>

LEMMA UnseenStutters == Unseen => UNCHANGED Channel!vars
  BY DEF Unseen, Channel!vars

(* A step that the users of the two ends cannot tell from none.            *)
LEMMA SameView ==
    ASSUME StreamInv, StreamInv', sent' = sent, got' = got,
           \A f \in Ends : Mode(f)' = Mode(f),
           \A f \in Ends : Shut(f) /\ ~Shut(Peer(f)) => Undelivered(f)' = Undelivered(f)
    PROVE  Unseen
  <1>1. ASSUME NEW f \in Ends PROVE Undelivered(f)' = Undelivered(f)
    <2>1. Peer(f) \in Ends
      BY EndsAreTwo
    <2>2. \A e \in Ends : Shut(e)' <=> Shut(e)
      BY DEF Mode, Shut
    <2>3. CASE Shut(Peer(f))
      BY <2>1, <2>2, <2>3 DEF Undelivered
    <2>4. CASE ~Shut(Peer(f)) /\ Shut(f)
      BY <2>4
    <2>5. CASE ~Shut(Peer(f)) /\ ~Shut(f)
      <3>1. Undelivered(f) = {n \in Nat \ {0} : n > got[Peer(f)] /\ n <= sent[f]}
        BY <2>5, OpenWays
      <3>2. Undelivered(f)' = {n \in Nat \ {0} : n > got'[Peer(f)] /\ n <= sent'[f]}
        BY <2>1, <2>2, <2>5, CountsNext DEF Counted
      <3> QED
        BY <3>1, <3>2
    <2> QED
      BY <2>3, <2>4, <2>5
  <1> QED
    BY <1>1 DEF Unseen

(* No frame is delivered that was not sent.                                *)
LEMMA DeliveredWereSent ==
    ASSUME StreamInv, NEW e \in Ends, state[e] = "Established", ~Shut(Peer(e))
    PROVE  got[Peer(e)] <= sent[e]
  <1> DEFINE q == Peer(e)
  <1>1. PICK v \in BOOLEAN : Gapless(v)
    BY DEF StreamInv
  <1>2. StreamTypes /\ Phases /\ q \in Ends /\ Peer(q) = e
    BY EndsAreTwo DEF StreamInv
  <1>3. ReadBy(q, v) \in Nat /\ rx[q] \in Seq(Units) /\ pipe[e] \in Seq(Units) /\ tx[e] \in Seq(Units)
    BY <1>1, <1>2, ReadIsNat DEF StreamTypes
  <1> DEFINE a == Len(rx[q])  b == Len(pipe[e])  c == Len(tx[e])  d == ReadBy(q, v)
  <1>4. a \in Nat /\ b \in Nat /\ c \in Nat /\ d \in Nat
    BY <1>3
  <1>5. d + a + b + c = SaidBy(e, v) /\ SaidBy(e, v) = 2 * (Greetings(e) + sent[e])
    BY <1>1 DEF Gapless, Way, Shut, SaidBy
  <1>6. sent[e] \in Nat /\ got[q] \in Nat /\ Greetings(e) \in {1, 2}
    BY <1>2 DEF StreamTypes, Greetings
  <1>7. CASE state[q] = "Established"
    <2>1. d = 2 * (Greetings(e) + got[q])
      BY <1>2, <1>7 DEF ReadBy
    <2> DEFINE g == Greetings(e)  m == sent[e]  n == got[q]
    <2>2. d + a + b + c = 2 * (g + m) /\ d = 2 * (g + n) /\ g \in Nat /\ m \in Nat /\ n \in Nat
      BY <1>5, <1>6, <2>1
    <2> HIDE DEF a, b, c, d, g, m, n
    <2>3. n <= m
      BY <1>4, <2>2
    <2> QED
      BY <2>3 DEF m, n
  <1>8. CASE state[q] # "Established"
    <2>1. got[q] = 0
      BY <1>2, <1>8 DEF Phases, Shut, StreamTypes
    <2> HIDE DEF q
    <2>2. got[q] <= sent[e]
      BY <1>6, <2>1
    <2> QED
      BY <2>2 DEF q
  <1> QED
    BY <1>7, <1>8

LEMMA HalfOf ==
    ASSUME NEW z \in Nat, NEW g \in {1, 2}, NEW m \in Nat, z <= 2 * (g + m)
    PROVE  \E k \in 0..m : \A n \in Nat \ {0} : 2 * (g + n) <= z <=> n <= k
  <1>1. CASE z < 2 * g
    <2>1. 0 \in 0..m /\ \A n \in Nat \ {0} : 2 * (g + n) <= z <=> n <= 0
      BY <1>1
    <2> QED
      BY <2>1
  <1>2. CASE ~(z < 2 * g)
    <2> DEFINE k == (z - 2 * g) \div 2
    <2>1. k \in Nat /\ 2 * k <= z - 2 * g /\ z - 2 * g <= 2 * k + 1
      BY <1>2
    <2> HIDE DEF k
    <2>2. k \in 0..m /\ \A n \in Nat \ {0} : 2 * (g + n) <= z <=> n <= k
      BY <2>1
    <2> QED
      BY <2>2
  <1> QED
    BY <1>1, <1>2

(* An end shuts: its backlog is lost, what its peer can still read stays.  *)
LEMMA ShutView ==
    ASSUME StreamInv, NEW e \in Ends, ~Shut(e), Shut(e)', state'[Peer(e)] = state[Peer(e)],
           rx'[Peer(e)] = rx[Peer(e)], pipe'[e] = pipe[e], got' = got,
           sent' = sent \/ (state[e] = "Established" /\ sent' = [sent EXCEPT ![e] = @ + 1])
    PROVE  Channel!Shut(e)
  <1> DEFINE q == Peer(e)  M == [f \in Ends |-> Mode(f)]  U == [f \in Ends |-> Undelivered(f)]
  <1>1. q \in Ends /\ q # e /\ Peer(q) = e /\ \A f \in Ends : f = e \/ f = q
    BY EndsAreTwo
  <1>2. M[e] # "shut" /\ (M[e] = "open" <=> state[e] = "Established")
    BY DEF Mode, Shut
  <1>3. M' = [M EXCEPT ![e] = "shut"]
    <2>1. \A f \in Ends : Mode(f)' = IF f = e THEN "shut" ELSE Mode(f)
      BY <1>1 DEF Mode, Shut
    <2> QED
      BY <2>1
  <1>4. Undelivered(q)' = {}
    BY <1>1 DEF Undelivered
  <1>5. \E k \in 0..sent[e] : Undelivered(e)' = {n \in Undelivered(e) : n <= k}
    <2>0. sent[e] \in Nat
      BY DEF StreamInv, StreamTypes
    <2>1. CASE Shut(q)
      <3>1. Undelivered(e)' = {} /\ Undelivered(e) = {}
        BY <2>1 DEF Undelivered, Shut
      <3> QED
        BY <2>0, <3>1
    <2>2. CASE ~Shut(q)
      <3>1. PICK v \in BOOLEAN : Gapless(v)
        BY DEF StreamInv
      <3>2. StreamTypes /\ Phases
        BY DEF StreamInv
      <3> DEFINE z == ReadBy(q, v) + Len(rx[q]) + Len(pipe[e])
      <3>3. Undelivered(e)' = Frames(rx[q]) \cup Frames(pipe[e])
        BY <2>2 DEF Undelivered, Shut
      <3>4. Frames(rx[q]) \cup Frames(pipe[e]) = {n \in Nat \ {0} : n > got[q] /\ 2 * (Greetings(e) + n) <= z}
        BY <2>2, <3>1, <3>2, UndeliveredIs
      <3>5. Undelivered(e) = {n \in Nat \ {0} : n > got[q] /\ n <= sent[e]}
        BY <2>2, OpenWays
      <3>6. z \in Nat /\ z <= SaidBy(e, v)
        <4>1. ReadBy(q, v) \in Nat /\ rx[q] \in Seq(Units) /\ pipe[e] \in Seq(Units) /\ tx[e] \in Seq(Units)
          BY <1>1, <3>1, <3>2, ReadIsNat DEF StreamTypes
        <4> DEFINE a == Len(rx[q])  b == Len(pipe[e])  c == Len(tx[e])  d == ReadBy(q, v)
        <4>2. a \in Nat /\ b \in Nat /\ c \in Nat /\ d \in Nat
          BY <4>1
        <4>3. d + a + b + c = SaidBy(e, v) /\ z = d + a + b
          BY <2>2, <3>1 DEF Gapless, Way
        <4> HIDE DEF a, b, c, d, z
        <4> QED
          BY <4>2, <4>3
      <3>7. SaidBy(e, v) <= 2 * (Greetings(e) + sent[e]) /\ SaidBy(e, v) \in Nat /\ Greetings(e) \in {1, 2}
        BY <2>0, <3>1 DEF SaidBy, Greetings
      <3> HIDE DEF z
      <3>8. z <= 2 * (Greetings(e) + sent[e])
        BY <2>0, <3>6, <3>7
      <3>9. PICK k \in 0..sent[e] : \A n \in Nat \ {0} : 2 * (Greetings(e) + n) <= z <=> n <= k
        BY <2>0, <3>6, <3>7, <3>8, HalfOf
      <3>10. Undelivered(e)' = {n \in Undelivered(e) : n <= k}
        BY <2>0, <3>3, <3>4, <3>5, <3>9
      <3> QED
        BY <3>10
    <2> QED
      BY <2>1, <2>2
  <1>6. PICK k \in 0..sent[e] : Undelivered(e)' = {n \in Undelivered(e) : n <= k}
    BY <1>5
  <1>7. U' = [f \in Ends |-> IF f = e THEN {n \in U[e] : n <= k} ELSE {}]
    BY <1>1, <1>4, <1>6
  <1> QED
    BY <1>2, <1>3, <1>7 DEF Channel!Shut, Channel!Keep

LEMMA SendView ==
    ASSUME StreamInv, StreamInv', NEW e \in Ends, state[e] = "Established", state' = state, got' = got,
           sent' = [sent EXCEPT ![e] = @ + 1],
           rx'[e] = rx[e], pipe'[Peer(e)] = pipe[Peer(e)]
    PROVE  Channel!Send(e)
  <1> DEFINE q == Peer(e)  M == [f \in Ends |-> Mode(f)]  U == [f \in Ends |-> Undelivered(f)]
  <1>1. q \in Ends /\ q # e /\ Peer(q) = e /\ \A f \in Ends : f = e \/ f = q
    BY EndsAreTwo
  <1>2. M' = M /\ M[e] = "open" /\ (M[q] = "shut" <=> Shut(q)) /\ ~Shut(e) /\ ~Shut(e)' /\ (Shut(q)' <=> Shut(q))
    BY <1>1 DEF Mode, Shut
  <1>3. sent[e] \in Nat /\ sent'[e] = sent[e] + 1 /\ sent'[q] = sent[q]
    BY <1>1 DEF StreamInv, StreamTypes
  <1>4. Undelivered(q)' = Undelivered(q)
    <2>1. CASE Shut(q)
      BY <1>1, <1>2, <2>1 DEF Undelivered
    <2>2. CASE ~Shut(q)
      <3>1. Undelivered(q) = {n \in Nat \ {0} : n > got[e] /\ n <= sent[q]}
        BY <1>1, <1>2, <2>2, OpenWays
      <3>2. Undelivered(q)' = {n \in Nat \ {0} : n > got'[e] /\ n <= sent'[q]}
        BY <1>1, <1>2, <2>2, CountsNext DEF Counted
      <3> QED
        BY <1>3, <3>1, <3>2
    <2> QED
      BY <2>1, <2>2
  <1>5. CASE Shut(q)
    <2>1. Undelivered(e)' = Undelivered(e)
      BY <1>2, <1>5 DEF Undelivered
    <2>2. U' = U
      BY <1>1, <1>4, <2>1
    <2> QED
      BY <1>2, <1>5, <2>2 DEF Channel!Send
  <1>6. CASE ~Shut(q)
    <2>1. Undelivered(e) = {n \in Nat \ {0} : n > got[q] /\ n <= sent[e]}
      BY <1>2, <1>6, OpenWays
    <2>2. Undelivered(e)' = {n \in Nat \ {0} : n > got'[q] /\ n <= sent'[e]}
      BY <1>2, <1>6, CountsNext DEF Counted
    <2>3. got[q] <= sent[e]
      BY <1>6, DeliveredWereSent
    <2>4. got[q] \in Nat
      BY <1>1 DEF StreamInv, StreamTypes
    <2>5. Undelivered(e)' = Undelivered(e) \cup {sent[e] + 1}
      BY <1>3, <2>1, <2>2, <2>3, <2>4
    <2>6. U' = [U EXCEPT ![e] = @ \cup {sent[e] + 1}]
      BY <1>1, <1>4, <2>5
    <2> QED
      BY <1>2, <1>6, <2>6 DEF Channel!Send
  <1> QED
    BY <1>5, <1>6

-----------------------------------------------------------------------------
(* The steps.                                                              *)

LEMMA StillStep ==
    ASSUME StreamInv, NEW e \in Ends,
           UNCHANGED <<rx, tx, pipe, sent, got>>,
           \/ state' = state
           \/ state' = [state EXCEPT ![e] = "Closing"]
           \/ state' = [state EXCEPT ![e] = "Closed"],
           fin' \in [Ends -> BOOLEAN], rst' \in [Ends -> BOOLEAN],
           \A f \in Ends : fin'[f] \/ rst'[f] => Shut(f)'
    PROVE  StreamInv' /\ (Unseen \/ Channel!Shut(e))
  <1>1. StreamInv'
    <2>1. PICK w \in BOOLEAN : Gapless(w)
      BY DEF StreamInv
    <2>2. StreamTypes /\ Phases
      BY DEF StreamInv
    <2>3. StreamTypes' /\ Phases' /\ Gapless(w)'
      BY <2>1, <2>2, NoUnitMoves
    <2> QED
      BY <2>1, <2>3 DEF StreamInv
  <1>2. Peer(e) \in Ends /\ Peer(e) # e /\ \A f \in Ends : Peer(f) \in Ends
    BY EndsAreTwo
  <1>3. \A f \in Ends : f # e => state'[f] = state[f]
    BY DEF StreamInv, StreamTypes
  <1>4. state'[e] = state[e] \/ state'[e] \in {"Closing", "Closed"}
    BY DEF StreamInv, StreamTypes
  <1>5. CASE ~Shut(e) /\ Shut(e)'
    <2>1. state'[Peer(e)] = state[Peer(e)]
      BY <1>2, <1>3
    <2> QED
      BY <1>1, <1>5, <2>1, ShutView
  <1>6. CASE ~(~Shut(e) /\ Shut(e)')
    <2>1. \A f \in Ends : Mode(f)' = Mode(f)
      BY <1>3, <1>4, <1>6 DEF Mode, Shut
    <2>2. \A f \in Ends : Shut(f)' <=> Shut(f)
      BY <2>1 DEF Mode, Shut
    <2>3. \A f \in Ends : Undelivered(f)' = Undelivered(f)
      BY <1>2, <2>2 DEF Undelivered
    <2> QED
      BY <1>1, <2>1, <2>3 DEF Unseen
  <1> QED
    BY <1>5, <1>6

LEMMA QuietActions ==
    ASSUME StreamInv, NEW e \in Ends,
           OnReadable(e) \/ WouldBlock(e) \/ BlocksDone(e) \/ CallReturns(e) \/ Close(e) \/ ConnectFails(e)
             \/ PeerClosed(e) \/ OnError(e)
    PROVE  StreamInv' /\ (Unseen \/ Channel!Shut(e))
  <1>1. UNCHANGED <<rx, tx, pipe, sent, got, fin, rst>>
    BY DEF OnReadable, WouldBlock, BlocksDone, CallReturns, Close, ConnectFails, PeerClosed, OnError, kernel
  <1>2. state' = state \/ state' = [state EXCEPT ![e] = "Closing"]
    BY DEF OnReadable, WouldBlock, BlocksDone, CallReturns, Close, ConnectFails, PeerClosed, OnError
  <1>3. \A f \in Ends : state'[f] = state[f] \/ state'[f] = "Closing"
    BY <1>2 DEF StreamInv, StreamTypes
  <1>4. fin' \in [Ends -> BOOLEAN] /\ rst' \in [Ends -> BOOLEAN]
    BY <1>1 DEF StreamInv, StreamTypes
  <1>5. \A f \in Ends : fin'[f] \/ rst'[f] => Shut(f)'
    BY <1>1, <1>3 DEF StreamInv, Phases, Shut
  <1> QED
    BY <1>1, <1>2, <1>4, <1>5, StillStep

LEMMA TeardownAction ==
    ASSUME StreamInv, NEW e \in Ends, TeardownEnd(e)
    PROVE  StreamInv' /\ (Unseen \/ Channel!Shut(e))
  <1>1. UNCHANGED <<rx, tx, pipe, sent, got>> /\ state' = [state EXCEPT ![e] = "Closed"]
    BY DEF TeardownEnd
  <1>2. \A f \in Ends : IF f = e THEN state'[f] = "Closed" ELSE state'[f] = state[f]
    BY <1>1 DEF StreamInv, StreamTypes
  <1>3. fin' = [fin EXCEPT ![e] = TRUE] /\ rst' = [rst EXCEPT ![e] = pipe[Peer(e)] # <<>>]
    BY DEF TeardownEnd
  <1>4. fin' \in [Ends -> BOOLEAN] /\ rst' \in [Ends -> BOOLEAN]
        /\ \A f \in Ends : f # e => fin'[f] = fin[f] /\ rst'[f] = rst[f]
    BY <1>3 DEF StreamInv, StreamTypes
  <1>5. \A f \in Ends : fin'[f] \/ rst'[f] => Shut(f)'
    BY <1>2, <1>4 DEF StreamInv, Phases, Shut
  <1> QED
    BY <1>1, <1>4, <1>5, StillStep

LEMMA AcceptAction ==
    ASSUME StreamInv, NEW e \in Ends, AcceptEnd(e)
    PROVE  StreamInv' /\ Unseen
  <1>0. PICK w \in BOOLEAN : Gapless(w)
    BY DEF StreamInv
  <1>1. UNCHANGED <<rx, tx, pipe, sent, got, fin, rst>> /\ state' = [state EXCEPT ![e] = "Handshaking"]
        /\ state[e] = "Connecting" /\ e = "in"
    BY DEF AcceptEnd
  <1>2. StreamTypes /\ Phases
    BY DEF StreamInv
  <1>3. \A f \in Ends : Peer(f) \in Ends /\ IF f = e THEN state'[f] = "Handshaking" ELSE state'[f] = state[f]
    BY <1>1, <1>2, EndsAreTwo DEF StreamTypes
  <1>4. StreamTypes'
    BY <1>1, <1>2 DEF StreamTypes
  <1>5. \A f \in Ends : (Shut(f)' <=> Shut(f)) /\ Mode(f)' = Mode(f)
    BY <1>1, <1>3 DEF Shut, Mode
  <1>6. Phases'
    BY <1>1, <1>2, <1>3, <1>5 DEF Phases
  <1>7. Gapless(FALSE)'
    <2>1. \A f \in Ends : ReadBy(f, FALSE)' = ReadBy(f, w) /\ SaidBy(f, FALSE)' = SaidBy(f, w)
      BY <1>1, <1>3 DEF ReadBy, SaidBy, Ends
    <2>2. ASSUME NEW f \in Ends, ~Shut(Peer(f))' PROVE Way(f, FALSE)'
      <3>1. Way(f, w)
        BY <1>0, <1>3, <1>5, <2>2 DEF Gapless
      <3> QED
        BY <1>1, <1>3, <1>5, <2>1, <3>1 DEF Way
    <2> QED
      BY <2>2 DEF Gapless
  <1>8. \A f \in Ends : Undelivered(f)' = Undelivered(f)
    BY <1>1, <1>3, <1>5 DEF Undelivered
  <1> QED
    BY <1>1, <1>4, <1>5, <1>6, <1>7, <1>8 DEF StreamInv, Unseen

(* What an open end has still to read from one that has shut.              *)
LEMMA SamePending ==
    ASSUME StreamTypes, Phases, StreamTypes', Phases', NEW w \in BOOLEAN, Gapless(w), NEW v \in BOOLEAN, Gapless(v)',
           NEW e \in Ends, ~Shut(e), ~Shut(e)', Shut(Peer(e)), Shut(Peer(e))', got'[e] = got[e],
           ReadBy(e, v)' + Len(rx'[e]) + Len(pipe'[Peer(e)]) = ReadBy(e, w) + Len(rx[e]) + Len(pipe[Peer(e)])
    PROVE  Undelivered(Peer(e))' = Undelivered(Peer(e))
  <1> DEFINE q == Peer(e)
  <1>1. q \in Ends /\ Peer(q) = e
    BY EndsAreTwo
  <1>2. Limit(q, v)' = Limit(q, w)
    BY <1>1 DEF Limit
  <1>3. Undelivered(q) = {n \in Nat \ {0} : n > got[e] /\ 2 * (Greetings(q) + n) <= Limit(q, w)}
    BY <1>1, UndeliveredIs
  <1>4. Undelivered(q)' = {n \in Nat \ {0} : n > got'[e] /\ 2 * (Greetings(q) + n) <= Limit(q, v)'}
    BY <1>1, CountsNext DEF Counted
  <1> QED
    BY <1>2, <1>3, <1>4

LEMMA RecvAction ==
    ASSUME StreamInv, NEW e \in Ends, Recv(e)
    PROVE  StreamInv' /\ Unseen
  <1>0. PICK w \in BOOLEAN : Gapless(w)
    BY DEF StreamInv
  <1>1. StreamTypes /\ Phases
    BY DEF StreamInv
  <1>2. StreamTypes' /\ Phases' /\ Gapless(w)' /\ Len(rx'[e]) + Len(pipe'[Peer(e)]) = Len(rx[e]) + Len(pipe[Peer(e)])
    BY <1>0, <1>1, RecvKeeps
  <1>3. StreamInv'
    BY <1>2 DEF StreamInv
  <1>4. UNCHANGED <<state, tx, sent, got>> /\ Peer(e) \in Ends /\ Peer(e) # e /\ Peer(Peer(e)) = e
        /\ \A f \in Ends : f = e \/ f = Peer(e)
    BY EndsAreTwo DEF Recv
  <1>5. \A f \in Ends : Mode(f)' = Mode(f) /\ (Shut(f)' <=> Shut(f)) /\ ReadBy(f, w)' = ReadBy(f, w)
    BY <1>4 DEF Mode, Shut, ReadBy
  <1>6. ASSUME NEW f \in Ends, Shut(f), ~Shut(Peer(f))
        PROVE  Undelivered(f)' = Undelivered(f)
    <2>1. CASE f = e
      <3>1. rx'[Peer(e)] = rx[Peer(e)] /\ pipe'[e] = pipe[e]
        BY <1>1, <1>4 DEF Recv, StreamTypes
      <3> QED
        BY <1>4, <1>5, <1>6, <2>1, <3>1 DEF Undelivered
    <2>2. CASE f = Peer(e)
      <3>1. ~Shut(e) /\ Shut(Peer(e)) /\ ~Shut(e)' /\ Shut(Peer(e))'
        BY <1>4, <1>5, <1>6, <2>2
      <3>2. ReadBy(e, w)' + Len(rx'[e]) + Len(pipe'[Peer(e)]) = ReadBy(e, w) + Len(rx[e]) + Len(pipe[Peer(e)])
        <4> DEFINE a == Len(rx'[e])  b == Len(pipe'[Peer(e)])  c == Len(rx[e])  d == Len(pipe[Peer(e)])  o == ReadBy(e, w)
        <4>1. rx'[e] \in Seq(Units) /\ pipe'[Peer(e)] \in Seq(Units) /\ rx[e] \in Seq(Units) /\ pipe[Peer(e)] \in Seq(Units)
          BY <1>1, <1>2, <1>4 DEF StreamTypes
        <4>2. a \in Nat /\ b \in Nat /\ c \in Nat /\ d \in Nat /\ a + b = c + d
          <5>1. a \in Nat /\ b \in Nat /\ c \in Nat /\ d \in Nat
            BY <4>1
          <5>2. a + b = c + d
            BY <1>2
          <5> QED
            BY <5>1, <5>2
        <4>3. o \in Nat
          BY <1>0, <1>1, ReadIsNat
        <4> HIDE DEF a, b, c, d, o
        <4>4. o + a + b = o + c + d
          BY <4>2, <4>3
        <4> QED
          BY <1>5, <4>4 DEF a, b, c, d, o
      <3>3. got'[e] = got[e]
        BY <1>4
      <3> QED
        BY <1>0, <1>1, <1>2, <2>2, <3>1, <3>2, <3>3, SamePending
    <2> QED
      BY <1>4, <2>1, <2>2
  <1> QED
    BY <1>3, <1>4, <1>5, <1>6, SameView

(* A step of a live end e that flushes t and goes on in states s.          *)
LEMMA OutStep ==
    ASSUME StreamTypes, Phases, NEW w \in BOOLEAN, NEW v \in BOOLEAN, NEW e \in Ends, NEW t \in Seq(Units), NEW s,
           s \in [Ends -> {"Connecting", "Handshaking", "Established", "Closing", "Closed"}],
           s[Peer(e)] = state[Peer(e)], s[e] \in {"Handshaking", "Established"}, Flush(e, t, s), ~Shut(e),
           rx' \in [Ends -> Seq(Units)], sent' \in [Ends -> Nat], got' \in [Ends -> Nat],
           rx'[Peer(e)] = rx[Peer(e)], sent'[Peer(e)] = sent[Peer(e)], got'[Peer(e)] = got[Peer(e)],
           s[e] = "Handshaking" => sent'[e] = 0 /\ got'[e] = 0,
           ~Shut(Peer(e)) => InOrder(e, ReadBy(Peer(e), w), rx[Peer(e)], pipe[e], t),
           ~Shut(Peer(e)) /\ state' = s =>
               /\ ReadBy(Peer(e), v)' = ReadBy(Peer(e), w)
               /\ ReadBy(Peer(e), w) + Len(rx[Peer(e)]) + Len(pipe[e]) + Len(t) = SaidBy(e, v)',
           state' = s => Way(Peer(e), v)'
    PROVE  StreamTypes' /\ Phases' /\ Gapless(v)' /\ StreamInv'
  <1> DEFINE q == Peer(e)
  <1>1. q \in Ends /\ q # e /\ Peer(q) = e /\ \A f \in Ends : f = e \/ f = q
    BY EndsAreTwo
  <1>2. /\ state' = s \/ (state' = [s EXCEPT ![e] = "Closing"] /\ Shut(q))
        /\ pipe' \in [Ends -> Seq(Units)] /\ tx' \in [Ends -> Seq(Units)]
        /\ \A f \in Ends : Len(pipe'[f]) <= PipeCapacity
        /\ fin' = fin /\ rst' \in [Ends -> BOOLEAN]
        /\ \A f \in Ends : rst'[f] => Shut(f)
        /\ ~Shut(q) => state' = s
    BY FlushEffect
  <1>3. state' \in [Ends -> {"Connecting", "Handshaking", "Established", "Closing", "Closed"}]
    BY <1>2
  <1>4. state'[q] = state[q] /\ (state'[e] = s[e] \/ (state'[e] = "Closing" /\ Shut(q)))
    BY <1>1, <1>2
  <1>5. StreamTypes'
    BY <1>2, <1>3 DEF StreamTypes
  <1>6. Phases'
    <2> SUFFICES ASSUME NEW f \in Ends
                 PROVE  /\ fin'[f] \/ rst'[f] => Shut(f)'
                        /\ state'[f] \in {"Connecting", "Handshaking"} => sent'[f] = 0 /\ got'[f] = 0
      BY DEF Phases
    <2>1. CASE f = q
      BY <1>1, <1>2, <1>4, <2>1 DEF Phases, Shut
    <2>2. CASE f = e
      BY <1>2, <1>4, <2>2 DEF Phases
    <2> QED
      BY <1>1, <2>1, <2>2
  <1>7. ~Shut(q)' => Way(e, v)'
    <2> SUFFICES ASSUME ~Shut(q)' PROVE Way(e, v)'
      OBVIOUS
    <2>1. ~Shut(q)
      BY <1>4 DEF Shut
    <2> QED
      BY <1>2, <2>1, FlushWay
  <1>8. ~Shut(e)' => Way(q, v)'
    BY <1>2, <1>4 DEF Shut
  <1>9. Gapless(v)'
    BY <1>7, <1>8, TwoWays
  <1> QED
    BY <1>5, <1>6, <1>9 DEF StreamInv

(* What e has yet to read, when it only writes.                            *)
LEMMA WayIn ==
    ASSUME NEW w \in BOOLEAN, NEW e \in Ends, Way(Peer(e), w),
           rx'[e] = rx[e], pipe'[Peer(e)] = pipe[Peer(e)], tx'[Peer(e)] = tx[Peer(e)],
           ReadBy(e, w)' = ReadBy(e, w), state'[Peer(e)] = state[Peer(e)], sent'[Peer(e)] = sent[Peer(e)]
    PROVE  Way(Peer(e), w)'
  <1>1. Peer(Peer(e)) = e
    BY EndsAreTwo
  <1>2. SaidBy(Peer(e), w)' = SaidBy(Peer(e), w) /\ (Shut(Peer(e))' <=> Shut(Peer(e)))
    BY DEF SaidBy, Shut
  <1> QED
    BY <1>1, <1>2 DEF Way

LEMMA WritableAction ==
    ASSUME StreamInv, NEW e \in Ends, OnWritable(e)
    PROVE  StreamInv' /\ (Unseen \/ Channel!Shut(e))
  <1>0. PICK w \in BOOLEAN : Gapless(w)
    BY DEF StreamInv
  <1> DEFINE q == Peer(e)
  <1>1. StreamTypes /\ Phases /\ q \in Ends /\ q # e /\ Peer(q) = e /\ \A f \in Ends : f = e \/ f = q
    BY EndsAreTwo DEF StreamInv
  <1>2. Flush(e, tx[e], state) /\ UNCHANGED <<rx, sent, got>> /\ state[e] \in {"Handshaking", "Established"} /\ ~Shut(e)
    BY DEF OnWritable, LiveEnd, Shut
  <1>3. tx[e] \in Seq(Units)
    BY <1>1 DEF StreamTypes
  <1>4. /\ state' = state \/ (state' = [state EXCEPT ![e] = "Closing"] /\ Shut(q) /\ UNCHANGED pipe)
        /\ pipe'[q] = pipe[q] /\ tx'[q] = tx[q]
    BY <1>1, <1>2, <1>3, FlushEffect
  <1>5. StreamInv'
    <2>1. ~Shut(q) => /\ InOrder(e, ReadBy(q, w), rx[q], pipe[e], tx[e])
                      /\ ReadBy(q, w) + Len(rx[q]) + Len(pipe[e]) + Len(tx[e]) = SaidBy(e, w)
      BY <1>0, <1>2 DEF Gapless, Way
    <2>2. state' = state => \A f \in Ends : ReadBy(f, w)' = ReadBy(f, w) /\ SaidBy(f, w)' = SaidBy(f, w)
      BY <1>2 DEF ReadBy, SaidBy
    <2>3. state' = state => Way(q, w)'
      <3> SUFFICES ASSUME state' = state PROVE Way(q, w)'
        OBVIOUS
      <3>1. Way(q, w)
        BY <1>0, <1>1, <1>2 DEF Gapless
      <3>2. rx'[e] = rx[e] /\ state'[q] = state[q] /\ sent'[q] = sent[q] /\ ReadBy(e, w)' = ReadBy(e, w)
        BY <1>2, <2>2
      <3> QED
        BY <1>4, <3>1, <3>2, WayIn
    <2>4. state \in [Ends -> {"Connecting", "Handshaking", "Established", "Closing", "Closed"}]
          /\ rx' \in [Ends -> Seq(Units)] /\ sent' \in [Ends -> Nat] /\ got' \in [Ends -> Nat]
      BY <1>1, <1>2 DEF StreamTypes
    <2>5. state[e] = "Handshaking" => sent'[e] = 0 /\ got'[e] = 0
      BY <1>1, <1>2 DEF Phases
    <2> QED
      BY <1>0, <1>1, <1>2, <1>3, <2>1, <2>2, <2>3, <2>4, <2>5, OutStep
  <1>6. CASE state' = state
    <2>1. \A f \in Ends : Mode(f)' = Mode(f) /\ (Shut(f)' <=> Shut(f))
      BY <1>6 DEF Mode, Shut
    <2>2. ASSUME NEW f \in Ends, Shut(f), ~Shut(Peer(f)) PROVE Undelivered(f)' = Undelivered(f)
      <3>1. f = q
        BY <1>1, <1>2, <2>2
      <3> QED
        BY <1>1, <1>2, <1>4, <2>1, <2>2, <3>1 DEF Undelivered
    <2> QED
      BY <1>2, <1>5, <2>1, <2>2, SameView
  <1>7. CASE state' = [state EXCEPT ![e] = "Closing"] /\ UNCHANGED pipe
    <2>1. Shut(e)' /\ state'[q] = state[q]
      BY <1>1, <1>7 DEF Shut, StreamTypes
    <2> QED
      BY <1>2, <1>5, <1>7, <2>1, ShutView
  <1> QED
    BY <1>4, <1>6, <1>7

LEMMA ConnectAction ==
    ASSUME StreamInv, NEW e \in Ends, Connect(e)
    PROVE  StreamInv' /\ (Unseen \/ Channel!Shut(e))
  <1>0. PICK w \in BOOLEAN : Gapless(w)
    BY DEF StreamInv
  <1> DEFINE q == Peer(e)  s == [state EXCEPT ![e] = "Handshaking"]
  <1>1. StreamTypes /\ Phases /\ q \in Ends /\ q # e /\ Peer(q) = e /\ \A f \in Ends : f = e \/ f = q
    BY EndsAreTwo DEF StreamInv
  <1>2. Flush(e, Block(-1), s) /\ UNCHANGED <<rx, sent, got>> /\ state[e] = "Connecting" /\ e = "out" /\ ~Shut(e)
    BY DEF Connect, Shut
  <1>3. s \in [Ends -> {"Connecting", "Handshaking", "Established", "Closing", "Closed"}]
        /\ s[e] = "Handshaking" /\ s[q] = state[q]
    BY <1>1 DEF StreamTypes
  <1>4. Block(-1) \in Seq(Units) /\ Len(Block(-1)) = 2
    BY DEF Block, Units
  <1> HIDE DEF s
  <1>5. /\ state' = s \/ (state' = [s EXCEPT ![e] = "Closing"] /\ Shut(q) /\ UNCHANGED pipe)
        /\ pipe'[q] = pipe[q] /\ tx'[q] = tx[q]
    BY <1>1, <1>2, <1>4, FlushEffect
  <1>6. ~Shut(q) => /\ InOrder(e, ReadBy(q, w), rx[q], pipe[e], Block(-1)) /\ ReadBy(q, w) = 0
                    /\ Len(rx[q]) = 0 /\ Len(pipe[e]) = 0
    <2> SUFFICES ASSUME ~Shut(q)
                 PROVE  /\ InOrder(e, ReadBy(q, w), rx[q], pipe[e], Block(-1)) /\ ReadBy(q, w) = 0
                        /\ Len(rx[q]) = 0 /\ Len(pipe[e]) = 0
      OBVIOUS
    <2> DEFINE o == ReadBy(q, w)  r == rx[q]  p == pipe[e]  t == tx[e]
    <2>1. o \in Nat /\ r \in Seq(Units) /\ p \in Seq(Units) /\ t \in Seq(Units)
      BY <1>0, <1>1, ReadIsNat DEF StreamTypes
    <2>2. InOrder(e, o, r, p, t) /\ o + Len(r) + Len(p) + Len(t) = SaidBy(e, w)
      BY <1>0, <1>2 DEF Gapless, Way
    <2>3. SaidBy(e, w) = 0
      BY <1>2 DEF SaidBy
    <2> HIDE DEF o, r, p, t
    <2> DEFINE a == Len(r)  b == Len(p)  c == Len(t)
    <2>4. a \in Nat /\ b \in Nat /\ c \in Nat /\ o + a + b + c = 0
      BY <2>1, <2>2, <2>3
    <2> HIDE DEF a, b, c
    <2>5. o = 0 /\ a = 0 /\ b = 0
      BY <2>1, <2>4
    <2>6. Stretch(e, Block(-1), 0)
      BY <1>2 DEF Stretch, Block, Blocks, Index, Ends
    <2>7. o + Len(r) + Len(p) = 0
      BY <2>5 DEF a, b
    <2>8. InOrder(e, o, r, p, Block(-1))
      BY <2>2, <2>6, <2>7 DEF InOrder
    <2> QED
      BY <2>5, <2>8 DEF o, r, p, a, b
  <1>7. StreamInv'
    <2>1. state' = s => SaidBy(e, w)' = 2 /\ \A f \in Ends : ReadBy(f, w)' = ReadBy(f, w)
      BY <1>1, <1>2, <1>3 DEF ReadBy, SaidBy
    <2>2. state' = s => Way(q, w)'
      <3> SUFFICES ASSUME state' = s PROVE Way(q, w)'
        OBVIOUS
      <3>1. Way(q, w)
        BY <1>0, <1>1, <1>2 DEF Gapless
      <3>2. rx'[e] = rx[e] /\ state'[q] = state[q] /\ sent'[q] = sent[q] /\ ReadBy(e, w)' = ReadBy(e, w)
        BY <1>2, <1>3, <2>1
      <3> QED
        BY <1>5, <3>1, <3>2, WayIn
    <2>3. ~Shut(q) /\ state' = s =>
              /\ ReadBy(q, w)' = ReadBy(q, w)
              /\ ReadBy(q, w) + Len(rx[q]) + Len(pipe[e]) + Len(Block(-1)) = SaidBy(e, w)'
      <3>1. 0 + 0 + 0 + 2 = 2
        OBVIOUS
      <3> QED
        BY <1>1, <1>4, <1>6, <2>1, <3>1
    <2>4. rx' \in [Ends -> Seq(Units)] /\ sent' \in [Ends -> Nat] /\ got' \in [Ends -> Nat]
          /\ sent'[e] = 0 /\ got'[e] = 0 /\ rx'[q] = rx[q] /\ sent'[q] = sent[q] /\ got'[q] = got[q]
      BY <1>1, <1>2 DEF StreamTypes, Phases
    <2> QED
      BY <1>0, <1>1, <1>2, <1>3, <1>4, <1>6, <2>2, <2>3, <2>4, OutStep
  <1>8. CASE state' = s
    <2>1. \A f \in Ends : Mode(f)' = Mode(f) /\ (Shut(f)' <=> Shut(f))
      BY <1>1, <1>2, <1>3, <1>8 DEF Mode, Shut
    <2>2. ASSUME NEW f \in Ends, Shut(f), ~Shut(Peer(f)) PROVE Undelivered(f)' = Undelivered(f)
      <3>1. f = q
        BY <1>1, <1>2, <2>2
      <3> QED
        BY <1>1, <1>2, <1>5, <2>1, <2>2, <3>1 DEF Undelivered
    <2> QED
      BY <1>2, <1>7, <2>1, <2>2, SameView
  <1>9. CASE state' = [s EXCEPT ![e] = "Closing"] /\ UNCHANGED pipe
    <2>1. Shut(e)' /\ state'[q] = state[q]
      BY <1>1, <1>3, <1>9 DEF Shut
    <2> QED
      BY <1>2, <1>7, <1>9, <2>1, ShutView
  <1> QED
    BY <1>5, <1>7, <1>8, <1>9

(* The backlog with the next block of e behind it.                         *)
LEMMA NextBlock ==
    ASSUME StreamTypes, NEW w \in BOOLEAN, Gapless(w), NEW e \in Ends, ~Shut(e), NEW m \in Blocks(e),
           SaidBy(e, w) + 2 = 2 * Index(e, m)
    PROVE  /\ tx[e] \o Block(m) \in Seq(Units)
           /\ ~Shut(Peer(e)) =>
                 /\ InOrder(e, ReadBy(Peer(e), w), rx[Peer(e)], pipe[e], tx[e] \o Block(m))
                 /\ ReadBy(Peer(e), w) + Len(rx[Peer(e)]) + Len(pipe[e]) + Len(tx[e] \o Block(m)) = SaidBy(e, w) + 2
  <1> DEFINE o == ReadBy(Peer(e), w)  r == rx[Peer(e)]  p == pipe[e]  t == tx[e]
  <1>1. o \in Nat /\ r \in Seq(Units) /\ p \in Seq(Units) /\ t \in Seq(Units) /\ SaidBy(e, w) \in Nat
    BY EndsAreTwo, ReadIsNat DEF StreamTypes
  <1>2. t \o Block(m) \in Seq(Units)
    <2>1. Block(m) \in Seq(Units)
      BY DEF Block, Units, Blocks, Ends
    <2> HIDE DEF t
    <2> QED
      BY <1>1, <2>1
  <1>3. ASSUME ~Shut(Peer(e))
        PROVE  InOrder(e, o, r, p, t \o Block(m)) /\ o + Len(r) + Len(p) + Len(t \o Block(m)) = SaidBy(e, w) + 2
    <2>1. InOrder(e, o, r, p, t) /\ o + Len(r) + Len(p) + Len(t) = SaidBy(e, w)
      BY <1>3 DEF Gapless, Way
    <2> HIDE DEF o, r, p, t
    <2>2. o + Len(r) + Len(p) + Len(t) + 2 = 2 * Index(e, m)
      BY <2>1
    <2>3. Len(t \o Block(m)) = Len(t) + 2 /\ InOrder(e, o, r, p, t \o Block(m))
      BY <1>1, <2>1, <2>2, BlockAppended
    <2> DEFINE a == Len(r)  b == Len(p)  c == Len(t)  d == Len(t \o Block(m))  n == SaidBy(e, w)
    <2>4. a \in Nat /\ b \in Nat /\ c \in Nat
      BY <1>1
    <2>5. d = c + 2 /\ o + a + b + c = n /\ n \in Nat
      BY <1>1, <2>1, <2>3
    <2> HIDE DEF a, b, c, d, n
    <2>6. o + a + b + d = n + 2
      BY <1>1, <2>4, <2>5
    <2> QED
      BY <2>3, <2>6 DEF a, b, d, n
  <1> QED
    BY <1>2, <1>3

LEMMA SendAction ==
    ASSUME StreamInv, NEW e \in Ends, Send(e)
    PROVE  StreamInv' /\ (Channel!Send(e) \/ Channel!Shut(e))
  <1>0. PICK w \in BOOLEAN : Gapless(w)
    BY DEF StreamInv
  <1> DEFINE q == Peer(e)  m == sent[e] + 1  t == tx[e] \o Block(m)
  <1>1. StreamTypes /\ Phases /\ q \in Ends /\ q # e /\ Peer(q) = e /\ \A f \in Ends : f = e \/ f = q
    BY EndsAreTwo DEF StreamInv
  <1>2. UNCHANGED <<rx, got>> /\ state[e] = "Established" /\ ~Shut(e) /\ sent' = [sent EXCEPT ![e] = @ + 1]
    BY DEF Send, Shut
  <1>3. sent[e] \in Nat /\ sent' \in [Ends -> Nat] /\ sent'[e] = m /\ sent'[q] = sent[q] /\ m \in Nat \ {0}
    BY <1>1, <1>2 DEF StreamTypes
  <1>4. m \in Blocks(e) /\ Index(e, m) = m + Greetings(e) /\ Greetings(e) \in Nat
    BY <1>3 DEF Blocks, Index, Greetings
  <1>5. SaidBy(e, w) = 2 * (Greetings(e) + sent[e])
    BY <1>2 DEF SaidBy
  <1>6. SaidBy(e, w) + 2 = 2 * Index(e, m) /\ SaidBy(e, w) + 2 = 2 * (Greetings(e) + m)
    BY <1>3, <1>4, <1>5
  <1> HIDE DEF m
  <1>7. /\ t \in Seq(Units)
        /\ ~Shut(q) => /\ InOrder(e, ReadBy(q, w), rx[q], pipe[e], t)
                       /\ ReadBy(q, w) + Len(rx[q]) + Len(pipe[e]) + Len(t) = SaidBy(e, w) + 2
    BY <1>0, <1>1, <1>2, <1>4, <1>6, NextBlock
  <1> HIDE DEF t
  <1>8. ASSUME state' = [state EXCEPT ![e] = "Closing"], tx' = [tx EXCEPT ![e] = t], UNCHANGED kernel
        PROVE  StreamInv' /\ Channel!Shut(e)
    <2>1. UNCHANGED <<pipe, fin, rst>> /\ state'[e] = "Closing" /\ state'[q] = state[q] /\ tx'[e] = t /\ tx'[q] = tx[q]
      BY <1>1, <1>8 DEF kernel, StreamTypes
    <2>2. StreamTypes'
      BY <1>1, <1>2, <1>3, <1>7, <1>8, <2>1 DEF StreamTypes
    <2>3. Phases'
      <3> SUFFICES ASSUME NEW f \in Ends
                   PROVE  /\ fin'[f] \/ rst'[f] => Shut(f)'
                          /\ state'[f] \in {"Connecting", "Handshaking"} => sent'[f] = 0 /\ got'[f] = 0
        BY DEF Phases
      <3>1. CASE f = e
        BY <2>1, <3>1 DEF Shut
      <3>2. CASE f = q
        BY <1>1, <1>2, <1>3, <2>1, <3>2 DEF Phases, Shut
      <3> QED
        BY <1>1, <3>1, <3>2
    <2>4. Gapless(w)'
      <3>1. Shut(e)'
        BY <2>1 DEF Shut
      <3>2. ASSUME ~Shut(q)' PROVE Way(e, w)'
        <4>1. ~Shut(q) /\ ReadBy(q, w)' = ReadBy(q, w)
          BY <1>2, <2>1, <3>2 DEF Shut, ReadBy
        <4> QED
          BY <1>2, <1>7, <2>1, <3>1, <4>1 DEF Way
      <3> QED
        BY <3>1, <3>2, TwoWays
    <2>5. StreamInv'
      BY <1>0, <2>2, <2>3, <2>4 DEF StreamInv
    <2>6. Shut(e)' /\ rx'[q] = rx[q] /\ pipe'[e] = pipe[e]
      BY <1>2, <2>1 DEF Shut
    <2> QED
      BY <1>2, <2>1, <2>5, <2>6, ShutView
  <1>9. ASSUME Flush(e, t, state)
        PROVE  StreamInv' /\ (Channel!Send(e) \/ Channel!Shut(e))
    <2>1. /\ state' = state \/ (state' = [state EXCEPT ![e] = "Closing"] /\ Shut(q) /\ UNCHANGED pipe)
          /\ pipe'[q] = pipe[q] /\ tx'[q] = tx[q]
      BY <1>1, <1>7, <1>9, FlushEffect
    <2>2. StreamInv'
      <3>1. state' = state => /\ SaidBy(e, w)' = SaidBy(e, w) + 2
                              /\ \A f \in Ends : ReadBy(f, w)' = ReadBy(f, w)
        BY <1>2, <1>3, <1>6 DEF ReadBy, SaidBy
      <3>2. state' = state => Way(q, w)'
        <4> SUFFICES ASSUME state' = state PROVE Way(q, w)'
          OBVIOUS
        <4>1. Way(q, w)
          BY <1>0, <1>1, <1>2 DEF Gapless
        <4>2. rx'[e] = rx[e] /\ state'[q] = state[q] /\ ReadBy(e, w)' = ReadBy(e, w)
          BY <1>2, <3>1
        <4> QED
          BY <1>3, <2>1, <4>1, <4>2, WayIn
      <3>3. ~Shut(q) /\ state' = state =>
                /\ ReadBy(q, w)' = ReadBy(q, w)
                /\ ReadBy(q, w) + Len(rx[q]) + Len(pipe[e]) + Len(t) = SaidBy(e, w)'
        BY <1>1, <1>7, <3>1
      <3>4. state \in [Ends -> {"Connecting", "Handshaking", "Established", "Closing", "Closed"}]
            /\ rx' \in [Ends -> Seq(Units)] /\ got' \in [Ends -> Nat]
            /\ rx'[q] = rx[q] /\ got'[q] = got[q] /\ state[e] \in {"Handshaking", "Established"}
            /\ state[e] # "Handshaking"
        BY <1>1, <1>2 DEF StreamTypes
      <3> QED
        BY <1>0, <1>1, <1>2, <1>3, <1>7, <1>9, <3>2, <3>3, <3>4, OutStep
    <2>3. CASE state' = state
      <3>1. rx'[e] = rx[e]
        BY <1>2
      <3> QED
        BY <1>2, <2>1, <2>2, <2>3, <3>1, SendView
    <2>4. CASE state' = [state EXCEPT ![e] = "Closing"] /\ UNCHANGED pipe
      <3>1. Shut(e)' /\ state'[q] = state[q] /\ rx'[q] = rx[q] /\ pipe'[e] = pipe[e]
        BY <1>1, <1>2, <2>4 DEF Shut, StreamTypes
      <3> QED
        BY <1>2, <2>2, <3>1, ShutView
    <2> QED
      BY <2>1, <2>2, <2>3, <2>4
  <1>10. (state' = [state EXCEPT ![e] = "Closing"] /\ tx' = [tx EXCEPT ![e] = t] /\ UNCHANGED kernel) \/ Flush(e, t, state)
    BY DEF Send, t, m
  <1> QED
    BY <1>8, <1>9, <1>10

LEMMA DeliverAction ==
    ASSUME StreamInv, NEW e \in Ends, DeliverFrame(e)
    PROVE  StreamInv' /\ Channel!Deliver(e)
  <1>0. PICK w \in BOOLEAN : Gapless(w)
    BY DEF StreamInv
  <1> DEFINE q == Peer(e)  g == Greetings(q)  n == got[e]  j == g + n
  <1>1. StreamTypes /\ Phases /\ q \in Ends /\ q # e /\ Peer(q) = e /\ \A f \in Ends : f = e \/ f = q
    BY EndsAreTwo DEF StreamInv
  <1>2. /\ UNCHANGED <<state, tx, sent, pipe, fin, rst>> /\ state[e] = "Established" /\ ~Shut(e) /\ Len(rx[e]) >= 2
        /\ got' = [got EXCEPT ![e] = Body(e)] /\ rx' = [rx EXCEPT ![e] = SubSeq(@, 3, Len(@))]
    BY DEF DeliverFrame, kernel, Shut
  <1>3. n \in Nat /\ g \in {1, 2} /\ j \in Nat
    BY <1>1 DEF StreamTypes, Greetings
  <1>4. Way(q, w) /\ ReadBy(e, w) = 2 * j
    BY <1>0, <1>1, <1>2 DEF Gapless, ReadBy
  <1>5. Stretch(q, rx[e], 2 * j)
    BY <1>1, <1>4 DEF Way, InOrder
  <1>6. Body(e) \in Blocks(q) /\ Index(q, Body(e)) = j + 1
    BY <1>1, <1>2, <1>3, <1>5, FirstBlock
  <1>7. Body(e) = n + 1
    BY <1>3, <1>6 DEF Index, Blocks, Greetings
  <1>8. got' = [got EXCEPT ![e] = @ + 1] /\ got'[e] = n + 1 /\ got'[q] = got[q] /\ got' \in [Ends -> Nat]
    BY <1>1, <1>2, <1>3, <1>7 DEF StreamTypes
  <1>9. ReadBy(e, w)' = 2 * (j + 1)
    BY <1>1, <1>2, <1>3, <1>8 DEF ReadBy
  <1>10. (Shut(q)' <=> Shut(q)) /\ (Shut(e)' <=> Shut(e)) /\ SaidBy(q, w)' = SaidBy(q, w) /\ ReadBy(q, w)' = ReadBy(q, w)
    BY <1>2, <1>8 DEF Shut, SaidBy, ReadBy
  <1> HIDE DEF j
  <1>11. /\ Way(q, w)' /\ rx' \in [Ends -> Seq(Units)] /\ rx'[q] = rx[q]
         /\ ReadBy(e, w)' + Len(rx'[e]) = ReadBy(e, w) + Len(rx[e])
    <2>1. /\ pipe'[Peer(e)] = pipe[Peer(e)] /\ tx'[Peer(e)] = tx[Peer(e)] /\ Way(Peer(e), w)
          /\ (Shut(Peer(e))' <=> Shut(Peer(e))) /\ SaidBy(Peer(e), w)' = SaidBy(Peer(e), w)
      BY <1>2, <1>4, <1>10
    <2>2. ReadBy(e, w) = 2 * j /\ j \in Nat
      BY <1>3, <1>4
    <2>3. rx' \in [Ends -> Seq(Units)] /\ rx'[Peer(e)] = rx[Peer(e)] /\ rx'[e] = SubSeq(rx[e], 3, Len(rx[e]))
      BY <1>1, <1>2, BufferConsumed
    <2>4. Way(Peer(e), w)' /\ ReadBy(e, w)' + Len(rx'[e]) = ReadBy(e, w) + Len(rx[e])
      BY <1>0, <1>1, <1>2, <1>9, <2>1, <2>2, <2>3, ConsumeWay
    <2> QED
      BY <2>3, <2>4
  <1>12. Gapless(w)'
    <2>1. ASSUME ~Shut(q)' PROVE Way(e, w)'
      <3>1. Way(Peer(q), w)
        BY <1>0, <1>1, <1>10, <2>1 DEF Gapless
      <3>2. /\ pipe'[Peer(q)] = pipe[Peer(q)] /\ tx'[Peer(q)] = tx[Peer(q)]
            /\ state'[Peer(q)] = state[Peer(q)] /\ sent'[Peer(q)] = sent[Peer(q)]
        BY <1>2
      <3>3. Way(Peer(q), w)'
        BY <1>0, <1>1, <1>10, <1>11, <3>1, <3>2, WayIn
      <3> QED
        BY <1>1, <3>3
    <2> QED
      BY <1>11, <2>1, TwoWays
  <1>13. StreamTypes' /\ Phases'
    <2>1. StreamTypes'
      BY <1>1, <1>2, <1>8, <1>11 DEF StreamTypes
    <2>2. Phases'
      BY <1>1, <1>2, <1>8, <1>10 DEF Phases
    <2> QED
      BY <2>1, <2>2
  <1>14. StreamInv'
    BY <1>0, <1>12, <1>13 DEF StreamInv
  <1> DEFINE U == [f \in Ends |-> Undelivered(f)]  M == [f \in Ends |-> Mode(f)]
  <1>15. M[e] = "open" /\ M' = M
    BY <1>2 DEF Mode, Shut
  <1>16. Limit(q, w)' = Limit(q, w) /\ 2 * (g + (n + 1)) <= Limit(q, w)
    <2> DEFINE a == Len(rx[e])  b == Len(pipe[q])  c == Len(tx[q])  d == Len(rx'[e])  z == ReadBy(e, w)  y == ReadBy(e, w)'
    <2>1. rx[e] \in Seq(Units) /\ pipe[q] \in Seq(Units) /\ tx[q] \in Seq(Units) /\ rx'[e] \in Seq(Units)
      BY <1>1, <1>11 DEF StreamTypes
    <2>2. a \in Nat /\ b \in Nat /\ c \in Nat /\ d \in Nat
      BY <2>1
    <2>3. z = 2 * (g + n) /\ y = 2 * ((g + n) + 1) /\ a >= 2 /\ y + d = z + a
      BY <1>2, <1>4, <1>9, <1>11 DEF j
    <2>4. Shut(q) => Limit(q, w) = z + a + b /\ Limit(q, w)' = y + d + b
      BY <1>1, <1>2, <1>10 DEF Limit
    <2>5. ~Shut(q) => Limit(q, w) = z + a + b + c /\ Limit(q, w)' = Limit(q, w)
      BY <1>1, <1>4, <1>10 DEF Limit, Way
    <2> HIDE DEF a, b, c, d, z, y, n, g, q
    <2> QED
      BY <1>3, <2>2, <2>3, <2>4, <2>5
  <1>17. Undelivered(q) = {k \in Nat \ {0} : k > got[e] /\ 2 * (Greetings(q) + k) <= Limit(q, w)}
    BY <1>0, <1>1, <1>2, UndeliveredIs
  <1>18. Undelivered(q)' = {k \in Nat \ {0} : k > got'[e] /\ 2 * (Greetings(q) + k) <= Limit(q, w)'}
    BY <1>0, <1>1, <1>2, <1>10, <1>12, <1>13, CountsNext DEF Counted
  <1>19. n + 1 \in Undelivered(q) /\ Undelivered(q)' = Undelivered(q) \ {n + 1}
    <2>1. got[e] = n /\ Greetings(q) = g
      OBVIOUS
    <2> HIDE DEF n, g, q
    <2> QED
      BY <1>3, <1>8, <1>16, <1>17, <1>18, <2>1
  <1>20. Undelivered(e)' = Undelivered(e)
    <2>1. CASE Shut(q)
      BY <1>10, <2>1 DEF Undelivered
    <2>2. CASE ~Shut(q)
      <3>1. Undelivered(e) = {k \in Nat \ {0} : k > got[q] /\ k <= sent[e]}
        BY <1>2, <2>2, OpenWays
      <3>2. Undelivered(e)' = {k \in Nat \ {0} : k > got'[q] /\ k <= sent'[e]}
        BY <1>2, <1>10, <1>14, <2>2, CountsNext DEF Counted
      <3> QED
        BY <1>2, <1>8, <3>1, <3>2
    <2> QED
      BY <2>1, <2>2
  <1>21. U' = [U EXCEPT ![q] = @ \ {got[e] + 1}] /\ got[e] + 1 \in U[q]
    BY <1>1, <1>19, <1>20
  <1> QED
    BY <1>2, <1>8, <1>14, <1>15, <1>21 DEF Channel!Deliver

(* A consumed handshake block changes nothing that the users see but that  *)
(* the end may open.                                                       *)
LEMMA GreetView ==
    ASSUME StreamInv, StreamInv', NEW w \in BOOLEAN, Gapless(w), NEW v \in BOOLEAN, Gapless(v)',
           NEW e \in Ends, state[e] = "Handshaking", state'[e] \in {"Handshaking", "Established"},
           state' = state \/ state' = [state EXCEPT ![e] = "Established"],
           UNCHANGED <<sent, got>>, pipe'[Peer(e)] = pipe[Peer(e)],
           ReadBy(e, v)' + Len(rx'[e]) = ReadBy(e, w) + Len(rx[e])
    PROVE  Unseen \/ Channel!Open(e)
  <1> DEFINE q == Peer(e)  M == [f \in Ends |-> Mode(f)]  U == [f \in Ends |-> Undelivered(f)]
  <1>1. StreamTypes /\ Phases /\ StreamTypes' /\ Phases' /\ q \in Ends /\ q # e /\ Peer(q) = e /\ \A f \in Ends : f = e \/ f = q
    BY EndsAreTwo DEF StreamInv
  <1>2. \A f \in Ends : (Shut(f)' <=> Shut(f)) /\ (f # e => state'[f] = state[f])
    BY <1>1 DEF Shut, StreamTypes
  <1>3. ~Shut(e) /\ ~Shut(e)'
    BY DEF Shut
  <1>4. ASSUME NEW f \in Ends PROVE Undelivered(f)' = Undelivered(f)
    <2>1. Peer(f) \in Ends
      BY EndsAreTwo
    <2>2. CASE Shut(Peer(f))
      BY <1>2, <2>1, <2>2 DEF Undelivered
    <2>3. CASE ~Shut(Peer(f)) /\ ~Shut(f)
      <3>1. Undelivered(f) = {n \in Nat \ {0} : n > got[Peer(f)] /\ n <= sent[f]}
        BY <2>3, OpenWays
      <3>2. Undelivered(f)' = {n \in Nat \ {0} : n > got'[Peer(f)] /\ n <= sent'[f]}
        BY <1>2, <2>1, <2>3, CountsNext DEF Counted
      <3> QED
        BY <3>1, <3>2
    <2>4. CASE ~Shut(Peer(f)) /\ Shut(f)
      <3>1. f = q /\ Shut(q) /\ Shut(q)'
        BY <1>1, <1>2, <1>3, <2>4
      <3>2. ReadBy(e, v)' + Len(rx'[e]) + Len(pipe'[q]) = ReadBy(e, w) + Len(rx[e]) + Len(pipe[q])
        OBVIOUS
      <3>3. Undelivered(q)' = Undelivered(q)
        BY <1>1, <1>3, <3>1, <3>2, SamePending
      <3> QED
        BY <3>1, <3>3
    <2> QED
      BY <2>2, <2>3, <2>4
  <1>5. CASE state' = state
    <2>1. \A f \in Ends : Mode(f)' = Mode(f)
      BY <1>5 DEF Mode, Shut
    <2> QED
      BY <1>4, <2>1 DEF Unseen
  <1>6. CASE state' = [state EXCEPT ![e] = "Established"]
    <2>1. \A f \in Ends : Mode(f)' = IF f = e THEN "open" ELSE Mode(f)
      BY <1>1, <1>2, <1>6 DEF Mode, Shut, StreamTypes
    <2>2. M[e] = "new" /\ M' = [M EXCEPT ![e] = "open"] /\ U' = U
      BY <1>4, <2>1 DEF Mode, Shut
    <2> QED
      BY <2>2 DEF Channel!Open
  <1> QED
    BY <1>5, <1>6

LEMMA HandshakeAction ==
    ASSUME StreamInv, NEW e \in Ends, DriveHandshake(e)
    PROVE  StreamInv' /\ (Unseen \/ Channel!Open(e) \/ Channel!Shut(e))
  <1>0. PICK w \in BOOLEAN : Gapless(w)
    BY DEF StreamInv
  <1> DEFINE q == Peer(e)
  <1>1. StreamTypes /\ Phases /\ q \in Ends /\ q # e /\ Peer(q) = e /\ \A f \in Ends : f = e \/ f = q
    BY EndsAreTwo DEF StreamInv
  <1>2. /\ state[e] = "Handshaking" /\ ~Shut(e) /\ Len(rx[e]) >= 2 /\ UNCHANGED <<sent, got>>
        /\ rx' = [rx EXCEPT ![e] = SubSeq(@, 3, Len(@))]
    BY DEF DriveHandshake, Shut
  <1>3. sent[e] = 0 /\ got[e] = 0
    BY <1>1, <1>2 DEF Phases
  <1>4. Way(q, w)
    BY <1>0, <1>1, <1>2 DEF Gapless
  <1>5. Stretch(q, rx[e], ReadBy(e, w))
    BY <1>1, <1>4 DEF Way, InOrder
  <1>6. sent' \in [Ends -> Nat] /\ got' \in [Ends -> Nat] /\ sent'[e] = 0 /\ got'[e] = 0
        /\ sent'[q] = sent[q] /\ got'[q] = got[q]
    BY <1>1, <1>2, <1>3 DEF StreamTypes
  (* An answer m of e, which ends up in state x.                           *)
  <1>7. ASSUME NEW j \in Nat, NEW v \in BOOLEAN, NEW x \in {"Handshaking", "Established"}, NEW m \in Blocks(e),
               ReadBy(e, w) = 2 * j, SaidBy(e, w) + 2 = 2 * Index(e, m),
               Flush(e, tx[e] \o Block(m), [state EXCEPT ![e] = x]),
               state'[e] = x => ReadBy(e, v)' = 2 * (j + 1) /\ SaidBy(e, v)' = SaidBy(e, w) + 2,
               state'[q] = state[q] => ReadBy(q, v)' = ReadBy(q, w) /\ SaidBy(q, v)' = SaidBy(q, w)
        PROVE  StreamInv' /\ (Unseen \/ Channel!Open(e) \/ Channel!Shut(e))
    <2> DEFINE t == tx[e] \o Block(m)  s == [state EXCEPT ![e] = x]
    <2>1. /\ t \in Seq(Units)
          /\ ~Shut(q) => /\ InOrder(e, ReadBy(q, w), rx[q], pipe[e], t)
                         /\ ReadBy(q, w) + Len(rx[q]) + Len(pipe[e]) + Len(t) = SaidBy(e, w) + 2
      BY <1>0, <1>1, <1>2, <1>7, NextBlock
    <2>2. s \in [Ends -> {"Connecting", "Handshaking", "Established", "Closing", "Closed"}]
          /\ s[q] = state[q] /\ s[e] = x
      BY <1>1 DEF StreamTypes
    <2>3. Flush(e, t, s) /\ (x = "Established" \/ s = state)
      BY <1>1, <1>2, <1>7 DEF StreamTypes
    <2>4. s = state \/ s = [state EXCEPT ![e] = "Established"]
      BY <1>7, <2>3
    <2> HIDE DEF t, s
    <2>5. /\ state' = s \/ (state' = [s EXCEPT ![e] = "Closing"] /\ Shut(q) /\ UNCHANGED pipe)
          /\ pipe'[q] = pipe[q] /\ tx'[q] = tx[q]
      BY <1>1, <2>1, <2>3, FlushEffect
    <2>6. rx' \in [Ends -> Seq(Units)] /\ rx'[q] = rx[q] /\ rx'[e] = SubSeq(rx[e], 3, Len(rx[e]))
      BY <1>1, <1>2, BufferConsumed
    <2>7. ASSUME state' = s
          PROVE  Way(q, v)' /\ ReadBy(e, v)' + Len(rx'[e]) = ReadBy(e, w) + Len(rx[e])
      <3>1. state'[q] = state[q] /\ state'[e] = x
        BY <2>2, <2>7
      <3>2. /\ (Shut(Peer(e))' <=> Shut(Peer(e))) /\ SaidBy(Peer(e), v)' = SaidBy(Peer(e), w)
            /\ ReadBy(e, v)' = 2 * (j + 1) /\ Way(Peer(e), w) /\ pipe'[Peer(e)] = pipe[Peer(e)]
            /\ tx'[Peer(e)] = tx[Peer(e)]
        BY <1>4, <1>7, <2>5, <3>1 DEF Shut
      <3>3. Way(Peer(e), v)' /\ ReadBy(e, v)' + Len(rx'[e]) = ReadBy(e, w) + Len(rx[e])
        <4>1. /\ StreamTypes /\ w \in BOOLEAN /\ v \in BOOLEAN /\ j \in Nat /\ Len(rx[e]) >= 2
              /\ ReadBy(e, w) = 2 * j /\ rx'[e] = SubSeq(rx[e], 3, Len(rx[e]))
          BY <1>0, <1>1, <1>2, <1>7, <2>6
        <4> QED
          BY <3>2, <4>1, ConsumeWay
      <3> QED
        BY <3>3
    <2>8. StreamTypes' /\ Phases' /\ Gapless(v)' /\ StreamInv'
      <3>1. ~Shut(q) /\ state' = s =>
                /\ ReadBy(q, v)' = ReadBy(q, w)
                /\ ReadBy(q, w) + Len(rx[q]) + Len(pipe[e]) + Len(t) = SaidBy(e, v)'
        BY <1>7, <2>1, <2>2
      <3>2. state' = s => Way(q, v)'
        BY <2>7
      <3>3. ~Shut(q) => InOrder(e, ReadBy(q, w), rx[q], pipe[e], t)
        BY <2>1
      <3>4. s[e] \in {"Handshaking", "Established"} /\ t \in Seq(Units) /\ v \in BOOLEAN
        BY <1>7, <2>1, <2>2
      <3> QED
        BY <1>0, <1>1, <1>2, <1>6, <2>2, <2>3, <2>6, <3>1, <3>2, <3>3, <3>4, OutStep
    <2>9. CASE state' = s
      <3>1. state'[e] \in {"Handshaking", "Established"} /\ (state' = state \/ state' = [state EXCEPT ![e] = "Established"])
        BY <1>7, <2>2, <2>4, <2>9
      <3>2. ReadBy(e, v)' + Len(rx'[e]) = ReadBy(e, w) + Len(rx[e])
        BY <2>7, <2>9
      <3> QED
        BY <1>0, <1>2, <1>7, <2>5, <2>8, <3>1, <3>2, GreetView
    <2>10. CASE state' = [s EXCEPT ![e] = "Closing"] /\ UNCHANGED pipe
      <3>1. Shut(e)' /\ state'[q] = state[q] /\ pipe'[e] = pipe[e]
        BY <1>1, <2>2, <2>10 DEF Shut
      <3>2. Channel!Shut(e)
        BY <1>2, <2>6, <3>1, ShutView
      <3> QED
        BY <2>8, <3>2
    <2> QED
      BY <2>5, <2>8, <2>9, <2>10
  (* The initiator reads the answer and says its last message.             *)
  <1>8. CASE e = "out"
    <2>1. ReadBy(e, w) = 2 * 0 /\ SaidBy(e, w) = 2 /\ q = "in" /\ -3 \in Blocks(e) /\ Index(e, -3) = 2
      BY <1>2, <1>8 DEF ReadBy, SaidBy, Peer, Blocks, Index
    <2>2. Body(e) \in Blocks(q) /\ Index(q, Body(e)) = 0 + 1
      BY <1>1, <1>2, <1>5, <2>1, FirstBlock
    <2>3. Body(e) = -2
      BY <2>1, <2>2 DEF Blocks, Index, Greetings
    <2>4. Flush(e, tx[e] \o Block(-3), [state EXCEPT ![e] = "Established"])
      BY <2>3 DEF DriveHandshake
    <2>5. state'[e] = "Established" => ReadBy(e, w)' = 2 * (0 + 1) /\ SaidBy(e, w)' = SaidBy(e, w) + 2
      BY <1>6, <1>8, <2>1 DEF ReadBy, SaidBy, Greetings
    <2>6. state'[q] = state[q] => ReadBy(q, w)' = ReadBy(q, w) /\ SaidBy(q, w)' = SaidBy(q, w)
      BY <1>6 DEF ReadBy, SaidBy
    <2>7. SaidBy(e, w) + 2 = 2 * Index(e, -3)
      BY <2>1
    <2> QED
      BY <1>0, <1>7, <2>1, <2>4, <2>5, <2>6, <2>7
  (* The responder answers the first message.                              *)
  <1>9. CASE e = "in" /\ ~w
    <2>0. PICK v \in BOOLEAN : v
      OBVIOUS
    <2>1. ReadBy(e, w) = 2 * 0 /\ SaidBy(e, w) = 0 /\ q = "out" /\ -2 \in Blocks(e) /\ Index(e, -2) = 1
      BY <1>2, <1>9 DEF ReadBy, SaidBy, Peer, Blocks, Index
    <2>2. Body(e) \in Blocks(q) /\ Index(q, Body(e)) = 0 + 1
      BY <1>1, <1>2, <1>5, <2>1, FirstBlock
    <2>3. Body(e) = -1
      BY <2>1, <2>2 DEF Blocks, Index, Greetings
    <2>4. Flush(e, tx[e] \o Block(-2), [state EXCEPT ![e] = "Handshaking"])
      <3>1. state = [state EXCEPT ![e] = "Handshaking"]
        BY <1>1, <1>2 DEF StreamTypes
      <3>2. Flush(e, tx[e] \o Block(-2), state)
        BY <2>3 DEF DriveHandshake
      <3> QED
        BY <3>1, <3>2
    <2>5. state'[e] = "Handshaking" => ReadBy(e, v)' = 2 * (0 + 1) /\ SaidBy(e, v)' = SaidBy(e, w) + 2
      BY <1>6, <1>9, <2>0, <2>1 DEF ReadBy, SaidBy
    <2>6. state'[q] = state[q] => ReadBy(q, v)' = ReadBy(q, w) /\ SaidBy(q, v)' = SaidBy(q, w)
      BY <1>6, <2>0, <2>1 DEF ReadBy, SaidBy
    <2>7. SaidBy(e, w) + 2 = 2 * Index(e, -2)
      BY <2>1
    <2> QED
      <3>1. 0 \in Nat /\ v \in BOOLEAN /\ "Handshaking" \in {"Handshaking", "Established"} /\ -2 \in Blocks(e)
        BY <2>0, <2>1
      <3>2. ReadBy(e, w) = 2 * 0
        BY <2>1
      <3> HIDE <1>9
      <3> QED
        BY <1>0, <1>7, <2>4, <2>5, <2>6, <2>7, <3>1, <3>2, SMTT(60)
  (* The responder reads the last message.                                 *)
  <1>10. CASE e = "in" /\ w
    <2>1. ReadBy(e, w) = 2 * 1 /\ SaidBy(e, w) = 2 /\ q = "out"
      BY <1>2, <1>10 DEF ReadBy, SaidBy, Peer
    <2>2. Body(e) \in Blocks(q) /\ Index(q, Body(e)) = 1 + 1
      BY <1>1, <1>2, <1>5, <2>1, FirstBlock
    <2>3. Body(e) = -3
      BY <2>1, <2>2 DEF Blocks, Index, Greetings
    <2>4. state' = [state EXCEPT ![e] = "Established"] /\ UNCHANGED <<tx, pipe, fin, rst>>
      BY <2>3 DEF DriveHandshake, kernel
    <2>5. state'[e] = "Established" /\ state'[q] = state[q]
          /\ state' \in [Ends -> {"Connecting", "Handshaking", "Established", "Closing", "Closed"}]
      BY <1>1, <2>4 DEF StreamTypes
    <2>6. ReadBy(e, w)' = 2 * (1 + 1) /\ SaidBy(e, w)' = SaidBy(e, w)
          /\ ReadBy(q, w)' = ReadBy(q, w) /\ SaidBy(q, w)' = SaidBy(q, w)
      BY <1>1, <1>6, <1>10, <2>1, <2>5 DEF ReadBy, SaidBy, Greetings
    <2>7. \A f \in Ends : Shut(f)' <=> Shut(f)
      BY <1>1, <1>2, <2>5 DEF Shut
    <2>8. /\ Way(q, w)' /\ rx' \in [Ends -> Seq(Units)] /\ rx'[q] = rx[q]
          /\ ReadBy(e, w)' + Len(rx'[e]) = ReadBy(e, w) + Len(rx[e])
      <3>1. /\ pipe'[Peer(e)] = pipe[Peer(e)] /\ tx'[Peer(e)] = tx[Peer(e)] /\ Way(Peer(e), w)
            /\ (Shut(Peer(e))' <=> Shut(Peer(e))) /\ SaidBy(Peer(e), w)' = SaidBy(Peer(e), w)
        BY <1>1, <1>4, <2>4, <2>6, <2>7
      <3>2. rx' \in [Ends -> Seq(Units)] /\ rx'[Peer(e)] = rx[Peer(e)] /\ rx'[e] = SubSeq(rx[e], 3, Len(rx[e]))
        BY <1>1, <1>2, BufferConsumed
      <3>3. 1 \in Nat /\ ReadBy(e, w) = 2 * 1 /\ ReadBy(e, w)' = 2 * (1 + 1)
        BY <2>1, <2>6
      <3>4. Way(Peer(e), w)' /\ ReadBy(e, w)' + Len(rx'[e]) = ReadBy(e, w) + Len(rx[e])
        BY <1>0, <1>1, <1>2, <3>1, <3>2, <3>3, ConsumeWay
      <3> QED
        BY <3>2, <3>4
    <2>9. ~Shut(q)' => Way(e, w)'
      <3> SUFFICES ASSUME ~Shut(q)' PROVE Way(e, w)'
        OBVIOUS
      <3>1. Way(e, w)
        BY <1>0, <1>1, <2>7 DEF Gapless
      <3> QED
        BY <1>2, <2>4, <2>6, <2>7, <2>8, <3>1 DEF Way
    <2>10. Gapless(w)'
      BY <2>8, <2>9, TwoWays
    <2>11. StreamTypes' /\ Phases'
      <3>1. StreamTypes'
        BY <1>1, <1>6, <2>4, <2>5, <2>8 DEF StreamTypes
      <3>2. Phases'
        BY <1>1, <1>2, <2>4, <2>5, <2>7 DEF Phases
      <3> QED
        BY <3>1, <3>2
    <2>12. StreamInv'
      BY <1>0, <2>10, <2>11 DEF StreamInv
    <2>13. pipe'[Peer(e)] = pipe[Peer(e)] /\ state'[e] \in {"Handshaking", "Established"}
      BY <2>4, <2>5
    <2>14. Unseen \/ Channel!Open(e)
      BY <1>0, <1>2, <2>4, <2>8, <2>10, <2>12, <2>13, GreetView
    <2> QED
      BY <2>12, <2>14
  <1> QED
    BY <1>8, <1>9, <1>10 DEF Ends

(* Whatever the kernel cuts, delays or resets, with any poller, buffer     *)
(* sizes and number of frames, two Connections implement the ordered       *)
(* channel of FrameChannel: process_blocks and deliver_frame hand over     *)
(* frames in the order send() took them, none twice, none skipped, and     *)
(* only between on_established and the close.                              *)
THEOREM ConnectionIsChannel == ConnSpec => IsChannel
  <1>1. ASSUME StreamInv, [ConnNext]_endVars
        PROVE  StreamInv' /\ [Channel!Next]_(Channel!vars)
    <2>1. CASE UNCHANGED endVars
      <3>1. UNCHANGED <<rx, tx, pipe, sent, got, state, fin, rst>>
        BY <2>1 DEF endVars, ends, kernel
      <3>2. StreamInv'
        <4>1. "out" \in Ends
          BY DEF Ends
        <4>2. fin' \in [Ends -> BOOLEAN] /\ rst' \in [Ends -> BOOLEAN] /\ \A f \in Ends : fin'[f] \/ rst'[f] => Shut(f)'
          BY <1>1, <3>1 DEF StreamInv, StreamTypes, Phases, Shut
        <4> QED
          BY <1>1, <3>1, <4>1, <4>2, StillStep
      <3>3. Unseen
        BY <3>1 DEF Unseen, Mode, Shut, Undelivered
      <3> QED
        BY <3>2, <3>3, UnseenStutters
    <2>2. ASSUME NEW e \in Ends, Step(e) \/ ConnectFails(e) \/ Send(e) \/ Close(e)
          PROVE  StreamInv' /\ (Unseen \/ Channel!Open(e) \/ Channel!Send(e) \/ Channel!Deliver(e) \/ Channel!Shut(e))
      BY <1>1, <2>2, QuietActions, TeardownAction, AcceptAction, RecvAction, WritableAction, ConnectAction,
         SendAction, DeliverAction, HandshakeAction DEF Step
    <2> QED
      BY <1>1, <2>1, <2>2, UnseenStutters DEF ConnNext, Channel!Next
  <1> QED
    BY <1>1, StreamInit, ChannelInit, PTL DEF ConnSpec, IsChannel, Channel!Spec

=============================================================================
