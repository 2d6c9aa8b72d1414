----------------------------- MODULE Host_proofs ----------------------------
(***************************************************************************)
(* Proofs about the reactor, the watch over the host and the channel of a  *)
(* connection, for any descriptors, ports, data and bounds.  The reactor:  *)
(* one on_closed per connection, and who may be torn down; descriptors are *)
(* handed out again, so both rest on what the maps keyed by descriptor say *)
(* about the connection that has the descriptor now.  The watch: a node    *)
(* that has stopped leaves no port mapping behind.  The channel: what the  *)
(* handshake authenticates and the session delivers, whatever happens to   *)
(* frames.                                                                 *)
(***************************************************************************)
EXTENDS Reactor, HostWatch, Noise, SequenceTheorems, TLAPS

(* The reactor.                                                            *)

(* conns_ holds an id under one descriptor only, and only ids given out.   *)
Adopted ==
    /\ \A f, g \in Fds : conns[f] = conns[g] /\ conns[f] # 0 => f = g
    /\ \A f \in Fds : conns[f] < nextId

IndInv == TypeOK /\ Adopted /\ ClosedExactlyOnce

(* A batch exists only while it is worked off.                             *)
BatchTime == batch # {} => phase \in {"teardown", "finalTeardown"}

(* Nothing is left of an earlier start before the first.                   *)
FreshStart == starts = 0 => phase = "off" /\ pending = {} /\ timers = {}

(* The first run of the loop, as far as no handler has closed inline.      *)
FirstRun == starts = 1 /\ ~inline /\ phase # "off"

(* A mark is for the connection that has the descriptor now.               *)
MarksHonest == FirstRun => \A f \in pending \cup batch : conns[f] \in asked

(* A timer that is not cancelled belongs to the connection that has its    *)
(* descriptor now, and that connection would cancel it.                    *)
TimersHonest ==
    FirstRun => \A t \in timers : t.tid \notin cancelled => conns[t.fd] = t.tid /\ t.tid \in armed

(* No mark is made while a batch is worked off.                            *)
NoLateMarks == FirstRun /\ phase \in {"teardown", "finalTeardown"} => pending = {}

(* A timer is named by the connection it was armed for.                    *)
TimersNamed ==
    /\ \A t, u \in timers : t.tid = u.tid => t = u
    /\ \A t \in timers : t.tid < nextId

CondInv ==
    /\ IndInv /\ BatchTime /\ FreshStart /\ MarksHonest /\ TimersHonest /\ NoLateMarks /\ TimersNamed

LEMMA InitInd == Init => IndInv
  <1> SUFFICES ASSUME Init PROVE IndInv
    OBVIOUS
  <1>1. TypeOK
    <2>1. running \in BOOLEAN /\ phase \in Phases /\ inline \in BOOLEAN
      BY DEF Init, Phases
    <2>2. starts \in 0..MaxStarts /\ nextId \in 1..MaxConns + 1
      BY ReactorAssumption DEF Init
    <2>3. tasks \in Seq(Task) /\ Len(tasks) <= MaxPosts /\ scratch \in Seq(Task)
      BY ReactorAssumption DEF Init
    <2>4. conns \in [Fds -> 0..MaxConns] /\ state \in [Ids -> States] /\ closed \in [Ids -> Nat]
      BY ReactorAssumption DEF Init, States
    <2> QED
      BY <2>1, <2>2, <2>3, <2>4 DEF Init, TypeOK
  <1>2. Adopted
    BY DEF Init, Adopted
  <1>3. ClosedExactlyOnce
    BY DEF Init, ClosedExactlyOnce, Ids
  <1> QED
    BY <1>1, <1>2, <1>3 DEF IndInv

(* A live connection is found under its descriptor.                        *)
LEMMA FdOfLive ==
    ASSUME NEW id, Live(id)
    PROVE  FdOf(id) \in Fds /\ conns[FdOf(id)] = id
  BY DEF Live, FdOf

LEMMA VictimsLive ==
    ASSUME NEW vs \in Victims
    PROVE  /\ vs \subseteq Ids
           /\ {FdOf(v) : v \in vs} \subseteq Fds
           /\ \A v \in vs : Live(v)
  <1>1. \A v \in vs : v \in Ids /\ Live(v)
    BY DEF Victims
  <1> QED
    BY <1>1, FdOfLive

(* The connection of a descriptor that is not deaf.                        *)
LEMMA HeardConn ==
    ASSUME TypeOK, NEW fd \in Fds, conns[fd] # 0
    PROVE  conns[fd] \in Ids
  BY ReactorAssumption DEF TypeOK, Ids

LEMMA HeadOfTasks ==
    ASSUME TypeOK, scratch # <<>>
    PROVE  /\ Head(scratch) \in Task /\ Tail(scratch) \in Seq(Task)
           /\ Head(scratch).op \in {"close", "send"} => Head(scratch).id \in Ids
  <1>1. scratch \in Seq(Task)
    BY DEF TypeOK
  <1>2. Head(scratch) \in Task /\ Tail(scratch) \in Seq(Task)
    BY <1>1
  <1> QED
    BY <1>2 DEF Task

(* What adopt() does to the types and the maps.                            *)
LEMMA AdoptKeeps ==
    ASSUME IndInv, NEW fd \in Fds, NEW st \in {"Connecting", "Handshaking"}, Adopt(fd, st)
    PROVE  /\ conns' \in [Fds -> 0..MaxConns] /\ state' \in [Ids -> States]
           /\ nextId' \in 1..MaxConns + 1 /\ closed' \in [Ids -> Nat]
           /\ timers' \subseteq [tid : Ids, fd : Fds, left : 0..Timeout]
           /\ cancelled' \subseteq Ids /\ armed' \subseteq Ids
           /\ Adopted' /\ ClosedExactlyOnce'
  <1> USE ReactorAssumption DEF IndInv, TypeOK, Adopt
  <1>1. nextId \in Ids /\ nextId \in 1..MaxConns /\ st \in States
    BY DEF Ids, States
  <1>2. /\ conns' \in [Fds -> 0..MaxConns] /\ state' \in [Ids -> States]
        /\ nextId' \in 1..MaxConns + 1 /\ closed' \in [Ids -> Nat]
    BY <1>1
  <1>3. /\ timers' \subseteq [tid : Ids, fd : Fds, left : 0..Timeout]
        /\ cancelled' \subseteq Ids /\ armed' \subseteq Ids
    BY <1>1
  <1>4. Adopted'
    BY <1>1 DEF Adopted
  <1>5. ClosedExactlyOnce'
    <2> SUFFICES ASSUME NEW id \in Ids
                 PROVE  closed'[id] = IF id < nextId' /\ ~Live(id)' THEN 1 ELSE 0
      BY DEF ClosedExactlyOnce
    <2>1. conns[fd] = 0 /\ id # 0 /\ id \in Nat
      BY DEF Ids
    <2>2. id # nextId => (Live(id)' <=> Live(id))
      BY <2>1, <1>1 DEF Live
    <2>3. id = nextId => Live(id)'
      BY <1>1 DEF Live
    <2>4. id = nextId => closed[id] = 0
      BY DEF ClosedExactlyOnce
    <2>5. id < nextId' <=> id < nextId \/ id = nextId
      BY <1>1, <2>1
    <2> QED
      BY <2>2, <2>3, <2>4, <2>5 DEF ClosedExactlyOnce
  <1> QED
    BY <1>2, <1>3, <1>4, <1>5

(* A step that leaves conns_, the ids and the calls of on_closed alone.    *)
LEMMA SameConns ==
    ASSUME IndInv, UNCHANGED <<conns, nextId, closed>>
    PROVE  Adopted' /\ ClosedExactlyOnce'
  BY DEF IndInv, Adopted, ClosedExactlyOnce, Live

LEMMA RemoveKeeps ==
    ASSUME IndInv, NEW fd \in Fds, NEW vs \in Victims, Remove(fd, vs)
    PROVE  IndInv'
  <1> USE DEF IndInv
  <1> DEFINE id == conns[fd]
  <1>1. vs \subseteq Ids /\ {FdOf(v) : v \in vs} \subseteq Fds
    BY VictimsLive
  <1>2. CASE id = 0
    <2>1. TypeOK'
      BY <1>2 DEF Remove, TypeOK, loopVars, connVars
    <2>2. UNCHANGED <<conns, nextId, closed>>
      BY <1>2 DEF Remove, connVars
    <2> QED
      BY <2>1, <2>2, SameConns
  <1>3. CASE id # 0
    <2>1. id \in Ids
      BY <1>3, HeardConn
    <2>2. /\ conns' = [conns EXCEPT ![fd] = 0]
          /\ closed' = [closed EXCEPT ![id] = @ + 1]
          /\ state' = [state EXCEPT ![id] = "Closed"]
          /\ nextId' = nextId
      BY <1>3 DEF Remove
    <2>3. TypeOK'
      <3>1. conns' \in [Fds -> 0..MaxConns] /\ state' \in [Ids -> States] /\ closed' \in [Ids -> Nat]
        BY <2>1, <2>2, ReactorAssumption DEF TypeOK, States
      <3>2. cancelled' \subseteq Ids /\ armed' \subseteq Ids /\ pending' \subseteq Fds /\ asked' \subseteq Ids
        BY <1>1, <1>3, <2>1 DEF Remove, TypeOK
      <3>3. inline' \in BOOLEAN /\ batch' \subseteq Fds
        BY <1>3 DEF Remove, TypeOK
      <3> QED
        BY <3>1, <3>2, <3>3, <2>2 DEF Remove, TypeOK, loopVars
    <2>4. Adopted'
      BY <2>1, <2>2, ReactorAssumption DEF Adopted, TypeOK
    <2>5. ClosedExactlyOnce'
      <3> SUFFICES ASSUME NEW i \in Ids
                   PROVE  closed'[i] = IF i < nextId' /\ ~Live(i)' THEN 1 ELSE 0
        BY DEF ClosedExactlyOnce
      <3>1. i # 0 /\ i \in Nat
        BY DEF Ids
      <3>2. i # id => (Live(i)' <=> Live(i))
        BY <2>2, <3>1 DEF Live, TypeOK
      <3>3. i = id => ~Live(i)'
        BY <2>2, <1>3 DEF Live, TypeOK, Adopted
      <3>4. Live(id) /\ id < nextId
        BY DEF Live, Adopted
      <3>5. closed[id] = 0
        BY <3>4, <2>1 DEF ClosedExactlyOnce
      <3> QED
        BY <3>2, <3>3, <3>4, <3>5, <2>1, <2>2 DEF ClosedExactlyOnce, TypeOK
    <2> QED
      BY <2>3, <2>4, <2>5
  <1> QED
    BY <1>2, <1>3

LEMMA ShutdownKeeps ==
    ASSUME IndInv, Shutdown
    PROVE  IndInv'
  <1> USE ReactorAssumption DEF IndInv
  <1>1. TypeOK'
    BY DEF Shutdown, TypeOK, States, Phases, timerVars
  <1>2. Adopted'
    BY DEF Shutdown, Adopted, TypeOK
  <1>3. ClosedExactlyOnce'
    <2> SUFFICES ASSUME NEW i \in Ids
                 PROVE  closed'[i] = IF i < nextId' /\ ~Live(i)' THEN 1 ELSE 0
      BY DEF ClosedExactlyOnce
    <2>1. ~Live(i)'
      BY DEF Live, Shutdown, Ids
    <2>2. Live(i) => i < nextId
      BY DEF Live, Adopted
    <2>3. closed'[i] = IF Live(i) THEN closed[i] + 1 ELSE closed[i]
      BY DEF Shutdown
    <2>4. nextId' = nextId
      BY DEF Shutdown
    <2> QED
      BY <2>1, <2>2, <2>3, <2>4 DEF ClosedExactlyOnce
  <1> QED
    BY <1>1, <1>2, <1>3

(* One step per action.                                                    *)
LEMMA NextInd == IndInv /\ [Next]_vars => IndInv'
  <1> SUFFICES ASSUME IndInv, [Next]_vars PROVE IndInv'
    OBVIOUS
  <1> USE ReactorAssumption
  <1>0. TypeOK /\ Adopted /\ ClosedExactlyOnce
    BY DEF IndInv
  <1>1. CASE Start
    <2>1. TypeOK'
      BY <1>0, <1>1 DEF Start, TypeOK, Phases, connVars, timerVars, closeVars
    <2> QED
      BY <1>1, <2>1, SameConns DEF Start, connVars, IndInv
  <1>2. CASE Stop
    <2>1. TypeOK'
      BY <1>0, <1>2 DEF Stop, TypeOK, connVars, timerVars, closeVars
    <2> QED
      BY <1>2, <2>1, SameConns DEF Stop, connVars, IndInv
  <1>3. CASE Tick
    <2>1. \A t \in timers : [t EXCEPT !.left = IF @ > 0 THEN @ - 1 ELSE 0] \in [tid : Ids, fd : Fds, left : 0..Timeout]
      <3> TAKE t \in timers
      <3>1. t \in [tid : Ids, fd : Fds, left : 0..Timeout] /\ Timeout \in Nat
        BY <1>0 DEF TypeOK, ReactorAssumption
      <3>2. (IF t.left > 0 THEN t.left - 1 ELSE 0) \in 0..Timeout
        BY <3>1
      <3> QED
        BY <3>1, <3>2
    <2>2. TypeOK'
      BY <1>0, <1>3, <2>1 DEF Tick, TypeOK, loopVars, closeVars
    <2> QED
      BY <1>3, <2>2, SameConns DEF Tick, IndInv
  <1>4. ASSUME NEW op \in {"dial", "close", "send"}, NEW id \in 0..MaxConns, Post(op, id)
        PROVE  IndInv'
    <2>1. [op |-> op, id |-> id] \in Task
      BY <1>0, <1>4 DEF Post, Task, TypeOK, Ids
    <2>2. tasks' \in Seq(Task) /\ Len(tasks') <= MaxPosts
      BY <1>0, <1>4, <2>1 DEF Post, TypeOK
    <2>3. TypeOK'
      BY <1>0, <1>4, <2>2 DEF Post, TypeOK, connVars, timerVars, closeVars
    <2> QED
      BY <1>4, <2>3, SameConns DEF Post, connVars, IndInv
  <1>5. ASSUME NEW fd \in Fds, Accept(fd)
        PROVE  IndInv'
    BY <1>0, <1>5, AdoptKeeps DEF Accept, TypeOK, IndInv, loopVars, closeVars
  <1>6. CASE LeaveLoop
    <2>1. TypeOK'
      BY <1>0, <1>6 DEF LeaveLoop, TypeOK, Phases, connVars, timerVars, closeVars
    <2> QED
      BY <1>6, <2>1, SameConns DEF LeaveLoop, connVars, IndInv
  <1>7. CASE TasksDone \/ EventsDone \/ TeardownDone
    <2>1. TypeOK'
      BY <1>0, <1>7 DEF TasksDone, EventsDone, TeardownDone, TypeOK, Phases, connVars, timerVars, closeVars
    <2> QED
      BY <1>7, <2>1, SameConns DEF TasksDone, EventsDone, TeardownDone, connVars, IndInv
  <1>8. CASE BeginTeardown
    <2>1. TypeOK'
      BY <1>0, <1>8 DEF BeginTeardown, TypeOK, Phases, connVars, timerVars
    <2> QED
      BY <1>8, <2>1, SameConns DEF BeginTeardown, connVars, IndInv
  <1>9. CASE Shutdown
    BY <1>9, ShutdownKeeps
  <1>10. ASSUME NEW found \in SUBSET {fd \in Fds : conns[fd] # 0}, Poll(found)
         PROVE  IndInv'
    <2>1. TypeOK'
      BY <1>0, <1>10 DEF Poll, TypeOK, Phases, connVars, timerVars, closeVars
    <2> QED
      BY <1>10, <2>1, SameConns DEF Poll, connVars, IndInv
  <1>11. ASSUME NEW fd \in Fds \cup {NoFd}, RunDialTask(fd)
         PROVE  IndInv'
    <2>1. scratch' \in Seq(Task)
      BY <1>0, <1>11, HeadOfTasks DEF RunDialTask
    <2>2. CASE fd \in Fds /\ Adopt(fd, "Connecting")
      BY <1>0, <1>11, <2>1, <2>2, AdoptKeeps DEF RunDialTask, TypeOK, IndInv, closeVars
    <2>3. CASE UNCHANGED <<connVars, timerVars>>
      <3>1. TypeOK'
        BY <1>0, <1>11, <2>1, <2>3 DEF RunDialTask, TypeOK, connVars, timerVars, closeVars
      <3> QED
        BY <2>3, <3>1, SameConns DEF connVars, IndInv
    <2> QED
      BY <1>11, <2>2, <2>3 DEF RunDialTask
  <1>12. CASE RunCloseTask
    <2> DEFINE id == Head(scratch).id
    <2>1. scratch' \in Seq(Task) /\ id \in Ids
      BY <1>0, <1>12, HeadOfTasks DEF RunCloseTask
    <2>2. pending' \subseteq Fds /\ asked' \subseteq Ids
      BY <1>0, <1>12, <2>1, FdOfLive DEF RunCloseTask, TypeOK, MarkedFor
    <2>3. TypeOK'
      BY <1>0, <1>12, <2>1, <2>2 DEF RunCloseTask, TypeOK, connVars, timerVars
    <2> QED
      BY <1>12, <2>3, SameConns DEF RunCloseTask, connVars, IndInv
  <1>13. CASE RunSendTask
    <2> DEFINE id == Head(scratch).id
    <2>1. scratch' \in Seq(Task) /\ id \in Ids
      BY <1>0, <1>13, HeadOfTasks DEF RunSendTask
    <2>2. pending' \subseteq Fds /\ asked' \subseteq Ids /\ state' \in [Ids -> States]
      BY <1>0, <1>13, <2>1, FdOfLive DEF RunSendTask, TypeOK, MarkedFor, States
    <2>3. TypeOK'
      BY <1>0, <1>13, <2>1, <2>2 DEF RunSendTask, TypeOK, timerVars
    <2> QED
      BY <1>13, <2>3, SameConns DEF RunSendTask, IndInv
  <1>14. ASSUME NEW fd \in Fds, IgnoreEvent(fd)
         PROVE  IndInv'
    <2>1. TypeOK'
      BY <1>0, <1>14 DEF IgnoreEvent, TypeOK, connVars, timerVars, closeVars
    <2> QED
      BY <1>14, <2>1, SameConns DEF IgnoreEvent, connVars, IndInv
  <1>15. ASSUME NEW fd \in Fds, Fail(fd)
         PROVE  IndInv'
    <2>1. conns[fd] \in Ids
      BY <1>0, <1>15, HeardConn DEF Fail, Deaf
    <2>2. TypeOK'
      BY <1>0, <1>15, <2>1 DEF Fail, TypeOK, States, timerVars
    <2> QED
      BY <1>15, <2>2, SameConns DEF Fail, IndInv
  <1>16. ASSUME NEW fd \in Fds, NEW vs \in Victims, Progress(fd, vs)
         PROVE  IndInv'
    <2>1. conns[fd] \in Ids
      BY <1>0, <1>16, HeardConn DEF Progress, Deaf
    <2>2. vs \subseteq Ids /\ {FdOf(v) : v \in vs} \subseteq Fds
      BY VictimsLive
    <2>3. state[conns[fd]] \in States
      BY <1>0, <2>1 DEF TypeOK
    <2>4. state' \in [Ids -> States] /\ cancelled' \subseteq Ids /\ armed' \subseteq Ids
      BY <1>0, <1>16, <2>1, <2>3 DEF Progress, TypeOK, States
    <2>5. TypeOK'
      BY <1>0, <1>16, <2>2, <2>4 DEF Progress, TypeOK
    <2> QED
      BY <1>16, <2>5, SameConns DEF Progress, IndInv
  <1>17. ASSUME NEW fd \in Fds, NEW vs \in Victims, Remove(fd, vs)
         PROVE  IndInv'
    BY <1>17, RemoveKeeps
  <1>18. ASSUME NEW t \in timers, RunTimer(t)
         PROVE  IndInv'
    <2>1. t.fd \in Fds /\ t.tid \in Ids
      BY <1>0 DEF TypeOK
    <2>2. conns[t.fd] # 0 => conns[t.fd] \in Ids
      BY <1>0, <2>1, HeardConn
    <2>3. pending' \subseteq Fds /\ asked' \subseteq Ids /\ cancelled' \subseteq Ids
      BY <1>0, <1>18, <2>1, <2>2 DEF RunTimer, TypeOK
    <2>4. TypeOK'
      BY <1>0, <1>18, <2>3 DEF RunTimer, TypeOK, loopVars, connVars
    <2> QED
      BY <1>18, <2>4, SameConns DEF RunTimer, connVars, IndInv
  <1>19. CASE UNCHANGED vars
    BY <1>0, <1>19 DEF vars, loopVars, connVars, timerVars, closeVars, IndInv, TypeOK, Adopted, ClosedExactlyOnce, Live
  <1> QED
    BY <1>1, <1>2, <1>3, <1>4, <1>5, <1>6, <1>7, <1>8, <1>9, <1>10, <1>11, <1>12, <1>13, <1>14, <1>15, <1>16,
       <1>17, <1>18, <1>19 DEF Next, Loop

(* on_closed comes exactly once per adopted connection, for any number of  *)
(* descriptors, connections, tasks and restarts of the loop.               *)
THEOREM ClosesOnce == Spec => []ClosedExactlyOnce
  <1>1. IndInv => ClosedExactlyOnce
    BY DEF IndInv
  <1> QED
    BY <1>1, InitInd, NextInd, PTL DEF Spec

(* Type correctness of the loop, its queues and its maps.                  *)
THEOREM ReactorTypes == Spec => []TypeOK
  <1>1. IndInv => TypeOK
    BY DEF IndInv
  <1> QED
    BY <1>1, InitInd, NextInd, PTL DEF Spec

-----------------------------------------------------------------------------
(* Who may be torn down.                                                   *)

LEMMA InitCond == Init => CondInv
  <1>1. Init => IndInv
    BY InitInd
  <1> QED
    BY <1>1 DEF Init, CondInv, BatchTime, FreshStart, MarksHonest, TimersHonest, NoLateMarks, TimersNamed, FirstRun

(* The parts that do not depend on the first run.                          *)
LEMMA NextTimes ==
    ASSUME CondInv, [Next]_vars
    PROVE  BatchTime' /\ FreshStart' /\ TimersNamed'
  <1> USE ReactorAssumption
  <1>0. TypeOK /\ BatchTime /\ FreshStart /\ TimersNamed
    BY DEF CondInv, IndInv
  <1>1. BatchTime'
    BY <1>0 DEF BatchTime, Next, Loop, Start, Stop, Tick, Post, Accept, LeaveLoop, TasksDone, EventsDone, BeginTeardown,
       TeardownDone, Shutdown, Poll, RunDialTask, RunCloseTask, RunSendTask, IgnoreEvent, Fail, Progress, Remove,
       RunTimer, vars, loopVars, closeVars
  <1>2. FreshStart'
    <2> SUFFICES ASSUME starts' = 0
                 PROVE  phase' = "off" /\ pending' = {} /\ timers' = {}
      BY DEF FreshStart
    <2>1. ~Start
      BY <1>0 DEF Start, TypeOK
    <2>2. UNCHANGED starts
      BY <2>1 DEF Next, Loop, Stop, Tick, Post, Accept, LeaveLoop, TasksDone, EventsDone, BeginTeardown,
         TeardownDone, Shutdown, Poll, RunDialTask, RunCloseTask, RunSendTask, IgnoreEvent, Fail, Progress, Remove,
         RunTimer, vars, loopVars
    <2>3. phase = "off" /\ pending = {} /\ timers = {}
      BY <1>0, <2>2 DEF FreshStart
    <2>4. ~Loop /\ ~(\E fd \in Fds : Accept(fd)) /\ ~Tick
      BY <2>3 DEF Loop, LeaveLoop, TasksDone, EventsDone, BeginTeardown, TeardownDone, Shutdown, Poll, RunDialTask,
         RunCloseTask, RunSendTask, IgnoreEvent, Fail, Progress, Remove, RunTimer, Accept, Tick
    <2>5. UNCHANGED <<phase, pending, timers>>
      BY <2>1, <2>4 DEF Next, Stop, Post, vars, loopVars, timerVars, closeVars
    <2> QED
      BY <2>3, <2>5
  <1>3. TimersNamed'
    <2>1. CASE UNCHANGED <<timers, nextId>>
      BY <1>0, <2>1 DEF TimersNamed
    <2>2. ASSUME NEW t \in timers, timers' = timers \ {t}, nextId' = nextId
          PROVE  TimersNamed'
      BY <1>0, <2>2 DEF TimersNamed
    <2>3. ASSUME NEW fd \in Fds, NEW st, Adopt(fd, st)
          PROVE  TimersNamed'
      <3>1. \A t \in timers : t.tid \in Nat
        BY <1>0 DEF TypeOK, Ids
      <3> QED
        BY <1>0, <2>3, <3>1 DEF Adopt, TimersNamed, TypeOK
    <2>4. CASE Tick
      <3> DEFINE Later(t) == [t EXCEPT !.left = IF @ > 0 THEN @ - 1 ELSE 0]
      <3>1. \A t \in timers : Later(t).tid = t.tid
        BY <1>0 DEF TypeOK
      <3>2. timers' = {Later(t) : t \in timers} /\ nextId' = nextId
        BY <2>4 DEF Tick
      <3> HIDE DEF Later
      <3> QED
        BY <1>0, <3>1, <3>2 DEF TimersNamed
    <2> QED
      BY <2>1, <2>2, <2>3, <2>4 DEF Next, Loop, Start, Stop, Post, Accept, LeaveLoop, TasksDone, EventsDone,
         BeginTeardown, TeardownDone, Shutdown, Poll, RunDialTask, RunCloseTask, RunSendTask, IgnoreEvent, Fail,
         Progress, Remove, RunTimer, vars, connVars, timerVars
  <1> QED
    BY <1>1, <1>2, <1>3

(* In the first run no mark and no timer outlives the connection it was    *)
(* made for.                                                               *)
LEMMA NextMarks ==
    ASSUME CondInv, [Next]_vars
    PROVE  MarksHonest' /\ TimersHonest' /\ NoLateMarks'
  <1> USE ReactorAssumption
  <1> SUFFICES ASSUME FirstRun'
               PROVE  MarksHonest' /\ TimersHonest' /\ NoLateMarks'
    BY DEF MarksHonest, TimersHonest, NoLateMarks
  <1>0. TypeOK /\ Adopted /\ BatchTime /\ FreshStart /\ TimersNamed
    BY DEF CondInv, IndInv
  <1>1. CASE Start
    <2>1. starts = 0
      BY <1>0, <1>1 DEF Start, FirstRun, TypeOK
    <2>2. batch = {} /\ pending = {} /\ timers = {}
      BY <1>0, <1>1, <2>1 DEF Start, BatchTime, FreshStart
    <2> QED
      BY <1>1, <2>2 DEF Start, timerVars, closeVars, MarksHonest, TimersHonest, NoLateMarks
  <1>2. CASE UNCHANGED vars
    BY <1>2 DEF CondInv, MarksHonest, TimersHonest, NoLateMarks, FirstRun, vars, loopVars, connVars, timerVars, closeVars
  <1>3. ASSUME ~Start, Next
        PROVE  FirstRun
    <2>a. starts' = starts
      BY <1>3 DEF Next, Loop, Stop, Tick, Post, Accept, LeaveLoop, TasksDone, EventsDone, BeginTeardown,
         TeardownDone, Shutdown, Poll, RunDialTask, RunCloseTask, RunSendTask, IgnoreEvent, Fail, Progress, Remove,
         RunTimer, loopVars
    <2>b. UNCHANGED inline \/ \E fd \in Fds, vs \in Victims : Remove(fd, vs)
      BY <1>3 DEF Next, Loop, Stop, Tick, Post, Accept, LeaveLoop, TasksDone, EventsDone, BeginTeardown,
         TeardownDone, Shutdown, Poll, RunDialTask, RunCloseTask, RunSendTask, IgnoreEvent, Fail, Progress,
         RunTimer, closeVars
    <2>c. \A fd \in Fds, vs \in Victims : Remove(fd, vs) => inline' = inline \/ inline' = (inline \/ vs # {})
      BY DEF Remove
    <2>1. starts' = starts /\ ~inline
      BY <2>a, <2>b, <2>c DEF FirstRun
    <2>2. ASSUME phase = "off" PROVE FALSE
      <3>1. ~Loop /\ ~(\E fd \in Fds : Accept(fd))
        BY <2>2 DEF Loop, LeaveLoop, TasksDone, EventsDone, BeginTeardown, TeardownDone, Shutdown, Poll, RunDialTask,
           RunCloseTask, RunSendTask, IgnoreEvent, Fail, Progress, Remove, RunTimer, Accept
      <3>2. phase' = phase
        BY <1>3, <3>1 DEF Next, Stop, Tick, Post, loopVars
      <3> QED
        BY <2>2, <3>2 DEF FirstRun
    <2> QED
      BY <2>1, <2>2 DEF FirstRun
  <1> SUFFICES ASSUME Next, ~Start, FirstRun
               PROVE  MarksHonest' /\ TimersHonest' /\ NoLateMarks'
    BY <1>1, <1>2, <1>3
  <1>m. \A f \in pending \cup batch : conns[f] \in asked
    BY DEF CondInv, MarksHonest
  <1>t. \A t \in timers : t.tid \notin cancelled => conns[t.fd] = t.tid /\ t.tid \in armed
    BY DEF CondInv, TimersHonest
  <1>l. phase \in {"teardown", "finalTeardown"} => pending = {}
    BY DEF CondInv, NoLateMarks
  <1>u. ASSUME UNCHANGED <<conns, batch, timers, cancelled, armed>>, phase' = phase,
               phase \notin {"teardown", "finalTeardown"},
               asked \subseteq asked', \A f \in pending' \ pending : conns[f] \in asked'
        PROVE  MarksHonest' /\ TimersHonest' /\ NoLateMarks'
    <2>1. \A f \in pending' \cup batch' : conns'[f] \in asked'
      BY <1>m, <1>u
    <2> QED
      BY <1>t, <1>u, <2>1 DEF MarksHonest, TimersHonest, NoLateMarks
  <1>s. ASSUME UNCHANGED <<conns, pending, batch, asked, timers, cancelled, armed>>,
               phase' \in {"teardown", "finalTeardown"} => phase' = phase
        PROVE  MarksHonest' /\ TimersHonest' /\ NoLateMarks'
    BY <1>m, <1>t, <1>l, <1>s DEF MarksHonest, TimersHonest, NoLateMarks
  <1>4. CASE Stop \/ LeaveLoop \/ TasksDone \/ EventsDone \/ TeardownDone
    <2>1. UNCHANGED <<conns, pending, batch, asked, timers, cancelled, armed>>
      BY <1>4 DEF Stop, LeaveLoop, TasksDone, EventsDone, TeardownDone, connVars, timerVars, closeVars
    <2>2. phase' \in {"teardown", "finalTeardown"} => phase' = phase
      BY <1>4 DEF Stop, LeaveLoop, TasksDone, EventsDone, TeardownDone
    <2> QED
      BY <2>1, <2>2, <1>s
  <1>5. ASSUME NEW op, NEW id, Post(op, id)
        PROVE  MarksHonest' /\ TimersHonest' /\ NoLateMarks'
    <2>1. UNCHANGED <<conns, pending, batch, asked, timers, cancelled, armed>> /\ phase' = phase
      BY <1>5 DEF Post, connVars, timerVars, closeVars
    <2> QED
      BY <2>1, <1>s
  <1>6. ASSUME NEW found, Poll(found)
        PROVE  MarksHonest' /\ TimersHonest' /\ NoLateMarks'
    <2>1. UNCHANGED <<conns, pending, batch, asked, timers, cancelled, armed>> /\ phase' = "tasks"
      BY <1>6 DEF Poll, connVars, timerVars, closeVars
    <2> QED
      BY <2>1, <1>s
  <1>7. ASSUME NEW fd, IgnoreEvent(fd)
        PROVE  MarksHonest' /\ TimersHonest' /\ NoLateMarks'
    <2>1. UNCHANGED <<conns, pending, batch, asked, timers, cancelled, armed>> /\ phase' = phase
      BY <1>7 DEF IgnoreEvent, connVars, timerVars, closeVars
    <2> QED
      BY <2>1, <1>s
  <1>8. CASE Tick
    <2> DEFINE Later(t) == [t EXCEPT !.left = IF @ > 0 THEN @ - 1 ELSE 0]
    <2>1. \A t \in timers : Later(t).tid = t.tid /\ Later(t).fd = t.fd
      BY <1>0 DEF TypeOK
    <2>2. timers' = {Later(t) : t \in timers} /\ UNCHANGED <<conns, pending, batch, asked, cancelled, armed, phase>>
      BY <1>8 DEF Tick, loopVars, closeVars
    <2> HIDE DEF Later
    <2>3. \A t \in timers' : t.tid \notin cancelled' => conns'[t.fd] = t.tid /\ t.tid \in armed'
      BY <2>1, <2>2, <1>t
    <2> QED
      BY <2>2, <2>3, <1>m, <1>l DEF MarksHonest, TimersHonest, NoLateMarks
  <1>9. ASSUME NEW fd \in Fds, NEW st, Adopt(fd, st), phase \notin {"teardown", "finalTeardown"},
               UNCHANGED <<phase, pending, batch, asked>>
        PROVE  MarksHonest' /\ TimersHonest' /\ NoLateMarks'
    <2>1. \A f \in pending \cup batch : conns'[f] \in asked
      BY <1>0, <1>m, <1>9 DEF Adopt, TypeOK, Ids
    <2>2. \A t \in timers : t.tid \notin cancelled => conns'[t.fd] = t.tid /\ t.tid \in armed'
      <3> SUFFICES ASSUME NEW t \in timers, t.tid \notin cancelled
                   PROVE  conns'[t.fd] = t.tid /\ t.tid \in armed'
        OBVIOUS
      <3>1. conns[t.fd] = t.tid /\ t.tid \in armed /\ t.tid # 0 /\ t.fd \in Fds
        BY <1>0, <1>t DEF TypeOK, Ids
      <3> QED
        BY <1>0, <1>9, <3>1 DEF Adopt, TypeOK
    <2>3. conns'[fd] = nextId /\ nextId \in armed'
      BY <1>0, <1>9 DEF Adopt, TypeOK
    <2>4. \A t \in timers' : t.tid \notin cancelled' => conns'[t.fd] = t.tid /\ t.tid \in armed'
      BY <1>9, <2>2, <2>3 DEF Adopt
    <2> QED
      BY <1>9, <2>1, <2>4 DEF MarksHonest, TimersHonest, NoLateMarks
  <1>10. ASSUME NEW fd \in Fds, Accept(fd)
         PROVE  MarksHonest' /\ TimersHonest' /\ NoLateMarks'
    BY <1>9, <1>10 DEF Accept, loopVars, closeVars
  <1>11. ASSUME NEW fd \in Fds \cup {NoFd}, RunDialTask(fd)
         PROVE  MarksHonest' /\ TimersHonest' /\ NoLateMarks'
    <2>1. CASE UNCHANGED <<connVars, timerVars>>
      BY <1>11, <2>1, <1>s DEF RunDialTask, connVars, timerVars, closeVars
    <2>2. CASE fd \in Fds /\ Adopt(fd, "Connecting")
      BY <1>11, <2>2, <1>9 DEF RunDialTask, closeVars
    <2> QED
      BY <1>11, <2>1, <2>2 DEF RunDialTask
  <1>12. CASE RunCloseTask
    <2> DEFINE id == Head(scratch).id
    <2>1. UNCHANGED <<conns, batch, timers, cancelled, armed>> /\ phase' = phase /\ phase \notin {"teardown", "finalTeardown"}
      BY <1>12 DEF RunCloseTask, connVars, timerVars
    <2>2. \/ UNCHANGED <<pending, asked>>
          \/ Live(id) /\ pending' = pending \cup {FdOf(id)} /\ asked' = asked \cup {id}
      BY <1>12 DEF RunCloseTask, MarkedFor
    <2>3. Live(id) => conns[FdOf(id)] = id
      BY FdOfLive
    <2> HIDE DEF id
    <2> QED
      BY <2>1, <2>2, <2>3, <1>u
  <1>13. CASE RunSendTask
    <2> DEFINE id == Head(scratch).id
    <2>1. UNCHANGED <<conns, batch, timers, cancelled, armed>> /\ phase' = phase /\ phase \notin {"teardown", "finalTeardown"}
      BY <1>13 DEF RunSendTask, timerVars
    <2>2. \/ UNCHANGED <<pending, asked>>
          \/ Live(id) /\ pending' = pending \cup {FdOf(id)} /\ asked' = asked \cup {id}
      BY <1>13 DEF RunSendTask, MarkedFor
    <2>3. Live(id) => conns[FdOf(id)] = id
      BY FdOfLive
    <2> HIDE DEF id
    <2> QED
      BY <2>1, <2>2, <2>3, <1>u
  <1>14. ASSUME NEW fd \in Fds, Fail(fd)
         PROVE  MarksHonest' /\ TimersHonest' /\ NoLateMarks'
    BY <1>14, <1>u DEF Fail, timerVars
  <1>15. ASSUME NEW fd \in Fds, NEW vs \in Victims, Progress(fd, vs)
         PROVE  MarksHonest' /\ TimersHonest' /\ NoLateMarks'
    <2> DEFINE id == conns[fd]
    <2>1. UNCHANGED <<conns, batch, timers>> /\ phase' = phase /\ phase = "events"
      BY <1>15 DEF Progress
    <2>2. pending' = pending \cup {FdOf(v) : v \in vs} /\ asked' = asked \cup vs
      BY <1>15 DEF Progress
    <2>3. \/ UNCHANGED <<cancelled, armed>>
          \/ cancelled' = cancelled \cup {id} /\ armed' = armed \ {id}
      BY <1>15 DEF Progress
    <2>4. \A v \in vs : conns[FdOf(v)] = v
      BY FdOfLive DEF Victims
    <2>5. \A f \in pending' \cup batch' : conns'[f] \in asked'
      BY <2>1, <2>2, <2>4, <1>m
    <2>6. \A t \in timers' : t.tid \notin cancelled' => conns'[t.fd] = t.tid /\ t.tid \in armed'
      BY <2>1, <2>3, <1>t
    <2> QED
      BY <2>1, <2>5, <2>6 DEF MarksHonest, TimersHonest, NoLateMarks
  <1>16. ASSUME NEW t \in timers, RunTimer(t)
         PROVE  MarksHonest' /\ TimersHonest' /\ NoLateMarks'
    <2>1. UNCHANGED <<conns, batch, armed, phase>> /\ phase = "timers" /\ timers' = timers \ {t}
      BY <1>16 DEF RunTimer, loopVars, connVars
    <2>2. asked \subseteq asked' /\ \A f \in pending' \ pending : conns[f] \in asked'
      BY <1>16, <1>t DEF RunTimer
    <2>3. \A u \in timers' : u.tid \notin cancelled' => u.tid \notin cancelled
      BY <1>0, <1>16, <2>1 DEF RunTimer, TimersNamed
    <2>4. \A f \in pending' \cup batch' : conns'[f] \in asked'
      BY <2>1, <2>2, <1>m
    <2> QED
      BY <2>1, <2>3, <2>4, <1>t DEF MarksHonest, TimersHonest, NoLateMarks
  <1>17. CASE BeginTeardown
    <2>1. UNCHANGED <<conns, asked, timers, cancelled, armed>> /\ batch' = pending /\ pending' = {}
      BY <1>17 DEF BeginTeardown, connVars, timerVars
    <2> QED
      BY <2>1, <1>m, <1>t DEF MarksHonest, TimersHonest, NoLateMarks
  <1>18. ASSUME NEW fd \in Fds, NEW vs \in Victims, Remove(fd, vs)
         PROVE  MarksHonest' /\ TimersHonest' /\ NoLateMarks'
    <2> DEFINE id == conns[fd]
    <2>1. pending = {} /\ UNCHANGED <<phase, timers>> /\ batch' = batch \ {fd} /\ fd \in batch
      BY <1>18, <1>l DEF Remove, loopVars
    <2>2. id \in asked /\ id # 0 /\ id \in Ids
      BY <1>0, <1>m, <2>1 DEF TypeOK, Ids
    <2>3. vs = {}
      BY <1>18, <2>2 DEF Remove, FirstRun
    <2>4. /\ conns' = [conns EXCEPT ![fd] = 0] /\ armed' = armed \ {id} /\ pending' = {} /\ asked' = asked
          /\ cancelled' = IF id \in armed THEN cancelled \cup {id} ELSE cancelled
      BY <1>18, <2>1, <2>2, <2>3 DEF Remove
    <2>5. \A f \in pending' \cup batch' : conns'[f] \in asked'
      BY <1>0, <1>m, <2>1, <2>4 DEF TypeOK
    <2>6. \A t \in timers' : t.tid \notin cancelled' => conns'[t.fd] = t.tid /\ t.tid \in armed'
      <3> SUFFICES ASSUME NEW t \in timers, t.tid \notin cancelled'
                   PROVE  conns'[t.fd] = t.tid /\ t.tid \in armed'
        BY <2>1
      <3>1. t.tid \notin cancelled
        BY <2>4
      <3>2. conns[t.fd] = t.tid /\ t.tid \in armed /\ t.fd \in Fds
        BY <1>0, <1>t, <3>1 DEF TypeOK
      <3>3. t.tid # id
        BY <2>4, <3>2
      <3> HIDE DEF id
      <3>4. t.fd # fd
        BY <3>2, <3>3 DEF id
      <3> QED
        BY <1>0, <2>4, <3>2, <3>3, <3>4 DEF TypeOK
    <2> QED
      BY <2>4, <2>5, <2>6 DEF MarksHonest, TimersHonest, NoLateMarks
  <1>19. CASE Shutdown
    BY <1>19 DEF Shutdown, FirstRun
  <1> QED
    BY <1>4, <1>5, <1>6, <1>7, <1>8, <1>10, <1>11, <1>12, <1>13, <1>14, <1>15, <1>16, <1>17, <1>18, <1>19
       DEF Next, Loop

(* CondInv is inductive. *)
LEMMA NextCond == CondInv /\ [Next]_vars => CondInv'
  <1> SUFFICES ASSUME CondInv, [Next]_vars PROVE CondInv'
    OBVIOUS
  <1>1. IndInv'
    BY NextInd DEF CondInv
  <1> QED
    BY <1>1, NextTimes, NextMarks DEF CondInv

(* A teardown hits only a connection that was condemned under its own id:  *)
(* in the first run, and until a handler closes inline, no reused          *)
(* descriptor makes a mark or a timer take the wrong connection.           *)
THEOREM TearsDownCondemned == Spec => OnlyCondemnedRemoved
  <1> DEFINE Condemned == \A id \in Ids :
          (closed'[id] # closed[id] /\ starts = 1 /\ ~inline') => id \in asked'
  <1>1. ASSUME CondInv, [Next]_vars
        PROVE  Condemned
    <2> USE ReactorAssumption
    <2> SUFFICES ASSUME NEW id \in Ids, closed'[id] # closed[id], starts = 1, ~inline'
                 PROVE  id \in asked'
      OBVIOUS
    <2>0. TypeOK
      BY <1>1 DEF CondInv, IndInv
    <2>1. CASE Shutdown
      BY <2>1 DEF Shutdown
    <2>2. ASSUME NEW fd \in Fds, NEW vs \in Victims, Remove(fd, vs)
          PROVE  id \in asked'
      <3>1. conns[fd] # 0 /\ closed' = [closed EXCEPT ![conns[fd]] = @ + 1] /\ asked \subseteq asked' /\ ~inline
        BY <2>2 DEF Remove, connVars
      <3>2. id = conns[fd]
        BY <2>0, <3>1 DEF TypeOK
      <3>3. FirstRun /\ fd \in batch
        BY <2>2, <3>1 DEF Remove, FirstRun
      <3> QED
        BY <1>1, <3>1, <3>2, <3>3 DEF CondInv, MarksHonest
    <2>3. CASE UNCHANGED closed
      BY <2>3
    <2> QED
      BY <1>1, <2>1, <2>2, <2>3 DEF Next, Loop, Start, Stop, Tick, Post, Accept, Adopt, LeaveLoop, TasksDone,
         EventsDone, BeginTeardown, TeardownDone, Poll, RunDialTask, RunCloseTask, RunSendTask, IgnoreEvent, Fail,
         Progress, RunTimer, vars, connVars
  <1>2. CondInv /\ [Next]_vars => [Condemned]_vars
    BY <1>1
  <1> QED
    BY <1>2, InitCond, NextCond, PTL DEF Spec, OnlyCondemnedRemoved

-----------------------------------------------------------------------------
(* Port mappings.  What a client and the threads around it may be.         *)

Pcs == {"none", "find", "ip", "look", "due", "map", "sleep", "checked", "asleep", "awake", "clear", "done"}
AnyPort == Ports \cup {ListenPort}
Mapping == [active : BOOLEAN, due : BOOLEAN, port : AnyPort]
Client == [pc : Pcs, running : BOOLEAN, stopreq : BOOLEAN, wake : BOOLEAN, byte : BOOLEAN, permanent : BOOLEAN,
           m : Mapping, local : AnyPort, attempt : Nat]

Service == [config : SUBSET Backends, held : SUBSET Backends, addr : Nat,
            stop : {"no", "request", "wake", "join"}, leaving : SUBSET Backends]
Watch == [addr : Nat, event : BOOLEAN, pc : {"off", "wait", "debounce", "snapshot", "compare"},
          pending : BOOLEAN, last : Nat, current : Nat]
Node == [pc : {"down", "up", "join_monitor", "join_maint", "stopping", "stopped"},
         maint : {"none", "wait", "emit", "stopping", "emitted", "gone"}, pending : BOOLEAN, stop : BOOLEAN]

NatTypes ==
    /\ client \in [Backends -> Client]
    /\ svc \in Service
    /\ router \in [table : [Backends -> SUBSET AnyPort], unheard : [Backends -> SUBSET AnyPort], faults : Nat]
    /\ watch \in Watch
    /\ node \in Node

(* The service knows the clients there are: those it holds and those it is *)
(* stopping.                                                               *)
Owned ==
    /\ \A b \in Backends : client[b].pc # "none" <=> b \in svc.held \cup svc.leaving
    /\ \A b \in Backends : client[b].pc \in {"none", "find"} => ~client[b].m.active
    /\ svc.stop = "no" => svc.leaving = {}
    /\ svc.stop # "no" => svc.held = {}
    /\ svc.stop \in {"wake", "join"} => svc.leaving # {}

(* What client c of backend b would delete of the router's table when it   *)
(* ends: NAT-PMP deletes by the internal port.                             *)
Deletes(b, c, table) ==
    IF ~c.m.active \/ c.pc = "done" THEN {}
    ELSE IF b = "natpmp" THEN table ELSE {c.m.port}

(* The router maps what it could not tell and what the client would        *)
(* delete; a UPnP client that asks for another port than the one it has    *)
(* gave that one up.                                                       *)
Covered(b, c, table, unheard) ==
    /\ table \subseteq unheard \cup Deletes(b, c, table)
    /\ b = "upnp" /\ c.pc = "map" /\ c.local # c.m.port /\ c.m.active /\ c.m.port \in table
         => c.m.port \in unheard

Accounted == \A b \in Backends : Covered(b, client[b], router.table[b], router.unheard[b])

(* Once the node stops its services nobody starts them again.              *)
Closing ==
    /\ node.pc = "down" => svc.held = {} /\ svc.stop = "no" /\ node.maint = "none"
    /\ node.pc \in {"stopping", "stopped"} => svc.held = {} /\ node.maint = "gone"
    /\ node.pc = "stopped" => svc.stop = "no"

HostInv == NatTypes /\ Owned /\ Accounted /\ Closing

LEMMA HostInitInv == WatchInit => HostInv
  <1> SUFFICES ASSUME WatchInit PROVE HostInv
    OBVIOUS
  <1> USE DEF WatchInit, NatInit, Service, Watch, Node
  <1>1. NoClient \in Client /\ NoClient.pc = "none" /\ ~NoClient.m.active
    BY DEF NoClient, Client, Pcs, Registered, Mapping, AnyPort
  <1>2. NatTypes
    BY <1>1, NatAssumption DEF NatTypes
  <1>3. Owned /\ Closing
    BY <1>1 DEF Owned, Closing
  <1>4. Accounted
    BY <1>1 DEF Accounted, Covered, Deletes
  <1> QED
    BY <1>2, <1>3, <1>4 DEF HostInv

(* A step of one worker: the others, the service and the node stay.        *)
LEMMA OneWorker ==
    ASSUME HostInv, NEW b \in Backends, NEW rec \in Client, Becomes(b, rec), UNCHANGED <<svc, watch, node>>,
           client[b].pc # "none", rec.pc \notin {"none", "find"},
           NEW table \in SUBSET AnyPort, NEW unheard \in SUBSET AnyPort, router'.faults \in Nat,
           router' = [table |-> [router.table EXCEPT ![b] = table],
                      unheard |-> [router.unheard EXCEPT ![b] = unheard], faults |-> router'.faults],
           Covered(b, rec, table, unheard)
    PROVE  HostInv'
  <1>0. NatTypes /\ Owned /\ Accounted /\ Closing
    BY DEF HostInv
  <1>1. client' = [client EXCEPT ![b] = rec] /\ client' \in [Backends -> Client]
    BY <1>0 DEF Becomes, NatTypes
  <1>2. router' \in [table : [Backends -> SUBSET AnyPort], unheard : [Backends -> SUBSET AnyPort], faults : Nat]
    <2>1. /\ [router.table EXCEPT ![b] = table] \in [Backends -> SUBSET AnyPort]
          /\ [router.unheard EXCEPT ![b] = unheard] \in [Backends -> SUBSET AnyPort]
      BY <1>0 DEF NatTypes
    <2> QED
      BY <2>1
  <1>3. NatTypes'
    BY <1>0, <1>1, <1>2 DEF NatTypes
  <1>4. \A a \in Backends : client'[a] = IF a = b THEN rec ELSE client[a]
    BY <1>0, <1>1 DEF NatTypes
  <1>5. Owned'
    BY <1>0, <1>4 DEF Owned
  <1>6. \A a \in Backends : /\ router'.table[a] = IF a = b THEN table ELSE router.table[a]
                            /\ router'.unheard[a] = IF a = b THEN unheard ELSE router.unheard[a]
    BY <1>0 DEF NatTypes
  <1>7. ASSUME NEW a \in Backends PROVE Covered(a, client'[a], router'.table[a], router'.unheard[a])
    <2>1. Covered(a, client[a], router.table[a], router.unheard[a])
      BY <1>0 DEF Accounted
    <2> QED
      BY <1>4, <1>6, <2>1
  <1>8. Accounted'
    BY <1>7 DEF Accounted
  <1> QED
    BY <1>0, <1>3, <1>5, <1>8 DEF HostInv, Closing

(* A step of one worker that changes neither the router nor its mapping.   *)
LEMMA QuietWorker ==
    ASSUME HostInv, NEW b \in Backends, NEW rec \in Client, Becomes(b, rec), UNCHANGED <<svc, watch, node>>,
           client[b].pc \notin {"none", "done"}, rec.pc \notin {"none", "find"},
           rec.m.active = client[b].m.active, rec.m.port = client[b].m.port,
           rec.pc = "done" => ~rec.m.active, rec.pc = "map" => rec.local = rec.m.port,
           router'.faults \in Nat, router' = [router EXCEPT !.faults = router'.faults]
    PROVE  HostInv'
  <1>0. NatTypes /\ Accounted
    BY DEF HostInv
  <1> DEFINE table == router.table[b]
             unheard == router.unheard[b]
  <1>1. table \in SUBSET AnyPort /\ unheard \in SUBSET AnyPort
    BY <1>0 DEF NatTypes
  <1>2. Covered(b, client[b], table, unheard)
    BY <1>0 DEF Accounted
  <1>3. Covered(b, rec, table, unheard)
    BY <1>2 DEF Covered, Deletes
  <1>4. router' = [table |-> [router.table EXCEPT ![b] = table],
                   unheard |-> [router.unheard EXCEPT ![b] = unheard], faults |-> router'.faults]
    BY <1>0 DEF NatTypes
  <1> HIDE DEF table, unheard
  <1> QED
    BY <1>1, <1>3, <1>4, OneWorker

(* What the workers make of their client stays a client.                   *)
LEMMA ClientUpdates ==
    ASSUME NEW c \in Client
    PROVE  /\ \A p \in Pcs : [c EXCEPT !.pc = p] \in Client /\ [c EXCEPT !.pc = p].pc = p
                              /\ [c EXCEPT !.pc = p].m = c.m /\ [c EXCEPT !.pc = p].local = c.local
           /\ Asked(c) \in Client /\ Asked(c).pc = "sleep" /\ Asked(c).m = c.m
           /\ \A port \in AnyPort :
                 /\ WriteBack(c, port) \in Client /\ WriteBack(c, port).pc = "sleep"
                 /\ WriteBack(c, port).m.active /\ WriteBack(c, port).m.port = port
                 /\ [c EXCEPT !.local = port] \in Client /\ [c EXCEPT !.local = port].m = c.m
                 /\ [c EXCEPT !.local = port].pc = c.pc /\ [c EXCEPT !.local = port].local = port
           /\ [c EXCEPT !.permanent = TRUE] \in Client /\ [c EXCEPT !.permanent = TRUE].m = c.m
           /\ [c EXCEPT !.permanent = TRUE].pc = c.pc /\ [c EXCEPT !.permanent = TRUE].local = c.local
  <1> USE DEF Client, Pcs, Mapping, AnyPort
  <1>1. Asked(c) \in Client /\ Asked(c).pc = "sleep" /\ Asked(c).m = c.m
    BY DEF Asked
  <1>2. ASSUME NEW port \in AnyPort
        PROVE  /\ WriteBack(c, port) \in Client /\ WriteBack(c, port).pc = "sleep"
               /\ WriteBack(c, port).m.active /\ WriteBack(c, port).m.port = port
    BY <1>1 DEF WriteBack
  <1> QED
    BY <1>1, <1>2

LEMMA RetriedClient ==
    ASSUME NEW c \in Client
    PROVE  /\ Retried(c) \in Client /\ Retried(c).m = c.m
           /\ Retried(c).pc = "sleep" \/ (Retried(c).pc = c.pc /\ Retried(c).local = c.local)
  <1>1. Asked(c) \in Client /\ Asked(c).pc = "sleep" /\ Asked(c).m = c.m
    BY ClientUpdates
  <1>2. LET d == [c EXCEPT !.attempt = @ + 1] IN d \in Client /\ d.m = c.m /\ d.pc = c.pc /\ d.local = c.local
    BY DEF Client
  <1> QED
    BY <1>1, <1>2 DEF Retried

LEMMA WorkerKeeps ==
    ASSUME HostInv, NEW b \in Backends, Worker(b), UNCHANGED <<watch, node>>
    PROVE  HostInv'
  <1> DEFINE c == client[b]
  <1>0. NatTypes /\ Owned /\ Accounted
    BY DEF HostInv
  <1>1. c \in Client
    BY <1>0 DEF NatTypes
  <1>2. router.faults \in Nat /\ router = [router EXCEPT !.faults = router.faults]
        /\ router.faults + 1 \in Nat
    BY <1>0 DEF NatTypes
  <1>3. router.table[b] \in SUBSET AnyPort /\ router.unheard[b] \in SUBSET AnyPort
    BY <1>0 DEF NatTypes
  <1>4. Covered(b, c, router.table[b], router.unheard[b])
    BY <1>0 DEF Accounted
  <1>5. c.pc = "find" => ~c.m.active
    BY <1>0 DEF Owned
  <1> HIDE DEF c
  <1>6. ASSUME NEW p \in Pcs \ {"none", "find", "map"}, p = "done" => ~c.m.active, c.pc \notin {"none", "done"},
               Becomes(b, [c EXCEPT !.pc = p]), UNCHANGED svc,
               router' = router \/ router' = [router EXCEPT !.faults = @ + 1]
        PROVE  HostInv'
    <2> DEFINE rec == [c EXCEPT !.pc = p]
    <2>1. rec \in Client /\ rec.pc = p /\ rec.m = c.m
      BY <1>1, ClientUpdates
    <2>2. router'.faults \in Nat /\ router' = [router EXCEPT !.faults = router'.faults]
      BY <1>0, <1>2, <1>6 DEF NatTypes
    <2> HIDE DEF rec
    <2>3. Becomes(b, rec)
      BY <1>6 DEF rec
    <2> QED
      BY <1>6, <2>1, <2>2, <2>3, QuietWorker DEF c
  <1>7. ASSUME c.pc = "map", NEW rec \in Client, rec.pc = "sleep", rec.m = c.m, Becomes(b, rec), UNCHANGED <<svc, router>>
        PROVE  HostInv'
    BY <1>2, <1>7, QuietWorker DEF c
  <1>8. CASE Discover(b)
    <2>1. ASSUME Becomes(b, fetch_description(c)) PROVE HostInv'
      BY <1>6, <1>8, <2>1 DEF Discover, fetch_description, Pcs, c
    <2>2. ASSUME Becomes(b, [c EXCEPT !.pc = "look"]) PROVE HostInv'
      BY <1>6, <1>8, <2>2 DEF Discover, Pcs, c
    <2>3. ASSUME Becomes(b, GivesUp(c)) PROVE HostInv'
      <3>1. GivesUp(c) \in Client /\ GivesUp(c).pc = "done" /\ GivesUp(c).m = c.m
        BY <1>1 DEF GivesUp, Client, Pcs
      <3> QED
        BY <1>2, <1>5, <1>8, <2>3, <3>1, QuietWorker DEF Discover, c
    <2> QED
      BY <1>8, <2>1, <2>2, <2>3 DEF Discover, discover_device, ensure_gateway, c
  <1>9. CASE AskIp(b)
    <2>1. \E p \in {"look", "due"} : Becomes(b, [c EXCEPT !.pc = p])
      BY <1>9 DEF AskIp, query_external_ip, request_external_ip, c
    <2> QED
      BY <1>6, <1>9, <2>1 DEF AskIp, Pcs, c
  <1>10. CASE ClientLoop(b)
    <2>1. \E p \in {"clear", "due", "ip"} : Becomes(b, [c EXCEPT !.pc = p])
      BY <1>10 DEF ClientLoop, c
    <2> QED
      BY <1>6, <1>10, <2>1 DEF ClientLoop, Pcs, c
  <1>11. CASE NoSocket(b)
    BY <1>6, <1>11 DEF NoSocket, Pcs, c
  <1>12. CASE Collect(b)
    <2>1. CASE Becomes(b, [c EXCEPT !.pc = "sleep"])
      BY <1>6, <1>12, <2>1 DEF Collect, Pcs, c
    <2>2. CASE Becomes(b, [c EXCEPT !.pc = "map", !.local = c.m.port, !.attempt = 0])
      <3> DEFINE rec == [c EXCEPT !.pc = "map", !.local = c.m.port, !.attempt = 0]
      <3>1. rec \in Client /\ rec.pc = "map" /\ rec.m = c.m /\ rec.local = c.m.port
        BY <1>1 DEF Client, Pcs, Mapping
      <3> HIDE DEF rec
      <3>2. Becomes(b, rec)
        BY <2>2 DEF rec
      <3> QED
        BY <1>2, <1>12, <3>1, <3>2, QuietWorker DEF Collect, c
    <2> QED
      BY <1>12, <2>1, <2>2 DEF Collect, c
  <1>13. CASE Granted(b)
    <2>1. PICK offer \in Offers(b) :
             /\ router' = [router EXCEPT !.table[b] = offer[2], !.unheard[b] = @ \ {offer[1]}]
             /\ Becomes(b, WriteBack(c, offer[1]))
      BY <1>13 DEF Granted, c
    <2>2. /\ offer[1] \in AnyPort
          /\ \/ b = "natpmp" /\ offer[2] = {offer[1]}
             \/ b = "upnp" /\ offer[1] = c.local /\ offer[2] = router.table[b] \cup {c.local}
      BY <1>1 DEF Offers, send_map_request, add_port_mapping, AnyPort, Backends, Client, c
    <2> DEFINE rec == WriteBack(c, offer[1])
               unheard == router.unheard[b] \ {offer[1]}
    <2>3. rec \in Client /\ rec.pc = "sleep" /\ rec.m.active /\ rec.m.port = offer[1]
      BY <1>1, <2>2, ClientUpdates
    <2>4. offer[2] \in SUBSET AnyPort /\ unheard \in SUBSET AnyPort
      BY <1>3, <2>2
    <2>5. router' = [table |-> [router.table EXCEPT ![b] = offer[2]],
                     unheard |-> [router.unheard EXCEPT ![b] = unheard], faults |-> router'.faults]
          /\ router'.faults \in Nat
      BY <1>0, <2>1 DEF NatTypes
    <2> HIDE DEF rec
    <2>6. Covered(b, rec, offer[2], unheard)
      BY <1>4, <1>13, <2>2, <2>3 DEF Covered, Deletes, Granted, c
    <2>7. Becomes(b, rec) /\ UNCHANGED svc /\ client[b].pc # "none"
      BY <1>13, <2>1 DEF rec, Granted
    <2> HIDE DEF unheard
    <2> QED
      BY <2>3, <2>4, <2>5, <2>6, <2>7, OneWorker
  <1>14. CASE Unheard(b)
    <2>1. PICK offer \in Offers(b), n \in {router.faults, router.faults + 1} :
             router' = [table |-> [router.table EXCEPT ![b] = offer[2]],
                        unheard |-> [router.unheard EXCEPT ![b] = @ \cup {offer[1]}], faults |-> n]
      BY <1>14 DEF Unheard
    <2>2. /\ offer[1] \in AnyPort
          /\ \/ b = "natpmp" /\ offer[2] = {offer[1]}
             \/ b = "upnp" /\ offer[1] = c.local /\ offer[2] = router.table[b] \cup {c.local}
      BY <1>1 DEF Offers, send_map_request, add_port_mapping, AnyPort, Backends, Client, c
    <2> DEFINE rec == Asked(c)
               unheard == router.unheard[b] \cup {offer[1]}
    <2>3. rec \in Client /\ rec.pc = "sleep" /\ rec.m = c.m
      BY <1>1, ClientUpdates
    <2>4. offer[2] \in SUBSET AnyPort /\ unheard \in SUBSET AnyPort
      BY <1>3, <2>2
    <2>5. router' = [table |-> [router.table EXCEPT ![b] = offer[2]],
                     unheard |-> [router.unheard EXCEPT ![b] = unheard], faults |-> router'.faults]
          /\ router'.faults \in Nat
      BY <1>0, <1>2, <2>1 DEF NatTypes
    <2> HIDE DEF rec
    <2>6. Covered(b, rec, offer[2], unheard)
      BY <1>4, <1>14, <2>2, <2>3 DEF Covered, Deletes, Unheard, c
    <2>7. Becomes(b, rec) /\ UNCHANGED svc /\ client[b].pc # "none"
      BY <1>14 DEF rec, Unheard, c
    <2> HIDE DEF unheard
    <2> QED
      BY <2>3, <2>4, <2>5, <2>6, <2>7, OneWorker
  <1>15. CASE Refused(b)
    BY <1>1, <1>7, <1>15, ClientUpdates DEF Refused, c
  <1>16. CASE PermanentOnly(b)
    <2> DEFINE d == [c EXCEPT !.permanent = TRUE]
               rec == Retried(d)
    <2>1. d \in Client /\ d.m = c.m /\ d.pc = "map" /\ d.local = c.local /\ b = "upnp"
      BY <1>1, <1>16, ClientUpdates DEF PermanentOnly, c
    <2> HIDE DEF d
    <2>2. rec \in Client /\ rec.m = c.m /\ (rec.pc = "sleep" \/ (rec.pc = "map" /\ rec.local = c.local))
      <3>1. d \in Client
        BY <2>1
      <3>2. /\ Retried(d) \in Client /\ Retried(d).m = d.m
            /\ Retried(d).pc = "sleep" \/ (Retried(d).pc = d.pc /\ Retried(d).local = d.local)
        BY <3>1, RetriedClient
      <3> QED
        BY <2>1, <3>2
    <2> HIDE DEF rec
    <2>3. Covered(b, rec, router.table[b], router.unheard[b])
      BY <1>4, <1>16, <2>2 DEF Covered, Deletes, PermanentOnly, c
    <2>4. Becomes(b, rec) /\ UNCHANGED <<svc, router>> /\ client[b].pc # "none"
      BY <1>16 DEF PermanentOnly, rec, d, c
    <2>5. router' = [table |-> [router.table EXCEPT ![b] = router.table[b]],
                     unheard |-> [router.unheard EXCEPT ![b] = router.unheard[b]], faults |-> router'.faults]
          /\ router'.faults \in Nat
      BY <1>0, <2>4 DEF NatTypes
    <2> QED
      BY <1>3, <2>2, <2>3, <2>4, <2>5, OneWorker
  <1>17. CASE Conflict(b)
    <2>1. PICK port \in Ports : Becomes(b, Retried([c EXCEPT !.local = port]))
      BY <1>17 DEF Conflict, c
    <2> DEFINE d == [c EXCEPT !.local = port]
               rec == Retried(d)
    <2>2. d \in Client /\ d.m = c.m /\ d.pc = "map" /\ b = "upnp"
      <3>1. port \in AnyPort
        BY DEF AnyPort
      <3>2. d \in Client /\ d.m = c.m /\ d.pc = c.pc
        BY <1>1, <3>1, ClientUpdates
      <3> QED
        BY <1>17, <3>2 DEF Conflict, c
    <2>3. Becomes(b, rec) /\ UNCHANGED svc /\ client[b].pc # "none"
      BY <1>17, <2>1 DEF Conflict
    <2> HIDE DEF d
    <2>4. rec \in Client /\ rec.m = c.m /\ rec.pc \in {"sleep", "map"}
      BY <2>2, RetriedClient
    <2> HIDE DEF rec
    <2>5. CASE c.local \notin router.table[b] /\ UNCHANGED router
      <3>1. Covered(b, rec, router.table[b], router.unheard[b])
        BY <1>4, <1>17, <2>4, <2>5 DEF Covered, Deletes, Conflict, c
      <3>2. router' = [table |-> [router.table EXCEPT ![b] = router.table[b]],
                       unheard |-> [router.unheard EXCEPT ![b] = router.unheard[b]], faults |-> router'.faults]
            /\ router'.faults \in Nat
        BY <1>0, <2>5 DEF NatTypes
      <3> QED
        BY <1>3, <2>3, <2>4, <3>1, <3>2, OneWorker
    <2>6. CASE router' = [router EXCEPT !.faults = @ + 1, !.unheard[b] = @ \cup {c.local}]
      <3> DEFINE unheard == router.unheard[b] \cup {c.local}
      <3>1. unheard \in SUBSET AnyPort
        BY <1>1, <1>3 DEF Client
      <3>2. Covered(b, rec, router.table[b], unheard)
        BY <1>4, <1>17, <2>4 DEF Covered, Deletes, Conflict, c
      <3>3. router' = [table |-> [router.table EXCEPT ![b] = router.table[b]],
                       unheard |-> [router.unheard EXCEPT ![b] = unheard], faults |-> router'.faults]
            /\ router'.faults \in Nat
        BY <1>0, <1>2, <2>6 DEF NatTypes
      <3> HIDE DEF unheard
      <3> QED
        BY <1>3, <2>3, <2>4, <3>1, <3>2, <3>3, OneWorker
    <2> QED
      BY <1>17, <2>5, <2>6 DEF Conflict, c
  <1>18. CASE ToSleep(b)
    <2>1. CASE Becomes(b, [c EXCEPT !.pc = "checked"])
      BY <1>6, <1>18, <2>1 DEF ToSleep, Pcs, c
    <2>2. CASE Becomes(b, [c EXCEPT !.pc = "look", !.wake = FALSE])
      <3> DEFINE rec == [c EXCEPT !.pc = "look", !.wake = FALSE]
      <3>1. rec \in Client /\ rec.pc = "look" /\ rec.m = c.m
        BY <1>1 DEF Client, Pcs
      <3> HIDE DEF rec
      <3>2. Becomes(b, rec)
        BY <2>2 DEF rec
      <3> QED
        BY <1>2, <1>18, <3>1, <3>2, QuietWorker DEF ToSleep, c
    <2> QED
      BY <1>18, <2>1, <2>2 DEF ToSleep, c
  <1>19. CASE Sleeps(b)
    BY <1>6, <1>19 DEF Sleeps, Pcs, c
  <1>20. CASE TimesOut(b)
    <2> DEFINE rec == [c EXCEPT !.pc = "look", !.wake = FALSE, !.m.due = TRUE]
    <2>1. rec \in Client /\ rec.pc = "look" /\ rec.m.active = c.m.active /\ rec.m.port = c.m.port
      BY <1>1 DEF Client, Pcs, Mapping
    <2> HIDE DEF rec
    <2>2. Becomes(b, rec)
      BY <1>20 DEF TimesOut, rec, c
    <2> QED
      BY <1>2, <1>20, <2>1, <2>2, QuietWorker DEF TimesOut, c
  <1>21. ASSUME c.pc = "clear", Becomes(b, [c EXCEPT !.pc = "done"]), UNCHANGED svc, router'.faults \in Nat,
                NEW table \in SUBSET AnyPort, NEW unheard \in SUBSET AnyPort, table \subseteq unheard,
                router' = [table |-> [router.table EXCEPT ![b] = table],
                           unheard |-> [router.unheard EXCEPT ![b] = unheard], faults |-> router'.faults]
         PROVE  HostInv'
    <2> DEFINE rec == [c EXCEPT !.pc = "done"]
    <2>1. rec \in Client /\ rec.pc = "done"
      BY <1>1, ClientUpdates DEF Pcs
    <2> HIDE DEF rec
    <2>2. Becomes(b, rec)
      BY <1>21 DEF rec
    <2>3. Covered(b, rec, table, unheard)
      BY <1>21, <2>1 DEF Covered
    <2> QED
      BY <1>21, <2>1, <2>2, <2>3, OneWorker DEF c
  <1>22. CASE Clear(b)
    <2>1. CASE ~c.m.active
      <3>1. router.table[b] \subseteq router.unheard[b]
        BY <1>4, <2>1 DEF Covered, Deletes
      <3>2. router' = [table |-> [router.table EXCEPT ![b] = router.table[b]],
                       unheard |-> [router.unheard EXCEPT ![b] = router.unheard[b]], faults |-> router'.faults]
            /\ router'.faults \in Nat
        BY <1>0, <1>22, <2>1 DEF Clear, NatTypes, c
      <3> QED
        BY <1>3, <1>21, <1>22, <3>1, <3>2 DEF Clear, c
    <2>2. CASE c.m.active
      <3> DEFINE table == IF b = "upnp" THEN router.table[b] \ {c.m.port} ELSE {}
      <3>1. table \subseteq router.unheard[b] /\ table \in SUBSET AnyPort
        BY <1>3, <1>4, <1>22 DEF Covered, Deletes, Clear, Backends, c
      <3>2. router' = [table |-> [router.table EXCEPT ![b] = table],
                       unheard |-> [router.unheard EXCEPT ![b] = router.unheard[b]], faults |-> router'.faults]
            /\ router'.faults \in Nat
        BY <1>0, <1>22, <2>2 DEF Clear, NatTypes, delete_port_mapping, delete_by_internal_port, c
      <3> HIDE DEF table
      <3> QED
        BY <1>3, <1>21, <1>22, <3>1, <3>2 DEF Clear, c
    <2> QED
      BY <2>1, <2>2
  <1>23. CASE ClearFails(b)
    <2> DEFINE unheard == router.unheard[b] \cup router.table[b]
    <2>1. router' = [table |-> [router.table EXCEPT ![b] = router.table[b]],
                     unheard |-> [router.unheard EXCEPT ![b] = unheard], faults |-> router'.faults]
          /\ router'.faults \in Nat
      BY <1>0, <1>2, <1>23 DEF ClearFails, NatTypes
    <2>2. unheard \in SUBSET AnyPort /\ router.table[b] \subseteq unheard
      BY <1>3
    <2> HIDE DEF unheard
    <2> QED
      BY <1>3, <1>21, <1>23, <2>1, <2>2 DEF ClearFails, c
  <1> QED
    BY <1>8, <1>9, <1>10, <1>11, <1>12, <1>13, <1>14, <1>15, <1>16, <1>17, <1>18, <1>19, <1>20, <1>22, <1>23 DEF Worker

(* stop() touches the flags of the client it stops, and forgets it once    *)
(* its worker has ended.                                                   *)
LEMMA StoppingKeeps ==
    ASSUME HostInv, Stopping, UNCHANGED <<watch, node>>
    PROVE  HostInv'
  <1>0. NatTypes /\ Owned /\ Accounted /\ Closing
    BY DEF HostInv
  <1>1. svc.leaving # {} => Leaver \in svc.leaving /\ Leaver \in Backends
    BY <1>0 DEF Leaver, NatTypes, Backends, Service
  <1>2. UNCHANGED router
    BY DEF Stopping, StopRequests, StopWakes, StopJoins, StopReturns
  <1>3. ASSUME svc.leaving # {}, svc.stop # "no", NEW rec \in Client, client' = [client EXCEPT ![Leaver] = rec],
               NEW stop \in {"request", "wake", "join"}, NEW leaving \in SUBSET Backends,
               stop # "request" => leaving # {}, svc' = [svc EXCEPT !.stop = stop, !.leaving = leaving],
               leaving = IF rec.pc = "none" THEN svc.leaving \ {Leaver} ELSE svc.leaving,
               rec.pc \in {"none", "find"} => ~rec.m.active,
               Covered(Leaver, rec, router.table[Leaver], router.unheard[Leaver])
        PROVE  HostInv'
    <2>1. client' \in [Backends -> Client] /\ \A a \in Backends : client'[a] = IF a = Leaver THEN rec ELSE client[a]
      BY <1>0, <1>1, <1>3 DEF NatTypes
    <2>2. /\ svc' \in Service
          /\ svc'.stop = stop /\ svc'.leaving = leaving /\ svc'.held = svc.held /\ svc.held = {}
      BY <1>0, <1>3 DEF NatTypes, Owned, Service
    <2>3. NatTypes'
      BY <1>0, <1>2, <2>1, <2>2 DEF NatTypes
    <2>4. Owned'
      <3>1. ASSUME NEW a \in Backends
            PROVE  /\ client'[a].pc # "none" <=> a \in svc'.held \cup svc'.leaving
                   /\ client'[a].pc \in {"none", "find"} => ~client'[a].m.active
        BY <1>0, <1>1, <1>3, <2>1, <2>2 DEF Owned
      <3> QED
        BY <1>3, <2>2, <3>1 DEF Owned
    <2>5. Accounted'
      BY <1>0, <1>2, <1>3, <2>1 DEF Accounted
    <2>6. Closing'
      BY <1>0, <1>3, <2>2 DEF Closing
    <2> QED
      BY <2>3, <2>4, <2>5, <2>6 DEF HostInv
  <1> DEFINE c == client[Leaver]
  <1>4. svc.leaving # {} => c \in Client /\ c.pc # "none" /\ Covered(Leaver, c, router.table[Leaver], router.unheard[Leaver])
    BY <1>0, <1>1 DEF NatTypes, Owned, Accounted
  <1>5. /\ svc.leaving \in SUBSET Backends /\ (svc.leaving # {} => (c.pc = "find" => ~c.m.active))
        /\ svc = [svc EXCEPT !.leaving = svc.leaving]
        /\ \A stop : [svc EXCEPT !.stop = stop] = [svc EXCEPT !.stop = stop, !.leaving = svc.leaving]
    BY <1>0, <1>1 DEF NatTypes, Owned, Service
  <1>6. CASE StopRequests
    <2> DEFINE rec == [c EXCEPT !.stopreq = TRUE]
    <2>1. rec \in Client /\ rec.pc = c.pc /\ rec.m = c.m /\ rec.local = c.local
      BY <1>4, <1>6 DEF StopRequests, Client
    <2>2. client' = [client EXCEPT ![Leaver] = rec]
      BY <1>0, <1>1, <1>6 DEF StopRequests, NatTypes
    <2>3. svc' = [svc EXCEPT !.stop = "wake", !.leaving = svc.leaving] /\ svc.leaving # {} /\ svc.stop # "no"
      BY <1>5, <1>6 DEF StopRequests
    <2> HIDE DEF rec, c
    <2>4. Covered(Leaver, rec, router.table[Leaver], router.unheard[Leaver])
      BY <1>4, <2>1, <2>3 DEF Covered, Deletes
    <2> QED
      BY <1>3, <1>4, <1>5, <2>1, <2>2, <2>3, <2>4
  <1>7. CASE StopWakes
    <2> DEFINE rec == [c EXCEPT !.wake = TRUE, !.byte = TRUE, !.pc = Notified(c)]
    <2>0. svc.leaving # {} /\ svc.stop # "no"
      BY <1>0, <1>7 DEF StopWakes, Owned
    <2>1. rec \in Client /\ rec.m = c.m /\ rec.local = c.local /\ (rec.pc = c.pc \/ (rec.pc = "awake" /\ c.pc = "asleep"))
      BY <1>4, <2>0 DEF Client, Pcs, Notified
    <2>2. client' = [client EXCEPT ![Leaver] = rec]
      BY <1>0, <1>1, <1>7, <2>0 DEF StopWakes, NatTypes
    <2>3. svc' = [svc EXCEPT !.stop = "join", !.leaving = svc.leaving]
      BY <1>5, <1>7 DEF StopWakes
    <2> HIDE DEF rec, c
    <2>4. Covered(Leaver, rec, router.table[Leaver], router.unheard[Leaver])
      BY <1>4, <2>0, <2>1 DEF Covered, Deletes
    <2> QED
      BY <1>3, <1>4, <1>5, <2>0, <2>1, <2>2, <2>3, <2>4
  <1>8. CASE StopJoins
    <2>0. svc.leaving # {} /\ svc.stop # "no"
      BY <1>0, <1>8 DEF StopJoins, Owned
    <2>1. NoClient \in Client /\ NoClient.pc = "none" /\ ~NoClient.m.active
      BY DEF NoClient, Client, Pcs, Registered, Mapping, AnyPort
    <2>2. Covered(Leaver, NoClient, router.table[Leaver], router.unheard[Leaver])
      BY <1>4, <1>8, <2>0, <2>1 DEF StopJoins, Covered, Deletes
    <2>3. svc' = [svc EXCEPT !.stop = "request", !.leaving = svc.leaving \ {Leaver}]
      BY <1>0, <1>8 DEF StopJoins, NatTypes
    <2>4. client' = [client EXCEPT ![Leaver] = NoClient]
      BY <1>8 DEF StopJoins
    <2> HIDE DEF c
    <2>5. svc.leaving \ {Leaver} \in SUBSET Backends
      BY <1>5
    <2> QED
      BY <1>3, <2>0, <2>1, <2>2, <2>3, <2>4, <2>5
  <1>9. CASE StopReturns
    <2>1. svc' = [svc EXCEPT !.stop = "no"] /\ svc.leaving = {} /\ svc.stop = "request" /\ UNCHANGED client
      BY <1>9 DEF StopReturns
    <2>2. /\ svc' \in Service
          /\ svc'.stop = "no" /\ svc'.leaving = {} /\ svc'.held = svc.held
      BY <1>0, <2>1 DEF NatTypes, Service
    <2>3. NatTypes'
      BY <1>0, <1>2, <2>1, <2>2 DEF NatTypes
    <2>4. Owned' /\ Closing' /\ Accounted'
      BY <1>0, <1>2, <2>1, <2>2 DEF Owned, Closing, Accounted
    <2> QED
      BY <2>3, <2>4 DEF HostInv
  <1> QED
    BY <1>6, <1>7, <1>8, <1>9 DEF Stopping

(* start() finds no client, or changes nothing.                            *)
LEMMA StartKeeps ==
    ASSUME NatTypes, Owned, Accounted, svc.stop = "no", NEW addr \in Nat, start(addr), UNCHANGED router,
           watch' \in Watch,
           node' \in Node
    PROVE  NatTypes' /\ Owned' /\ Accounted'
  <1>1. CASE svc.held # {}
    <2>1. UNCHANGED <<client, svc>>
      BY <1>1 DEF start
    <2> QED
      BY <2>1 DEF NatTypes, Owned, Accounted
  <1>2. CASE svc.held = {}
    <2>1. /\ client' = [b \in Backends |-> IF b \in svc.config THEN NewClient(b) ELSE NoClient]
          /\ svc' = [svc EXCEPT !.held = svc.config, !.addr = addr]
      BY <1>2 DEF start
    <2>2. ASSUME NEW b \in Backends
          PROVE  /\ NewClient(b) \in Client /\ NewClient(b).pc = "find" /\ ~NewClient(b).m.active
                 /\ NoClient \in Client /\ NoClient.pc = "none" /\ ~NoClient.m.active
      BY DEF NewClient, NoClient, Client, Pcs, Registered, Mapping, AnyPort
    <2>3. client' \in [Backends -> Client]
      BY <2>1, <2>2
    <2>4. /\ svc' \in Service
          /\ svc'.held = svc.config /\ svc'.stop = "no" /\ svc'.leaving = {}
      BY <2>1 DEF NatTypes, Owned, Service
    <2>5. NatTypes'
      BY <2>3, <2>4 DEF NatTypes
    <2>6. ASSUME NEW b \in Backends
          PROVE  /\ client'[b].pc = IF b \in svc.config THEN "find" ELSE "none"
                 /\ ~client'[b].m.active
      BY <2>1, <2>2
    <2>7. Owned'
      BY <2>4, <2>6 DEF Owned
    <2>8. ASSUME NEW b \in Backends PROVE Covered(b, client'[b], router.table[b], router.unheard[b])
      <3>1. client[b].pc = "none" /\ ~client[b].m.active
        BY <1>2 DEF Owned
      <3>2. router.table[b] \subseteq router.unheard[b]
        BY <3>1 DEF Accounted, Covered, Deletes
      <3> QED
        BY <2>6, <3>2 DEF Covered
    <2>9. Accounted'
      BY <2>8 DEF Accounted
    <2> QED
      BY <2>5, <2>7, <2>9
  <1> QED
    BY <1>1, <1>2

(* A step of the monitor, the maintenance thread or the owner that leaves  *)
(* the service alone.                                                      *)
LEMMA ApartKeeps ==
    ASSUME HostInv, UNCHANGED natVars, Closing',
           watch' \in Watch,
           node' \in Node
    PROVE  HostInv'
  BY DEF HostInv, NatTypes, Owned, Accounted, natVars

LEMMA StopBeginsKeeps ==
    ASSUME HostInv, StopBegins, UNCHANGED watch, node.pc # "down", node.pc \notin {"stopping", "stopped"},
           node'.pc = node.pc \/ (node'.pc = "stopping" /\ node'.maint = "gone"),
           node' \in Node
    PROVE  HostInv'
  <1>0. NatTypes /\ Owned /\ Accounted /\ Closing
    BY DEF HostInv
  <1>1. /\ svc' \in Service
        /\ svc'.held = {} /\ svc'.leaving = svc.held /\ svc'.stop = "request" /\ svc.leaving = {}
        /\ UNCHANGED <<client, router>>
    BY <1>0 DEF StopBegins, NatTypes, Owned, Service
  <1>2. NatTypes'
    BY <1>0, <1>1 DEF NatTypes
  <1>3. Owned' /\ Accounted' /\ Closing'
    BY <1>0, <1>1 DEF Owned, Accounted, Closing
  <1> QED
    BY <1>2, <1>3 DEF HostInv

LEMMA HostStep == HostInv /\ [WatchNext]_watchVars => HostInv'
  <1> SUFFICES ASSUME HostInv, [WatchNext]_watchVars PROVE HostInv'
    OBVIOUS
  <1>0. NatTypes /\ Owned /\ Accounted /\ Closing
    BY DEF HostInv
  <1>t. /\ watch \in Watch
        /\ node \in Node
    BY <1>0 DEF NatTypes
  <1>1. CASE NodeStarts
    <2>1. NatTypes' /\ Owned' /\ Accounted'
      BY <1>0, <1>1, <1>t, StartKeeps DEF NodeStarts, Closing, Watch, Node
    <2>2. Closing'
      BY <1>1, <1>t DEF NodeStarts, Closing
    <2> QED
      BY <2>1, <2>2 DEF HostInv
  <1>2. CASE HostMoves \/ check_now \/ Monitor
    <2>1. /\ UNCHANGED natVars
          /\ watch' \in Watch
      <3>1. CASE HostMoves
        <4>1. PICK told \in BOOLEAN : watch' = [watch EXCEPT !.addr = @ + 1, !.event = @ \/ told]
          BY <3>1 DEF HostMoves
        <4>2. PICK event \in BOOLEAN : watch' = [watch EXCEPT !.addr = @ + 1, !.event = event]
          BY <4>1, Zenon
        <4>3. watch' \in Watch
          <5>1. watch.addr + 1 \in Nat
            BY <1>t DEF Watch
          <5> QED
            BY <1>t, <4>2, <5>1 DEF Watch
        <4> QED
          BY <3>1, <4>3 DEF HostMoves
      <3>2. CASE check_now \/ Monitor
        <4>1. CASE check_now
          BY <1>t, <4>1 DEF check_now, Watch
        <4>2. CASE WaitsOut
          BY <1>t, <4>2 DEF WaitsOut, Watch
        <4>3. CASE Debounces
          BY <1>t, <4>3 DEF Debounces, Watch
        <4>4. CASE snapshot_addresses
          BY <1>t, <4>4 DEF snapshot_addresses, Watch
        <4>5. CASE Compares
          BY <1>t, <4>5 DEF Compares, Watch
        <4> QED
          BY <3>2, <4>1, <4>2, <4>3, <4>4, <4>5 DEF Monitor
      <3> QED
        BY <1>2, <3>1, <3>2
    <2>2. node' = node \/ node' = [node EXCEPT !.pending = TRUE]
      BY <1>2 DEF HostMoves, check_now, Monitor, WaitsOut, Debounces, snapshot_addresses, Compares
    <2>3. /\ node' \in Node
          /\ node'.pc = node.pc /\ node'.maint = node.maint
      BY <1>t, <2>2 DEF Node
    <2>4. Closing'
      BY <1>0, <2>1, <2>3 DEF Closing, natVars
    <2> QED
      BY <2>1, <2>3, <2>4, ApartKeeps
  <1>3. CASE MaintTakes \/ MaintReturns \/ NodeStops \/ MonitorJoined \/ NodeStopped
    <2>1. /\ UNCHANGED natVars /\ UNCHANGED watch
          /\ node' \in Node
      BY <1>3, <1>t DEF MaintTakes, MaintReturns, NodeStops, MonitorJoined, NodeStopped, Node
    <2>2. Closing'
      BY <1>0, <1>3, <1>t, <2>1 DEF MaintTakes, MaintReturns, NodeStops, MonitorJoined, NodeStopped, Closing, natVars, Node
    <2> QED
      BY <1>t, <2>1, <2>2, ApartKeeps
  <1>4. CASE MaintStops \/ MaintJoined
    <2>1. /\ StopBegins /\ UNCHANGED watch /\ node.pc # "down" /\ node.pc \notin {"stopping", "stopped"}
          /\ node'.pc = node.pc \/ (node'.pc = "stopping" /\ node'.maint = "gone")
          /\ node' \in Node
      BY <1>0, <1>4, <1>t DEF MaintStops, MaintJoined, Closing, Node
    <2> QED
      BY <2>1, StopBeginsKeeps
  <1>5. CASE MaintStarts
    <2>1. node' \in Node
          /\ node'.pc = node.pc
      BY <1>5, <1>t DEF MaintStarts, Node
    <2>2. NatTypes' /\ Owned' /\ Accounted'
      BY <1>0, <1>5, <1>t, <2>1, StartKeeps DEF MaintStarts, Watch, Node
    <2>3. Closing'
      BY <1>0, <1>5, <2>1 DEF MaintStarts, Closing
    <2> QED
      BY <2>2, <2>3 DEF HostInv
  <1>6. CASE NatStep /\ UNCHANGED <<watch, node>>
    BY <1>6, WorkerKeeps, StoppingKeeps DEF NatStep
  <1>7. CASE UNCHANGED watchVars
    BY <1>0, <1>t, <1>7, ApartKeeps DEF watchVars, natVars, Closing
  <1> QED
    BY <1>1, <1>2, <1>3, <1>4, <1>5, <1>6, <1>7 DEF WatchNext, Maintenance

(* "on stop() it removes the mapping": once the node has stopped, no       *)
(* client is left and the router maps nothing but what it could not tell   *)
(* or would not delete, whatever the addresses, the backends enabled, the  *)
(* ports it offers and the attempts of a request.                          *)
THEOREM StopLeavesNothing == WatchSpec => []NothingLeftBehind
  <1>1. HostInv => NothingLeftBehind
    <2> SUFFICES ASSUME HostInv, node.pc = "stopped"
                 PROVE  /\ svc.held = {} /\ \A b \in Backends : client[b].pc = "none"
                        /\ \A b \in Backends : router.table[b] \subseteq router.unheard[b]
      BY DEF NothingLeftBehind
    <2>1. svc.held = {} /\ svc.leaving = {}
      BY DEF HostInv, Closing, Owned
    <2>2. \A b \in Backends : client[b].pc = "none" /\ ~client[b].m.active
      BY <2>1 DEF HostInv, Owned
    <2> QED
      BY <2>1, <2>2 DEF HostInv, Accounted, Covered, Deletes
  <1> QED
    BY <1>1, HostInitInv, HostStep, PTL DEF WatchSpec

-----------------------------------------------------------------------------
(* The handshake and the channel.                                          *)
(* What either end holds at each point of the handshake, as a value: hash, *)
(* chaining key and cipher.  The payload of the first message is in clear, *)
(* so the responder takes a damaged one: t is what it read.                *)

NoPayload == Plain(Nothing)
Payloads == {NoPayload, Damaged}

ChainEe == <<{"e1", "e2"}>>
ChainEs == Append(ChainEe, {"e1", "s2"})
ChainSe == Append(ChainEs, {"s1", "e2"})
ChainSplit == Append(ChainSe, {})
KeyOf(ck, i) == [ck |-> ck, i |-> i]

Hash2(p) == <<Plain("Noise_XX"), Plain(p)>>
Hash4(p, t) == Append(Append(Hash2(p), Plain("e1")), t)
Hash5(p, t) == Append(Hash4(p, t), Plain("e2"))
Static2(p, t) == [key |-> KeyOf(ChainEe, 2), nonce |-> 0, ad |-> Hash5(p, t), plain |-> "s2"]
Hash6(p, t) == Append(Hash5(p, t), Static2(p, t))
Payload2(p, t) == [key |-> KeyOf(ChainEs, 2), nonce |-> 0, ad |-> Hash6(p, t), plain |-> Nothing]
Hash7(p, t) == Append(Hash6(p, t), Payload2(p, t))
Static1(p) == [key |-> KeyOf(ChainEs, 2), nonce |-> 1, ad |-> Hash7(p, NoPayload), plain |-> "s1"]
Hash8(p) == Append(Hash7(p, NoPayload), Static1(p))
Payload3(p) == [key |-> KeyOf(ChainSe, 2), nonce |-> 0, ad |-> Hash8(p), plain |-> Nothing]
Hash9(p) == Append(Hash8(p), Payload3(p))

Handshake(s, index, stage, h, ck, cipher, re, rs) ==
    [initiator |-> s = "initiator", index |-> index, complete |-> stage = "complete", h |-> h, ck |-> ck, cipher |-> cipher,
     s |-> StaticOf(s), e |-> EphemeralOf(s), re |-> re, rs |-> rs]
Keyed(ck, n) == [key |-> KeyOf(ck, 2), nonce |-> n]

Met(s, p, rs) == Handshake(s, 0, "open", Hash2(p), <<>>, Cipher(NoKey), Nothing, rs)
Begun(s, p) == Handshake(s, 0, "open", Hash2(p), <<>>, Cipher(NoKey), Nothing, Nothing)
Greeted(p) == Handshake("initiator", 1, "open", Hash4(p, NoPayload), <<>>, Cipher(NoKey), Nothing, Nothing)
Answered(p, t) == Handshake("responder", 2, "open", Hash7(p, t), ChainEs, Keyed(ChainEs, 1), "e1", Nothing)
Finished(s, p) ==
    Handshake(s, 3, "complete", Hash9(p), ChainSe, Keyed(ChainSe, 1), EphemeralOf(Peer(s)), StaticOf(Peer(s)))

(* The frames that may be under way.                                       *)

Greetings == {<<Plain("e1"), t>> : t \in Payloads}
Answers(p, t) == {<<Plain("e2"), Static2(p, t), Payload2(p, t)>>, <<Plain("e2"), Static2(p, t), Damaged>>}
Confirmations(p) == {<<Static1(p), Payload3(p)>>, <<Static1(p), Damaged>>}

SendKey(s) == KeyOf(ChainSplit, IF s = "initiator" THEN 1 ELSE 2)
Transport(s, n) == <<[key |-> SendKey(s), nonce |-> n, ad |-> <<>>, plain |-> Data[n + 1]]>>
Transported(s, n) == {Transport(s, k) : k \in 0..(n - 1)} \cup {<<Damaged>>}
SecureFrames(s) == [n \in Nat |-> Transport(s, n)]
PlainFrames == [n \in Nat |-> <<Plain(Data[n + 1])>>]

(* The frames of an end from the a-th to before the b-th, and all before   *)
(* the n-th after another.                                                 *)
Pending(T, a, b) == [i \in 1..(b - a) |-> T[a + i - 1]]
Queue(first, T, n) == [i \in 1..(n + 1) |-> IF i = 1 THEN first ELSE T[i - 2]]

(* The stages of a connection.                                             *)

P(s) == ends[s].protocol
Is(s, hs, states, send, recv) ==
    ends[s].hs = hs /\ ends[s].state \in states /\ ends[s].send = send /\ ends[s].recv = recv
Still(s) == ends[s].sent = 0 /\ ends[s].got = <<>>
Young(s, hs, states) == ends[s].secure /\ Is(s, hs, states, Cipher(NoKey), Cipher(NoKey)) /\ Still(s)
Talking(s) ==
    /\ ends[s].secure
    /\ Is(s, Finished(s, P(s)), {"ready", "closed"}, [key |-> SendKey(s), nonce |-> ends[s].sent],
          [key |-> SendKey(Peer(s)), nonce |-> Len(ends[s].got)])
Open == \A s \in Sides : ends[s].state # "closed"
Empty == \A s \in Sides : wires[s] = <<>>

SecureStart ==
    /\ Young("initiator", Begun("initiator", P("initiator")), {"start"})
    /\ Young("responder", Begun("responder", P("responder")), {"handshake"})
    /\ Empty

Greeting ==
    /\ Young("initiator", Greeted(P("initiator")), {"handshake", "closed"})
    /\ Young("responder", Begun("responder", P("responder")), {"handshake", "closed"})
    /\ wires["responder"] \in Seq(Greetings) /\ wires["initiator"] = <<>>
    /\ mishaps = 0 => Open /\ wires["responder"] = <<<<Plain("e1"), NoPayload>>>>

Answering(t) ==
    /\ Young("initiator", Greeted(P("initiator")), {"handshake", "closed"})
    /\ Young("responder", Answered(P("responder"), t), {"handshake", "closed"})
    /\ wires["responder"] \in Seq(Greetings) /\ wires["initiator"] \in Seq(Answers(P("responder"), t))
    /\ mishaps = 0 =>
          /\ t = NoPayload /\ wires["responder"] = <<>>
          /\ \/ Open /\ wires["initiator"] = <<<<Plain("e2"), Static2(P("responder"), t), Payload2(P("responder"), t)>>>>
             \/ P("initiator") # P("responder") /\ Empty

FromInitiator == Greetings \cup Confirmations(P("initiator")) \cup Transported("initiator", ends["initiator"].sent)
Confirming ==
    /\ P("initiator") = P("responder")
    /\ Talking("initiator") /\ ends["initiator"].got = <<>>
    /\ Young("responder", Answered(P("responder"), NoPayload), {"handshake", "closed"})
    /\ wires["responder"] \in Seq(FromInitiator) /\ wires["initiator"] \in Seq(Answers(P("responder"), NoPayload))
    /\ mishaps = 0 =>
          /\ Open /\ wires["initiator"] = <<>>
          /\ wires["responder"] = Queue(<<Static1(P("initiator")), Payload3(P("initiator"))>>, SecureFrames("initiator"), ends["initiator"].sent)

FromResponder == Answers(P("responder"), NoPayload) \cup Transported("responder", ends["responder"].sent)
SecureSession ==
    /\ P("initiator") = P("responder")
    /\ Talking("initiator") /\ Talking("responder")
    /\ wires["responder"] \in Seq(FromInitiator) /\ wires["initiator"] \in Seq(FromResponder)
    /\ mishaps = 0 =>
          /\ Open
          /\ \A s \in Sides : wires[Peer(s)] = Pending(SecureFrames(s), Len(ends[Peer(s)].got), ends[s].sent)

PlainEnd(s, stage, rs) == ~ends[s].secure /\ Is(s, Met(s, P(s), rs), {stage}, Cipher(NoKey), Cipher(NoKey))
Hello(s) == <<Plain(P(s)), Plain(StaticOf(s))>>

PlainBegin ==
    /\ PlainEnd("initiator", "start", Nothing) /\ Still("initiator")
    /\ PlainEnd("responder", "handshake", Nothing) /\ Still("responder")
    /\ Empty
PlainGreeting ==
    /\ PlainEnd("initiator", "handshake", Nothing) /\ Still("initiator")
    /\ Still("responder") /\ wires["initiator"] = <<>>
    /\ \/ PlainEnd("responder", "handshake", Nothing) /\ wires["responder"] = <<Hello("initiator")>>
       \/ PlainEnd("responder", "closed", Nothing) /\ P("initiator") # P("responder") /\ wires["responder"] = <<>>
PlainAnswer ==
    /\ P("initiator") = P("responder")
    /\ PlainEnd("initiator", "handshake", Nothing) /\ Still("initiator")
    /\ PlainEnd("responder", "ready", "s1") /\ ends["responder"].got = <<>>
    /\ wires["responder"] = <<>> /\ wires["initiator"] = Queue(Hello("responder"), PlainFrames, ends["responder"].sent)
PlainSession ==
    /\ P("initiator") = P("responder")
    /\ \A s \in Sides : PlainEnd(s, "ready", StaticOf(Peer(s)))
    /\ \A s \in Sides : wires[Peer(s)] = Pending(PlainFrames, Len(ends[Peer(s)].got), ends[s].sent)

EndFields == {"hs", "protocol", "secure", "state", "send", "recv", "sent", "got"}
Shaped ==
    /\ ends = [s \in Sides |-> ends[s]] /\ wires = [s \in Sides |-> wires[s]]
    /\ \A s \in Sides : DOMAIN ends[s] = EndFields

ChannelTypes ==
    /\ Shaped /\ mishaps \in Nat
    /\ (\E s \in Sides : ends[s].state = "closed") => Empty
    /\ \A s \in Sides :
          /\ ends[s].sent \in 0..Len(Data) /\ Len(ends[s].got) \in 0..ends[Peer(s)].sent
          /\ ends[s].got = SubSeq(Data, 1, Len(ends[s].got))

ChannelInv ==
    /\ ChannelTypes
    /\ \/ SecureStart \/ Greeting \/ (\E t \in Payloads : Answering(t)) \/ Confirming \/ SecureSession
       \/ mishaps = 0 /\ (PlainBegin \/ PlainGreeting \/ PlainAnswer \/ PlainSession)

(* Two fields at once are two fields in turn.                              *)
LEMMA TwoFields ==
    ASSUME NEW st, NEW a, NEW b
    PROVE  [st EXCEPT !.ck = a, !.cipher = b] = [[st EXCEPT !.ck = a] EXCEPT !.cipher = b]
  OBVIOUS

(* A handshake, field by field.                                            *)
LEMMA HandshakeFields ==
    ASSUME NEW s, NEW index, NEW stage, NEW h, NEW ck, NEW cipher, NEW re, NEW rs
    PROVE  LET st == Handshake(s, index, stage, h, ck, cipher, re, rs) IN
           /\ st.initiator = (s = "initiator") /\ st.index = index /\ st.complete = (stage = "complete")
           /\ st.h = h /\ st.ck = ck /\ st.cipher = cipher
           /\ st.s = StaticOf(s) /\ st.e = EphemeralOf(s) /\ st.re = re /\ st.rs = rs
           /\ \A x : [st EXCEPT !.index = x] = Handshake(s, x, stage, h, ck, cipher, re, rs)
           /\ \A x : [st EXCEPT !.h = x] = Handshake(s, index, stage, x, ck, cipher, re, rs)
           /\ \A x : [st EXCEPT !.ck = x] = Handshake(s, index, stage, h, x, cipher, re, rs)
           /\ \A x : [st EXCEPT !.cipher = x] = Handshake(s, index, stage, h, ck, x, re, rs)
           /\ \A x : [st EXCEPT !.re = x] = Handshake(s, index, stage, h, ck, cipher, x, rs)
           /\ \A x : [st EXCEPT !.rs = x] = Handshake(s, index, stage, h, ck, cipher, re, x)
  BY DEF Handshake

(* Its flag, set.                                                          *)
LEMMA Completed ==
    ASSUME NEW s, NEW index, NEW stage, NEW h, NEW ck, NEW cipher, NEW re, NEW rs
    PROVE  [Handshake(s, index, stage, h, ck, cipher, re, rs) EXCEPT !.complete = TRUE]
           = Handshake(s, index, "complete", h, ck, cipher, re, rs)
  <1> DEFINE R(c) == [initiator |-> s = "initiator", index |-> index, complete |-> c, h |-> h, ck |-> ck, cipher |-> cipher,
                      s |-> StaticOf(s), e |-> EphemeralOf(s), re |-> re, rs |-> rs]
  <1>1. ASSUME NEW b, NEW c PROVE [R(c) EXCEPT !.complete = b] = R(b)
    OBVIOUS
  <1>2. Handshake(s, index, stage, h, ck, cipher, re, rs) = R(stage = "complete")
    BY Zenon DEF Handshake
  <1>3. Handshake(s, index, "complete", h, ck, cipher, re, rs) = R(TRUE)
    BY Zenon DEF Handshake
  <1> DEFINE now == stage = "complete"
             yes == TRUE
  <1>4. Handshake(s, index, stage, h, ck, cipher, re, rs) = R(now) /\ Handshake(s, index, "complete", h, ck, cipher, re, rs) = R(yes)
    BY <1>2, <1>3
  <1> HIDE DEF R, now, yes
  <1>5. [Handshake(s, index, stage, h, ck, cipher, re, rs) EXCEPT !.complete = yes]
        = Handshake(s, index, "complete", h, ck, cipher, re, rs)
    BY ONLY <1>1, <1>4
  <1> QED
    BY ONLY <1>5 DEF yes

(* mix_hash, mix_key: what they leave of a handshake.                      *)
LEMMA MixHash ==
    ASSUME NEW s, NEW index, NEW stage, NEW h, NEW ck, NEW cipher, NEW re, NEW rs, NEW t
    PROVE  mix_hash(Handshake(s, index, stage, h, ck, cipher, re, rs), t)
           = Handshake(s, index, stage, Append(h, t), ck, cipher, re, rs)
  BY DEF mix_hash, Handshake

LEMMA MixKey ==
    ASSUME NEW s, NEW index, NEW stage, NEW h, NEW ck, NEW cipher, NEW re, NEW rs, NEW mine, NEW theirs,
           NEW new, Append(ck, {mine, theirs}) = new
    PROVE  mix_dh(Handshake(s, index, stage, h, ck, cipher, re, rs), mine, theirs)
           = Handshake(s, index, stage, h, new, Keyed(new, 0), re, rs)
  <1> DEFINE st == Handshake(s, index, stage, h, ck, cipher, re, rs)
             out == rats_noise_hkdf_2(ck, {mine, theirs})
  <1>1. st.ck = ck
    BY DEF Handshake
  <1>2. out[1] = KeyOf(new, 1) /\ out[2] = KeyOf(new, 2)
    BY DEF rats_noise_hkdf_2, KeyOf
  <1>3. KeyOf(new, 1).ck = new
    BY DEF KeyOf
  <1>4. out[1].ck = new /\ Cipher(out[2]) = Keyed(new, 0)
    BY ONLY <1>2, <1>3, Zenon DEF Cipher, Keyed
  <1>5. mix_dh(st, mine, theirs) = [st EXCEPT !.ck = out[1].ck, !.cipher = Cipher(out[2])]
    BY <1>1 DEF mix_dh, mix_key, rats_curve25519_donna
  <1> HIDE DEF out
  <1>6. [st EXCEPT !.ck = new] = Handshake(s, index, stage, h, new, cipher, re, rs)
    BY DEF Handshake
  <1>9. [Handshake(s, index, stage, h, new, cipher, re, rs) EXCEPT !.cipher = Keyed(new, 0)]
        = Handshake(s, index, stage, h, new, Keyed(new, 0), re, rs)
    BY DEF Handshake
  <1>7. [[st EXCEPT !.ck = new] EXCEPT !.cipher = Keyed(new, 0)] = Handshake(s, index, stage, h, new, Keyed(new, 0), re, rs)
    BY ONLY <1>6, <1>9
  <1> HIDE DEF st
  <1>8. mix_dh(st, mine, theirs) = [[st EXCEPT !.ck = new] EXCEPT !.cipher = Keyed(new, 0)]
    BY <1>4, <1>5, TwoFields
  <1> QED
    BY <1>7, <1>8 DEF st

(* Without a key a payload passes in clear, hashed all the same.           *)
LEMMA SealClear ==
    ASSUME NEW s, NEW index, NEW stage, NEW h, NEW ck, NEW re, NEW rs
    PROVE  LET st == Handshake(s, index, stage, h, ck, Cipher(NoKey), re, rs)
           IN /\ \A x : Sealed(st, x) = Plain(x)
              /\ \A x : encrypt_and_hash(st, x) = Handshake(s, index, stage, Append(h, Plain(x)), ck, Cipher(NoKey), re, rs)
              /\ \A t : Opened(st, t) = t.plain
              /\ \A t : decrypt_and_hash(st, t) = Handshake(s, index, stage, Append(h, t), ck, Cipher(NoKey), re, rs)
  <1> DEFINE st == Handshake(s, index, stage, h, ck, Cipher(NoKey), re, rs)
  <1>1. st.cipher = Cipher(NoKey) /\ st.h = h /\ ~has_key(Cipher(NoKey))
    BY HandshakeFields DEF has_key, Cipher
  <1>2. [st EXCEPT !.cipher = Used(st.cipher)] = st
    BY <1>1, HandshakeFields DEF Used
  <1> HIDE DEF st
  <1>3. /\ \A x : Sealed(st, x) = Plain(x)
        /\ \A x : encrypt_and_hash(st, x) = mix_hash(st, Plain(x))
        /\ \A t : Opened(st, t) = t.plain
        /\ \A t : decrypt_and_hash(st, t) = mix_hash(st, t)
    BY <1>1, <1>2 DEF Sealed, Opened, encrypt_and_hash, decrypt_and_hash, encrypt_with_ad, decrypt_with_ad
  <1> QED
    BY <1>3, MixHash DEF st

(* Under a key it is sealed with the nonce and the hash of now.            *)
LEMMA SealKeyed ==
    ASSUME NEW s, NEW index, NEW stage, NEW h, NEW ck, NEW re, NEW rs, NEW n \in Nat
    PROVE  LET st == Handshake(s, index, stage, h, ck, Keyed(ck, n), re, rs)
               text(y) == [key |-> KeyOf(ck, 2), nonce |-> n, ad |-> h, plain |-> y]
           IN /\ \A x : Sealed(st, x) = text(x)
              /\ \A x : encrypt_and_hash(st, x) = Handshake(s, index, stage, Append(h, text(x)), ck, Keyed(ck, n + 1), re, rs)
              /\ \A t : Opened(st, t) = IF t = text(t.plain) THEN t.plain ELSE Failed
              /\ \A t : decrypt_and_hash(st, t) = Handshake(s, index, stage, Append(h, t), ck, Keyed(ck, n + 1), re, rs)
  <1> DEFINE st == Handshake(s, index, stage, h, ck, Keyed(ck, n), re, rs)
             used == Handshake(s, index, stage, h, ck, Keyed(ck, n + 1), re, rs)
             text(y) == [key |-> KeyOf(ck, 2), nonce |-> n, ad |-> h, plain |-> y]
  <1>1. st.cipher = Keyed(ck, n) /\ st.h = h
    BY HandshakeFields
  <1>2. KeyOf(ck, 2) # NoKey
    BY DEF KeyOf, NoKey
  <1>3. has_key(Keyed(ck, n)) /\ Keyed(ck, n).key = KeyOf(ck, 2) /\ Keyed(ck, n).nonce = n
    BY <1>2 DEF has_key, Keyed
  <1>4. Used(Keyed(ck, n)) = Keyed(ck, n + 1)
    BY <1>3 DEF Used, Counted, Keyed
  <1>5. [st EXCEPT !.cipher = Used(st.cipher)] = used
    BY <1>1, <1>4, HandshakeFields
  <1> HIDE DEF st, used
  <1>6. /\ \A x : Sealed(st, x) = text(x)
        /\ \A x : encrypt_and_hash(st, x) = mix_hash(used, text(x))
        /\ \A t : Opened(st, t) = IF t = text(t.plain) THEN t.plain ELSE Failed
        /\ \A t : decrypt_and_hash(st, t) = mix_hash(used, t)
    BY <1>1, <1>3, <1>5 DEF Sealed, Opened, encrypt_and_hash, decrypt_and_hash, encrypt_with_ad, decrypt_with_ad,
                            rats_chachapoly_encrypt, rats_chachapoly_decrypt
  <1> HIDE DEF text
  <1>7. \A t : mix_hash(used, t) = Handshake(s, index, stage, Append(h, t), ck, Keyed(ck, n + 1), re, rs)
    BY MixHash DEF used
  <1>8. /\ \A x : Sealed(st, x) = text(x)
        /\ \A x : encrypt_and_hash(st, x) = Handshake(s, index, stage, Append(h, text(x)), ck, Keyed(ck, n + 1), re, rs)
        /\ \A t : Opened(st, t) = IF t = text(t.plain) THEN t.plain ELSE Failed
        /\ \A t : decrypt_and_hash(st, t) = Handshake(s, index, stage, Append(h, t), ck, Keyed(ck, n + 1), re, rs)
    BY ONLY <1>6, <1>7, Zenon
  <1> QED
    BY <1>8, Zenon DEF st, text

(* Hashes and chaining keys tell apart what went into them.                *)
LEMMA GrownBy ==
    ASSUME NEW S, NEW w \in Seq(S), NEW x \in S
    PROVE  /\ Append(w, x) \in Seq(S) /\ Len(Append(w, x)) = Len(w) + 1
           /\ \A i \in 1..Len(w) : Append(w, x)[i] = w[i]
           /\ Append(w, x)[Len(w) + 1] = x
  BY AppendProperties

(* The chaining keys differ in length.                                     *)
LEMMA Chains ==
    /\ Len(ChainEe) = 1 /\ Len(ChainEs) = 2 /\ Len(ChainSe) = 3 /\ Len(ChainSplit) = 4
  <1> DEFINE S == SUBSET {"e1", "e2", "s1", "s2"}
             es == {"e1", "s2"}
             se == {"s1", "e2"}
             none == {}
  <1>0. {"e1", "e2"} \in S /\ es \in S /\ se \in S /\ none \in S
    OBVIOUS
  <1>1. ChainEe \in Seq(S) /\ Len(ChainEe) = 1
    BY <1>0 DEF ChainEe
  <1>2. ChainEs = Append(ChainEe, es) /\ ChainSe = Append(ChainEs, se) /\ ChainSplit = Append(ChainSe, none)
    BY DEF ChainEs, ChainSe, ChainSplit
  <1> HIDE DEF S, es, se, none
  <1>3. ChainEs \in Seq(S) /\ Len(ChainEs) = 2
    <2>1. Append(ChainEe, es) \in Seq(S) /\ Len(Append(ChainEe, es)) = Len(ChainEe) + 1
      BY <1>0, <1>1, GrownBy, Zenon
    <2> QED
      BY <1>1, <1>2, <2>1
  <1>4. ChainSe \in Seq(S) /\ Len(ChainSe) = 3
    BY <1>0, <1>2, <1>3, GrownBy
  <1>5. ChainSplit \in Seq(S) /\ Len(ChainSplit) = 4
    BY <1>0, <1>2, <1>4, GrownBy
  <1> QED
    BY <1>1, <1>3, <1>4, <1>5

(* Keys differ as what they are derived from; none is that of damage.      *)
LEMMA Keys ==
    /\ \A ck1, ck2, i, j : KeyOf(ck1, i) = KeyOf(ck2, j) => ck1 = ck2 /\ i = j
    /\ \A ck : KeyOf(ck, 1) # NoKey /\ KeyOf(ck, 2) # NoKey
    /\ \A ck : KeyOf(ck, 1) # Damaged.key /\ KeyOf(ck, 2) # Damaged.key
  <1>1. \A ck1, ck2, i, j : KeyOf(ck1, i) = KeyOf(ck2, j) => ck1 = ck2 /\ i = j
    BY DEF KeyOf
  <1>2. \A ck : KeyOf(ck, 1) # NoKey /\ KeyOf(ck, 2) # NoKey
    BY DEF KeyOf, NoKey
  <1>3. Damaged.key.i = 9
    BY DEF Damaged, Plain, NoKey
  <1>4. \A ck : KeyOf(ck, 1) # Damaged.key /\ KeyOf(ck, 2) # Damaged.key
    BY <1>3 DEF KeyOf
  <1> QED
    BY <1>1, <1>2, <1>4

(* Two ends with one hash have one protocol and saw one payload.           *)
LEMMA Hashes5 ==
    ASSUME NEW p, NEW q, NEW t, NEW u, Hash5(p, t) = Hash5(q, u)
    PROVE  p = q /\ t = u
  <1>1. ASSUME NEW x, NEW y PROVE Hash5(x, y)[2] = Plain(x) /\ Hash5(x, y)[4] = y
    <2> DEFINE first == Plain("Noise_XX")
               second == Plain(x)
               third == Plain("e1")
               fifth == Plain("e2")
               S == {first, second, third, y, fifth}
               three == Append(Hash2(x), third)
    <2>0. Len(Hash2(x)) = 2 
      BY DEF Hash2
    <2>1. Hash2(x) \in Seq(S) /\ Hash2(x)[2] = second
      BY DEF Hash2
    <2>2. third \in S /\ y \in S /\ fifth \in S
      OBVIOUS
    <2>3. Hash4(x, y) = Append(three, y) /\ Hash5(x, y) = Append(Hash4(x, y), fifth) /\ three = Append(Hash2(x), third)
      BY DEF Hash4, Hash5
    <2> HIDE DEF S, first, second, third, fifth, three
    <2>4. three \in Seq(S) /\ Len(three) = 3 /\ three[2] = second
      <3>1. /\ Append(Hash2(x), third) \in Seq(S) /\ Len(Append(Hash2(x), third)) = Len(Hash2(x)) + 1
            /\ \A i \in 1..Len(Hash2(x)) : Append(Hash2(x), third)[i] = Hash2(x)[i]
        BY <2>1, <2>2, GrownBy
      <3>2. 2 \in 1..Len(Hash2(x)) /\ Len(Hash2(x)) + 1 = 3
        BY ONLY <2>0
      <3> QED
        BY <2>0, <2>1, <2>3, <3>1, <3>2, Zenon
    <2>5. Hash4(x, y) \in Seq(S) /\ Len(Hash4(x, y)) = 4 /\ Hash4(x, y)[2] = second /\ Hash4(x, y)[4] = y
      BY <2>2, <2>3, <2>4, GrownBy
    <2>6. Hash5(x, y)[2] = second /\ Hash5(x, y)[4] = y
      BY <2>2, <2>3, <2>5, GrownBy
    <2> QED
      BY <2>6 DEF second
  <1>2. Plain(p) = Plain(q) /\ t = u
    BY <1>1
  <1> QED
    BY <1>2 DEF Plain

(* Short sequences.                                                        *)
LEMMA Alone == ASSUME NEW a PROVE Append(<<>>, a) = <<a>>
  OBVIOUS

LEMMA Joined ==
    ASSUME NEW a, NEW b, NEW c
    PROVE  Append(<<a>>, b) = <<a, b>> /\ Append(<<a, b>>, c) = <<a, b, c>>
  <1>1. Append(<<a>>, b) = [i \in 1..2 |-> IF i = 2 THEN b ELSE <<a>>[i]]
    OBVIOUS
  <1>2. <<a, b>> = [i \in 1..2 |-> IF i = 2 THEN b ELSE <<a>>[i]]
    OBVIOUS
  <1>3. Append(<<a, b>>, c) = [i \in 1..3 |-> IF i = 3 THEN c ELSE <<a, b>>[i]]
    OBVIOUS
  <1>4. <<a, b, c>> = [i \in 1..3 |-> IF i = 3 THEN c ELSE <<a, b>>[i]]
    OBVIOUS
  <1> QED
    BY <1>1, <1>2, <1>3, <1>4, Zenon

(* The messages, written and read.                                         *)
LEMMA WriteGreeting ==
    ASSUME NEW p
    PROVE  /\ write_message(Begun("initiator", p)).st = Greeted(p)
           /\ write_message(Begun("initiator", p)).message = <<Plain("e1"), NoPayload>>
  <1> DEFINE st == Begun("initiator", p)
             said == Handshake("initiator", 0, "open", Append(Hash2(p), Plain("e1")), <<>>, Cipher(NoKey), Nothing, Nothing)
             done == Handshake("initiator", 0, "open", Hash4(p, NoPayload), <<>>, Cipher(NoKey), Nothing, Nothing)
  <1>1. st.initiator /\ st.index = 0 /\ st.e = "e1"
    BY DEF Handshake, Begun, EphemeralOf
  <1>2. write_e(st) = said
    BY <1>1, MixHash DEF write_e, Begun
  <1>3. encrypt_and_hash(said, Nothing) = done /\ Sealed(said, Nothing) = NoPayload
    BY SealClear DEF Hash4, NoPayload
  <1>4. [done EXCEPT !.index = done.index + 1] = Greeted(p)
    <2>1. done.index + 1 = 1
      BY DEF Handshake
    <2>2. [done EXCEPT !.index = 1] = Greeted(p)
      BY HandshakeFields DEF Greeted
    <2> QED
      BY <2>1, <2>2
  <1> HIDE DEF st, said, done
  <1>5. Tokens(st) = [st |-> said, texts |-> <<Plain("e1")>>]
    BY <1>1, <1>2 DEF Tokens
  <1>6. write_message(st).st = [done EXCEPT !.index = done.index + 1]
    BY <1>3, <1>5 DEF write_message
  <1>7. write_message(st).message = Append(<<Plain("e1")>>, NoPayload)
    BY <1>3, <1>5 DEF write_message
  <1> QED
    BY <1>4, <1>6, <1>7, Joined DEF st

Heard(q, t) == Handshake("responder", 1, "open", Hash4(q, t), <<>>, Cipher(NoKey), "e1", Nothing)

(* It is read, damaged or not.                                             *)
LEMMA ReadGreeting ==
    ASSUME NEW q, NEW t \in Payloads
    PROVE  /\ read_message(Begun("responder", q), <<Plain("e1"), t>>).ok
           /\ read_message(Begun("responder", q), <<Plain("e1"), t>>).st = Heard(q, t)
  <1> DEFINE st == Begun("responder", q)
             m == <<Plain("e1"), t>>
             heard == Handshake("responder", 0, "open", Append(Hash2(q), Plain("e1")), <<>>, Cipher(NoKey), "e1", Nothing)
             done == Handshake("responder", 0, "open", Hash4(q, t), <<>>, Cipher(NoKey), "e1", Nothing)
  <1>1. ~st.initiator /\ st.index = 0
    BY DEF Handshake, Begun
  <1>2. m[1] = Plain("e1") /\ m[2] = t /\ Len(m) = 2 /\ Plain("e1").plain = "e1"
    BY DEF Plain
  <1>3. t.plain # Failed
    <2>1. Damaged.plain = "damaged" /\ NoPayload.plain = "nothing"
      BY DEF NoPayload, Damaged, Plain, Nothing
    <2> QED
      BY <2>1 DEF Payloads, Failed
  <1>4. [st EXCEPT !.re = "e1"] = Handshake("responder", 0, "open", Hash2(q), <<>>, Cipher(NoKey), "e1", Nothing)
    BY HandshakeFields DEF Begun
  <1>5. read_e(st, m[1]) = heard
    BY <1>2, <1>4, MixHash DEF read_e
  <1>6. heard.rs # Failed
    BY DEF Handshake, Failed, Nothing
  <1>7. Opened(heard, t) = t.plain /\ decrypt_and_hash(heard, t) = done
    BY SealClear DEF Hash4
  <1>8. [done EXCEPT !.index = done.index + 1] = Heard(q, t)
    <2>1. done.index + 1 = 1
      BY DEF Handshake
    <2>2. [done EXCEPT !.index = 1] = Heard(q, t)
      BY HandshakeFields DEF Heard
    <2> QED
      BY <2>1, <2>2
  <1> HIDE DEF st, m, heard, done
  <1>9. Expected(st) = 2 /\ ReadTokens(st, m) = heard
    BY <1>1, <1>5 DEF Expected, ReadTokens
  <1>10. read_message(st, m).ok /\ read_message(st, m).st = [done EXCEPT !.index = done.index + 1]
    BY <1>2, <1>3, <1>6, <1>7, <1>9 DEF read_message
  <1> QED
    BY <1>8, <1>10 DEF st, m

(* The second, written.                                                    *)
LEMMA WriteAnswer ==
    ASSUME NEW q, NEW t
    PROVE  /\ write_message(Heard(q, t)).st = Answered(q, t)
           /\ write_message(Heard(q, t)).message = <<Plain("e2"), Static2(q, t), Payload2(q, t)>>
  <1> DEFINE st == Heard(q, t)
             e == Handshake("responder", 1, "open", Hash5(q, t), <<>>, Cipher(NoKey), "e1", Nothing)
             ee == Handshake("responder", 1, "open", Hash5(q, t), ChainEe, Keyed(ChainEe, 0), "e1", Nothing)
             s == Handshake("responder", 1, "open", Hash6(q, t), ChainEe, Keyed(ChainEe, 1), "e1", Nothing)
             es == Handshake("responder", 1, "open", Hash6(q, t), ChainEs, Keyed(ChainEs, 0), "e1", Nothing)
             done == Handshake("responder", 1, "open", Hash7(q, t), ChainEs, Keyed(ChainEs, 1), "e1", Nothing)
  <1>1. ~st.initiator /\ st.index = 1 /\ st.e = "e2" /\ st.re = "e1" /\ st.s = "s2" /\ ee.s = "s2"
    BY DEF Handshake, Heard, EphemeralOf, StaticOf
  <1>2. write_e(st) = e
    BY <1>1, MixHash DEF write_e, Heard, Hash5
  <1>3. Append(<<>>, {"e2", "e1"}) = ChainEe /\ Append(ChainEe, {"s2", "e1"}) = ChainEs
    <2>1. {"e2", "e1"} = {"e1", "e2"} /\ {"s2", "e1"} = {"e1", "s2"}
      OBVIOUS
    <2>2. Append(<<>>, {"e1", "e2"}) = ChainEe
      BY Alone DEF ChainEe
    <2> QED
      BY <2>1, <2>2 DEF ChainEs
  <1>4. mix_dh(e, "e2", "e1") = ee
    <2> DEFINE nil == <<>>
    <2>1. Append(nil, {"e2", "e1"}) = ChainEe /\ e = Handshake("responder", 1, "open", Hash5(q, t), nil, Cipher(NoKey), "e1", Nothing)
      BY <1>3
    <2> HIDE DEF nil, e
    <2> QED
      BY <2>1, MixKey
  <1>5. Sealed(ee, "s2") = Static2(q, t) /\ encrypt_and_hash(ee, "s2") = s
    <2>1. Sealed(ee, "s2") = Static2(q, t)
      BY SealKeyed DEF Static2
    <2>2. encrypt_and_hash(ee, "s2") = Handshake("responder", 1, "open", Hash6(q, t), ChainEe, Keyed(ChainEe, 0 + 1), "e1", Nothing)
      BY SealKeyed DEF Static2, Hash6
    <2> QED
      BY <2>1, <2>2
  <1>6. mix_dh(s, "s2", "e1") = es
    BY <1>3, MixKey
  <1>7. Sealed(es, Nothing) = Payload2(q, t) /\ encrypt_and_hash(es, Nothing) = done
    <2>1. Sealed(es, Nothing) = Payload2(q, t)
      BY SealKeyed DEF Payload2
    <2>2. encrypt_and_hash(es, Nothing) = Handshake("responder", 1, "open", Hash7(q, t), ChainEs, Keyed(ChainEs, 0 + 1), "e1", Nothing)
      BY SealKeyed DEF Payload2, Hash7
    <2> QED
      BY <2>1, <2>2
  <1>8. [done EXCEPT !.index = done.index + 1] = Answered(q, t)
    <2>1. done.index + 1 = 2
      BY DEF Handshake
    <2>2. [done EXCEPT !.index = 2] = Answered(q, t)
      BY HandshakeFields DEF Answered
    <2> QED
      BY <2>1, <2>2
  <1> HIDE DEF st, e, ee, s, es, done
  <1>9. write_s(ee) = s
    BY <1>1, <1>5 DEF write_s
  <1>10. Tokens(st) = [st |-> es, texts |-> <<Plain("e2"), Static2(q, t)>>]
    BY <1>1, <1>2, <1>4, <1>5, <1>6, <1>9 DEF Tokens
  <1>11. write_message(st).st = [done EXCEPT !.index = done.index + 1]
    BY <1>7, <1>10 DEF write_message
  <1>12. write_message(st).message = Append(<<Plain("e2"), Static2(q, t)>>, Payload2(q, t))
    BY <1>7, <1>10 DEF write_message
  <1> QED
    BY <1>8, <1>11, <1>12, Joined DEF st

Known(p) == Handshake("initiator", 2, "open", Hash7(p, NoPayload), ChainEs, Keyed(ChainEs, 1), "e2", "s2")

(* A text opens under the key, the nonce and the data it was sealed with.  *)
LEMMA OpensOnlyIf ==
    ASSUME NEW s, NEW index, NEW stage, NEW h, NEW ck, NEW re, NEW rs, NEW n \in Nat, NEW t
    PROVE  LET st == Handshake(s, index, stage, h, ck, Keyed(ck, n), re, rs)
           IN /\ t = [key |-> KeyOf(ck, 2), nonce |-> n, ad |-> h, plain |-> t.plain] => Opened(st, t) = t.plain
              /\ (t.key # KeyOf(ck, 2) \/ t.nonce # n \/ t.ad # h) => Opened(st, t) = Failed
  <1> DEFINE st == Handshake(s, index, stage, h, ck, Keyed(ck, n), re, rs)
             same == [key |-> KeyOf(ck, 2), nonce |-> n, ad |-> h, plain |-> t.plain]
  <1>1. Opened(st, t) = IF t = same THEN t.plain ELSE Failed
    BY SealKeyed
  <1>2. same.key = KeyOf(ck, 2) /\ same.nonce = n /\ same.ad = h
    OBVIOUS
  <1> HIDE DEF st, same
  <1>3. (t = same => Opened(st, t) = t.plain) /\ ((t.key # KeyOf(ck, 2) \/ t.nonce # n \/ t.ad # h) => Opened(st, t) = Failed)
    BY <1>1, <1>2
  <1> QED
    BY <1>3 DEF st, same

Answer(q, t, x) == <<Plain("e2"), Static2(q, t), x>>

(* The initiator takes an answer to what it sent, of its own protocol.     *)
LEMMA ReadAnswer ==
    ASSUME NEW p, NEW q, NEW t \in Payloads, NEW x, x = Payload2(q, t) \/ x = Damaged
    PROVE  /\ read_message(Greeted(p), Answer(q, t, x)).ok =>
                 p = q /\ t = NoPayload /\ x = Payload2(q, t) /\ read_message(Greeted(p), Answer(q, t, x)).st = Known(p)
           /\ p = q /\ t = NoPayload /\ x = Payload2(q, t) => read_message(Greeted(p), Answer(q, t, x)).ok
  <1> DEFINE st == Greeted(p)
             m == Answer(q, t, x)
             e == Handshake("initiator", 1, "open", Hash5(p, NoPayload), <<>>, Cipher(NoKey), "e2", Nothing)
             ee == Handshake("initiator", 1, "open", Hash5(p, NoPayload), ChainEe, Keyed(ChainEe, 0), "e2", Nothing)
             o == Opened(ee, Static2(q, t))
             hash == Append(Hash5(p, NoPayload), Static2(q, t))
             s == Handshake("initiator", 1, "open", hash, ChainEe, Keyed(ChainEe, 1), "e2", o)
             chain == Append(ChainEe, {"e1", o})
             r == read_message(st, m)
             es == Handshake("initiator", 1, "open", hash, chain, Keyed(chain, 0), "e2", o)
  <1>1. st.initiator /\ st.index = 1
    BY DEF Handshake, Greeted
  <1>2. m[1] = Plain("e2") /\ m[2] = Static2(q, t) /\ m[3] = x /\ Len(m) = 3 /\ Plain("e2").plain = "e2"
    BY DEF Plain, Answer
  <1>3. read_e(st, m[1]) = e
    <2>1. [st EXCEPT !.re = "e2"] = Handshake("initiator", 1, "open", Hash4(p, NoPayload), <<>>, Cipher(NoKey), "e2", Nothing)
      BY HandshakeFields DEF Greeted
    <2> QED
      BY <1>2, <2>1, MixHash DEF read_e, Hash5
  <1>4. mix_dh(e, "e1", "e2") = ee
    <2> DEFINE nil == <<>>
    <2>1. Append(nil, {"e1", "e2"}) = ChainEe /\ e = Handshake("initiator", 1, "open", Hash5(p, NoPayload), nil, Cipher(NoKey), "e2", Nothing)
      BY Alone DEF ChainEe
    <2> HIDE DEF nil, e
    <2> QED
      BY <2>1, MixKey
  <1>5. e.e = "e1" /\ e.re = "e2" /\ s.e = "e1" /\ s.rs = o /\ es.rs = o
    BY DEF Handshake, EphemeralOf
  <1>6. read_s(ee, m[2]) = s
    <2> DEFINE had == Handshake("initiator", 1, "open", Hash5(p, NoPayload), ChainEe, Keyed(ChainEe, 0), "e2", o)
    <2>1. [ee EXCEPT !.rs = o] = had
      <3> HIDE DEF o
      <3> QED
        BY HandshakeFields
    <2>2. decrypt_and_hash(had, Static2(q, t)) = Handshake("initiator", 1, "open", hash, ChainEe, Keyed(ChainEe, 0 + 1), "e2", o)
      <3> HIDE DEF o
      <3> QED
        BY SealKeyed
    <2>3. read_s(ee, m[2]) = decrypt_and_hash(had, Static2(q, t))
      BY <1>2, <2>1 DEF read_s
    <2> QED
      BY <2>2, <2>3
  <1>7. mix_dh(s, "e1", o) = es
    <2> HIDE DEF o, hash
    <2>1. Append(ChainEe, {"e1", o}) = chain
      OBVIOUS
    <2> HIDE DEF chain
    <2>2. \A c : Append(ChainEe, {"e1", o}) = c => mix_dh(s, "e1", o) = Handshake("initiator", 1, "open", hash, c, Keyed(c, 0), "e2", o)
      BY MixKey
    <2> QED
      BY <2>1, <2>2
  <1> HIDE DEF st, m, e, ee, o, hash, s, chain, es, r
  <1>8. Expected(st) = 3 /\ ReadTokens(st, m) = es
    BY <1>1, <1>3, <1>4, <1>5, <1>6, <1>7 DEF Expected, ReadTokens
  <1>9. /\ r.ok <=> o # Failed /\ Opened(es, x) # Failed
        /\ r.st = [decrypt_and_hash(es, x) EXCEPT !.index = @ + 1]
    BY <1>2, <1>5, <1>8 DEF read_message, r
  <1>10. CASE ~(p = q /\ t = NoPayload)
    <2>1. Static2(q, t).ad # Hash5(p, NoPayload)
      BY <1>10, Hashes5 DEF Static2
    <2>2. o = Failed
      BY <2>1, OpensOnlyIf DEF o, ee
    <2> QED
      BY <1>9, <1>10, <2>2 DEF r, st, m
  <1>11. CASE p = q /\ t = NoPayload
    <2> DEFINE done == Handshake("initiator", 1, "open", Hash7(p, NoPayload), ChainEs, Keyed(ChainEs, 1), "e2", "s2")
               heard == Handshake("initiator", 1, "open", Hash6(p, NoPayload), ChainEs, Keyed(ChainEs, 0), "e2", "s2")
    <2>1. o = "s2"
      <3>1. Static2(q, t) = [key |-> KeyOf(ChainEe, 2), nonce |-> 0, ad |-> Hash5(p, NoPayload), plain |-> "s2"] /\ Static2(q, t).plain = "s2"
        BY <1>11 DEF Static2
      <3> QED
        BY <3>1, OpensOnlyIf DEF o, ee
    <2>2. hash = Hash6(p, NoPayload) /\ chain = ChainEs
      BY <1>11, <2>1, Zenon DEF hash, chain, Hash6, ChainEs
    <2>3. es = heard
      BY <2>1, <2>2 DEF es
    <2>4. CASE x = Payload2(q, t)
      <3>1. x = [key |-> KeyOf(ChainEs, 2), nonce |-> 0, ad |-> Hash6(p, NoPayload), plain |-> Nothing] /\ x.plain = Nothing
        BY <1>11, <2>4 DEF Payload2
      <3>2. Opened(heard, x) = Nothing
        BY <3>1, OpensOnlyIf
      <3>3. decrypt_and_hash(heard, x) = Handshake("initiator", 1, "open", Hash7(p, NoPayload), ChainEs, Keyed(ChainEs, 0 + 1), "e2", "s2")
        BY <1>11, <2>4, SealKeyed DEF Hash7
      <3>4. done.index + 1 = 2
        BY DEF Handshake
      <3>5. [done EXCEPT !.index = 2] = Known(p)
        BY HandshakeFields DEF Known
      <3> HIDE DEF done, heard
      <3>6. decrypt_and_hash(heard, x) = done
        BY <3>3 DEF done
      <3>7. r.ok /\ r.st = Known(p)
        BY <1>9, <2>1, <2>3, <3>2, <3>4, <3>5, <3>6 DEF Failed, Nothing
      <3> QED
        BY <1>11, <2>4, <3>7 DEF r, st, m
    <2>5. CASE x = Damaged
      <3>1. x.key # KeyOf(ChainEs, 2) /\ Payload2(q, t).key = KeyOf(ChainEs, 2)
        BY <2>5, Keys DEF Payload2
      <3>2. Opened(heard, x) = Failed
        BY <3>1, OpensOnlyIf
      <3> QED
        BY <1>9, <2>3, <3>1, <3>2 DEF r, st, m
    <2> QED
      BY <2>4, <2>5
  <1> QED
    BY <1>10, <1>11

(* The third, written.                                                     *)
LEMMA WriteConfirmation ==
    ASSUME NEW p
    PROVE  /\ write_message(Known(p)).st = Finished("initiator", p)
           /\ write_message(Known(p)).message = <<Static1(p), Payload3(p)>>
  <1> DEFINE st == Known(p)
             s == Handshake("initiator", 2, "open", Hash8(p), ChainEs, Keyed(ChainEs, 2), "e2", "s2")
             se == Handshake("initiator", 2, "open", Hash8(p), ChainSe, Keyed(ChainSe, 0), "e2", "s2")
             whole == Handshake("initiator", 2, "complete", Hash8(p), ChainSe, Keyed(ChainSe, 0), "e2", "s2")
             done == Handshake("initiator", 2, "complete", Hash9(p), ChainSe, Keyed(ChainSe, 1), "e2", "s2")
  <1>1. st.initiator /\ st.index = 2 /\ st.s = "s1" /\ st.re = "e2"
    BY DEF Handshake, Known, StaticOf
  <1>2. Sealed(st, "s1") = Static1(p)
    BY SealKeyed DEF Known, Static1
  <1>3. encrypt_and_hash(st, "s1") = s
    <2>1. encrypt_and_hash(st, "s1") = Handshake("initiator", 2, "open", Hash8(p), ChainEs, Keyed(ChainEs, 1 + 1), "e2", "s2")
      BY SealKeyed DEF Known, Static1, Hash8
    <2> QED
      BY <2>1
  <1>4. mix_dh(s, "s1", "e2") = se
    <2>1. Append(ChainEs, {"s1", "e2"}) = ChainSe
      BY DEF ChainSe
    <2> QED
      BY <2>1, MixKey
  <1>5. [se EXCEPT !.complete = TRUE] = whole
    BY Completed
  <1>6. Sealed(whole, Nothing) = Payload3(p)
    BY SealKeyed DEF Payload3
  <1>7. encrypt_and_hash(whole, Nothing) = done
    <2>1. encrypt_and_hash(whole, Nothing) = Handshake("initiator", 2, "complete", Hash9(p), ChainSe, Keyed(ChainSe, 0 + 1), "e2", "s2")
      BY SealKeyed DEF Payload3, Hash9
    <2> QED
      BY <2>1
  <1>8. [done EXCEPT !.index = done.index + 1] = Finished("initiator", p)
    <2>1. done.index + 1 = 3
      BY DEF Handshake
    <2>2. EphemeralOf(Peer("initiator")) = "e2" /\ StaticOf(Peer("initiator")) = "s2"
      BY DEF EphemeralOf, StaticOf, Peer
    <2>3. [done EXCEPT !.index = 3] = Finished("initiator", p)
      BY <2>2, HandshakeFields DEF Finished
    <2> QED
      BY <2>1, <2>3
  <1> HIDE DEF st, s, se, whole, done
  <1>9. write_s(st) = s
    BY <1>1, <1>3 DEF write_s
  <1>10. Tokens(st) = [st |-> whole, texts |-> <<Static1(p)>>]
    <2>1. mix_dh(write_s(st), st.s, st.re) = se /\ Sealed(st, st.s) = Static1(p)
      BY <1>1, <1>2, <1>4, <1>9
    <2>2. ~(st.initiator /\ st.index = 0)
      BY <1>1
    <2>3. Tokens(st) = [st |-> [mix_dh(write_s(st), st.s, st.re) EXCEPT !.complete = TRUE], texts |-> <<Sealed(st, st.s)>>]
      BY <1>1, <2>2, Zenon DEF Tokens
    <2> QED
      BY <1>5, <2>1, <2>3, Zenon
  <1>11. write_message(st).st = [done EXCEPT !.index = done.index + 1]
    BY <1>7, <1>10 DEF write_message
  <1>12. write_message(st).message = Append(<<Static1(p)>>, Payload3(p))
    BY <1>6, <1>10 DEF write_message
  <1> QED
    BY <1>8, <1>11, <1>12, Joined DEF st

(* What the responder makes of the third message: text and payload.        *)
LEMMA ReadThird ==
    ASSUME NEW q, NEW t, NEW y, NEW x
    PROVE  LET r == read_message(Answered(q, t), <<y, x>>)
               o == Opened(Answered(q, t), y)
               hash == Append(Hash7(q, t), y)
               chain == Append(ChainEs, {"e2", o})
               whole == Handshake("responder", 2, "complete", hash, chain, Keyed(chain, 0), "e1", o)
           IN /\ r.ok <=> o # Failed /\ Opened(whole, x) # Failed
              /\ r.st = [decrypt_and_hash(whole, x) EXCEPT !.index = @ + 1]
  <1> DEFINE st == Answered(q, t)
             m == <<y, x>>
             o == Opened(st, y)
             hash == Append(Hash7(q, t), y)
             s == Handshake("responder", 2, "open", hash, ChainEs, Keyed(ChainEs, 2), "e1", o)
             chain == Append(ChainEs, {"e2", o})
             se == Handshake("responder", 2, "open", hash, chain, Keyed(chain, 0), "e1", o)
             whole == Handshake("responder", 2, "complete", hash, chain, Keyed(chain, 0), "e1", o)
             r == read_message(st, m)
  <1>1. ~st.initiator /\ st.index = 2
    BY DEF Handshake, Answered
  <1>2. m[1] = y /\ m[2] = x /\ Len(m) = 2
    OBVIOUS
  <1>3. read_s(st, y) = s
    <2> DEFINE had == Handshake("responder", 2, "open", Hash7(q, t), ChainEs, Keyed(ChainEs, 1), "e1", o)
    <2>1. [st EXCEPT !.rs = o] = had
      <3> HIDE DEF o
      <3> QED
        BY HandshakeFields DEF Answered
    <2>2. decrypt_and_hash(had, y) = Handshake("responder", 2, "open", hash, ChainEs, Keyed(ChainEs, 1 + 1), "e1", o)
      <3> HIDE DEF o
      <3> QED
        BY SealKeyed
    <2>3. read_s(st, y) = decrypt_and_hash(had, y)
      BY <2>1 DEF read_s
    <2> QED
      BY <2>2, <2>3
  <1>4. s.e = "e2" /\ s.rs = o /\ whole.rs = o
    BY DEF Handshake, EphemeralOf
  <1>5. mix_dh(s, "e2", o) = se
    <2> HIDE DEF o, hash
    <2>1. Append(ChainEs, {"e2", o}) = chain
      OBVIOUS
    <2> HIDE DEF chain
    <2>2. \A c : Append(ChainEs, {"e2", o}) = c => mix_dh(s, "e2", o) = Handshake("responder", 2, "open", hash, c, Keyed(c, 0), "e1", o)
      BY MixKey
    <2> QED
      BY <2>1, <2>2
  <1>6. [se EXCEPT !.complete = TRUE] = whole
    <2> HIDE DEF o, hash, chain
    <2> QED
      BY Completed
  <1> HIDE DEF st, m, o, hash, s, chain, se, whole, r
  <1>7. Expected(st) = 2 /\ ReadTokens(st, m) = whole
    <2>1. Se(read_s(st, m[1])) = se
      BY <1>2, <1>3, <1>4, <1>5 DEF Se
    <2>2. ~(st.initiator /\ st.index = 1) /\ ~(~st.initiator /\ st.index = 0)
      BY <1>1
    <2>3. ReadTokens(st, m) = [Se(read_s(st, m[1])) EXCEPT !.complete = TRUE]
      BY <1>1, <2>2, Zenon DEF ReadTokens
    <2>4. Expected(st) = 2
      BY <1>1 DEF Expected
    <2> QED
      BY <1>6, <2>1, <2>3, <2>4, Zenon
  <1>8. /\ r.ok <=> o # Failed /\ Opened(whole, x) # Failed
        /\ r.st = [decrypt_and_hash(whole, x) EXCEPT !.index = @ + 1]
    BY <1>2, <1>4, <1>7 DEF read_message, r
  <1> QED
    BY <1>8 DEF st, m, o, hash, chain, whole, r

(* The responder completes on the confirmation as it was written.          *)
LEMMA ReadConfirmation ==
    ASSUME NEW p, NEW x \in {Payload3(p), Damaged}
    PROVE  LET r == read_message(Answered(p, NoPayload), <<Static1(p), x>>)
           IN /\ r.ok <=> x = Payload3(p)
              /\ r.ok => r.st = Finished("responder", p)
  <1> DEFINE r == read_message(Answered(p, NoPayload), <<Static1(p), x>>)
             heard == Handshake("responder", 2, "complete", Hash8(p), ChainSe, Keyed(ChainSe, 0), "e1", "s1")
             done == Handshake("responder", 2, "complete", Hash9(p), ChainSe, Keyed(ChainSe, 1), "e1", "s1")
             o == Opened(Answered(p, NoPayload), Static1(p))
             chain == Append(ChainEs, {"e2", o})
  <1>1. o = "s1"
    <2>1. Static1(p) = [key |-> KeyOf(ChainEs, 2), nonce |-> 1, ad |-> Hash7(p, NoPayload), plain |-> "s1"] /\ Static1(p).plain = "s1"
      BY DEF Static1
    <2> QED
      BY <2>1, OpensOnlyIf DEF Answered
  <1>2. Append(Hash7(p, NoPayload), Static1(p)) = Hash8(p)
    BY DEF Hash8
  <1>3. chain = ChainSe
    <2>1. {"e2", "s1"} = {"s1", "e2"}
      OBVIOUS
    <2> QED
      BY <1>1, <2>1, Zenon DEF ChainSe
  <1> HIDE DEF o, chain
  <1>4. /\ r.ok <=> Opened(heard, x) # Failed
        /\ r.st = [decrypt_and_hash(heard, x) EXCEPT !.index = @ + 1]
    <2>1. Handshake("responder", 2, "complete", Append(Hash7(p, NoPayload), Static1(p)), chain, Keyed(chain, 0), "e1", o) = heard
      BY <1>1, <1>2, <1>3
    <2>2. "s1" # Failed
      BY DEF Failed
    <2> HIDE DEF heard
    <2>3. /\ r.ok <=> o # Failed /\ Opened(heard, x) # Failed
          /\ r.st = [decrypt_and_hash(heard, x) EXCEPT !.index = @ + 1]
      BY <2>1, ReadThird DEF o, chain
    <2> QED
      BY <1>1, <2>2, <2>3
  <1>5. CASE x = Payload3(p)
    <2>1. x = [key |-> KeyOf(ChainSe, 2), nonce |-> 0, ad |-> Hash8(p), plain |-> Nothing] /\ x.plain = Nothing
      BY <1>5 DEF Payload3
    <2>2. Opened(heard, x) = Nothing
      BY <2>1, OpensOnlyIf
    <2>3. decrypt_and_hash(heard, x) = Handshake("responder", 2, "complete", Hash9(p), ChainSe, Keyed(ChainSe, 0 + 1), "e1", "s1")
      BY <1>5, SealKeyed DEF Hash9
    <2>4. done.index + 1 = 3
      BY DEF Handshake
    <2>5. EphemeralOf(Peer("responder")) = "e1" /\ StaticOf(Peer("responder")) = "s1"
      BY DEF EphemeralOf, StaticOf, Peer
    <2>6. [done EXCEPT !.index = 3] = Finished("responder", p)
      BY <2>5, HandshakeFields DEF Finished
    <2> HIDE DEF done, heard, r
    <2>7. decrypt_and_hash(heard, x) = done
      BY <2>3 DEF done
    <2>8. r.ok /\ r.st = Finished("responder", p)
      BY <1>4, <2>2, <2>4, <2>6, <2>7 DEF Failed, Nothing
    <2> QED
      BY <1>5, <2>8 DEF r
  <1>6. CASE x = Damaged
    <2>1. x.key # KeyOf(ChainSe, 2) /\ Payload3(p).key = KeyOf(ChainSe, 2)
      BY <1>6, Keys DEF Payload3
    <2>2. Opened(heard, x) = Failed
      BY <2>1, OpensOnlyIf
    <2> HIDE DEF r, heard
    <2>3. ~r.ok /\ x # Payload3(p)
      BY <1>4, <2>1, <2>2
    <2> QED
      BY <2>3 DEF r
  <1> QED
    BY <1>5, <1>6

(* A first message repeated, or data of the session: refused.              *)
LEMMA Misread ==
    ASSUME NEW q, NEW t, NEW m \in Greetings
    PROVE  ~read_message(Answered(q, t), m).ok
  <1>1. PICK x \in Payloads : m = <<Plain("e1"), x>>
    BY DEF Greetings
  <1>2. Plain("e1").key # KeyOf(ChainEs, 2)
    BY Keys DEF Plain
  <1>3. Opened(Answered(q, t), Plain("e1")) = Failed
    BY <1>2, OpensOnlyIf DEF Answered
  <1> QED
    BY <1>1, <1>3, ReadThird

LEMMA TooEarly ==
    ASSUME NEW q, NEW t, NEW x
    PROVE  ~read_message(Answered(q, t), <<x>>).ok
  <1>1. Len(<<x>>) = 1
    OBVIOUS
  <1>2. Expected(Answered(q, t)) = 2
    BY DEF Expected, Answered, Handshake
  <1> QED
    BY <1>1, <1>2 DEF read_message

(* The two ends.                                                           *)
LEMMA SidesFacts == Sides = {"initiator", "responder"} /\ Peer("initiator") = "responder" /\ Peer("responder") = "initiator"
  BY DEF Sides, Peer

(* Frames under way: one added, one taken.                                 *)
LEMMA PendingFacts ==
    ASSUME NEW T, NEW a \in Nat, NEW b \in Nat, a <= b
    PROVE  /\ Append(Pending(T, a, b), T[b]) = Pending(T, a, b + 1)
           /\ a < b => Pending(T, a, b) # <<>> /\ Head(Pending(T, a, b)) = T[a] /\ Tail(Pending(T, a, b)) = Pending(T, a + 1, b)
           /\ Pending(T, a, a) = <<>>
  <1>1. Append(Pending(T, a, b), T[b]) = Pending(T, a, b + 1)
    BY DEF Pending
  <1>2. Pending(T, a, a) = <<>>
    BY DEF Pending
  <1>3. ASSUME a < b PROVE Pending(T, a, b) # <<>> /\ Head(Pending(T, a, b)) = T[a]
    BY <1>3 DEF Pending
  <1>4. ASSUME a < b PROVE Tail(Pending(T, a, b)) = Pending(T, a + 1, b)
    <2> DEFINE n == b - a - 1
    <2>1. n \in Nat /\ b - a = n + 1 /\ b - (a + 1) = n /\ \A i \in Nat : a + (i + 1) - 1 = (a + 1) + i - 1
      BY <1>4
    <2> HIDE DEF n
    <2>2. Tail([i \in 1..(n + 1) |-> T[a + i - 1]]) = [i \in 1..n |-> T[a + (i + 1) - 1]]
      BY <2>1
    <2>3. Pending(T, a, b) = [i \in 1..(n + 1) |-> T[a + i - 1]] /\ Pending(T, a + 1, b) = [i \in 1..n |-> T[(a + 1) + i - 1]]
      BY <2>1 DEF Pending
    <2>4. [i \in 1..n |-> T[a + (i + 1) - 1]] = [i \in 1..n |-> T[(a + 1) + i - 1]]
      BY <2>1
    <2> QED
      BY <2>2, <2>3, <2>4
  <1> QED
    BY <1>1, <1>2, <1>3, <1>4

(* The same behind a handshake message.                                    *)
LEMMA QueueFacts ==
    ASSUME NEW f, NEW T, NEW n \in Nat
    PROVE  /\ Append(Queue(f, T, n), T[n]) = Queue(f, T, n + 1)
           /\ Queue(f, T, n) # <<>> /\ Head(Queue(f, T, n)) = f /\ Tail(Queue(f, T, n)) = Pending(T, 0, n)
           /\ Queue(f, T, 0) = <<f>>
  <1>1. Append(Queue(f, T, n), T[n]) = Queue(f, T, n + 1)
    BY DEF Queue
  <1>2. Queue(f, T, n) # <<>> /\ Head(Queue(f, T, n)) = f
    BY DEF Queue
  <1>3. Tail(Queue(f, T, n)) = Pending(T, 0, n)
    BY DEF Queue, Pending
  <1>4. Queue(f, T, 0) = <<f>>
    BY DEF Queue
  <1> QED
    BY <1>1, <1>2, <1>3, <1>4

(* The data read, and the next.                                            *)
LEMMA DataPrefix ==
    ASSUME NEW k \in Nat, k < Len(Data)
    PROVE  /\ Append(SubSeq(Data, 1, k), Data[k + 1]) = SubSeq(Data, 1, k + 1)
           /\ Len(SubSeq(Data, 1, k)) = k /\ Len(SubSeq(Data, 1, k + 1)) = k + 1
           /\ Data[k + 1] # Failed
  <1> DEFINE S == {Data[i] : i \in 1..Len(Data)} \ {Failed}
  <1>1. Data \in Seq(S)
    BY NoiseAssumption
  <1>2. ASSUME NEW i \in 1..Len(Data) PROVE Data[i] \in S
    BY <1>1, ElementOfSeq, Zenon
  <1>3. Data[k + 1] # Failed /\ Len(Data) \in Nat
    BY <1>1, <1>2
  <1> HIDE DEF S
  <1>4. Len(SubSeq(Data, 1, k)) = k /\ Len(SubSeq(Data, 1, k + 1)) = k + 1
    BY <1>1
  <1>5. Append(SubSeq(Data, 1, k), Data[k + 1]) = SubSeq(Data, 1, k + 1)
    BY <1>1
  <1> QED
    BY <1>3, <1>4, <1>5

(* What mishaps leave of the frames under way.                             *)
LEMMA MishapFacts ==
    ASSUME NEW F, NEW w \in Seq(F), w # <<>>, \A m \in F : [m EXCEPT ![Len(m)] = Damaged] \in F
    PROVE  /\ <<[Head(w) EXCEPT ![Len(Head(w))] = Damaged]>> \o Tail(w) \in Seq(F)
           /\ Tail(w) \in Seq(F) /\ <<Head(w)>> \o w \in Seq(F) /\ Head(w) \in F
  <1>1. Head(w) \in F /\ Tail(w) \in Seq(F)
    OBVIOUS
  <1> DEFINE d == [Head(w) EXCEPT ![Len(Head(w))] = Damaged]
  <1>2. d \in F
    BY <1>1
  <1> HIDE DEF d
  <1>3. <<d>> \in Seq(F) /\ <<Head(w)>> \in Seq(F)
    BY <1>1, <1>2
  <1>4. <<d>> \o Tail(w) \in Seq(F) /\ <<Head(w)>> \o w \in Seq(F)
    BY <1>1, <1>3, ConcatProperties
  <1> QED
    BY <1>1, <1>4 DEF d

(* Damage makes of a frame another one that may be under way.              *)
DamageClosed(F) == \A m \in F : [m EXCEPT ![Len(m)] = Damaged] \in F

(* Damage is to the last text of a frame.                                  *)
LEMMA DamageOf ==
    ASSUME NEW a, NEW b, NEW c
    PROVE  /\ [<<a>> EXCEPT ![Len(<<a>>)] = Damaged] = <<Damaged>>
           /\ [<<a, b>> EXCEPT ![Len(<<a, b>>)] = Damaged] = <<a, Damaged>>
           /\ [<<a, b, c>> EXCEPT ![Len(<<a, b, c>>)] = Damaged] = <<a, b, Damaged>>
  OBVIOUS

(* So are the frames of every stage.                                       *)
LEMMA FramesClosed ==
    ASSUME NEW p, NEW t, NEW s, NEW n
    PROVE  /\ DamageClosed(Greetings) /\ DamageClosed(Answers(p, t)) /\ DamageClosed(Confirmations(p)) /\ DamageClosed(Transported(s, n))
           /\ DamageClosed(Greetings \cup Confirmations(p) \cup Transported(s, n))
           /\ DamageClosed(Answers(p, t) \cup Transported(s, n))
  <1>1. DamageClosed(Greetings)
    BY DamageOf DEF DamageClosed, Greetings, Payloads
  <1>2. DamageClosed(Answers(p, t))
    BY DamageOf DEF DamageClosed, Answers
  <1>3. DamageClosed(Confirmations(p))
    BY DamageOf DEF DamageClosed, Confirmations
  <1>4. DamageClosed(Transported(s, n))
    BY DamageOf DEF DamageClosed, Transported, Transport
  <1> QED
    BY <1>1, <1>2, <1>3, <1>4 DEF DamageClosed

(* What the cipher of a session makes of the frames.                       *)
LastOf(m) == m[Len(m)]

LEMMA SessionOpens ==
    ASSUME NEW s \in Sides, NEW k \in Nat, NEW x
    PROVE  LET c == [key |-> SendKey(s), nonce |-> k]
           IN /\ x.key # SendKey(s) => decrypt_with_ad(c, <<>>, x) = Failed
              /\ x.nonce # k => decrypt_with_ad(c, <<>>, x) = Failed
              /\ has_key(c) /\ Used(c) = [key |-> SendKey(s), nonce |-> k + 1]
              /\ \A y : encrypt_with_ad(c, <<>>, y) = [key |-> SendKey(s), nonce |-> k, ad |-> <<>>, plain |-> y]
  <1> DEFINE c == [key |-> SendKey(s), nonce |-> k]
             same == [key |-> SendKey(s), nonce |-> k, ad |-> <<>>, plain |-> x.plain]
  <1>1. SendKey(s) # NoKey
    BY Keys DEF SendKey
  <1>2. has_key(c) /\ c.key = SendKey(s) /\ c.nonce = k
    BY <1>1 DEF has_key
  <1>3. decrypt_with_ad(c, <<>>, x) = IF x = same THEN x.plain ELSE Failed
    BY <1>2 DEF decrypt_with_ad, rats_chachapoly_encrypt, rats_chachapoly_decrypt
  <1>4. same.key = SendKey(s) /\ same.nonce = k
    OBVIOUS
  <1>5. Used(c) = [key |-> SendKey(s), nonce |-> k + 1]
    BY <1>2 DEF Used, Counted
  <1>6. \A y : encrypt_with_ad(c, <<>>, y) = [key |-> SendKey(s), nonce |-> k, ad |-> <<>>, plain |-> y]
    BY <1>2 DEF encrypt_with_ad, rats_chachapoly_encrypt
  <1> HIDE DEF c, same
  <1>7. (x.key # SendKey(s) => decrypt_with_ad(c, <<>>, x) = Failed) /\ (x.nonce # k => decrypt_with_ad(c, <<>>, x) = Failed)
    BY <1>3, <1>4
  <1> QED
    BY <1>2, <1>5, <1>6, <1>7 DEF c

(* The next frame of the peer is read.                                     *)
LEMMA SessionOpensNext ==
    ASSUME NEW s \in Sides, NEW k \in Nat
    PROVE  decrypt_with_ad([key |-> SendKey(s), nonce |-> k], <<>>, LastOf(Transport(s, k))) = Data[k + 1]
  <1> DEFINE c == [key |-> SendKey(s), nonce |-> k]
             x == [key |-> SendKey(s), nonce |-> k, ad |-> <<>>, plain |-> Data[k + 1]]
  <1>1. LastOf(Transport(s, k)) = x
    BY DEF LastOf, Transport
  <1>2. SendKey(s) # NoKey
    BY Keys DEF SendKey
  <1>3. has_key(c) /\ c.key = SendKey(s) /\ c.nonce = k
    BY <1>2 DEF has_key
  <1>4. x.plain = Data[k + 1] /\ x = [key |-> SendKey(s), nonce |-> k, ad |-> <<>>, plain |-> x.plain]
    OBVIOUS
  <1> HIDE DEF c, x
  <1>5. decrypt_with_ad(c, <<>>, x) = Data[k + 1]
    BY <1>3, <1>4 DEF decrypt_with_ad, rats_chachapoly_encrypt, rats_chachapoly_decrypt
  <1> QED
    BY <1>1, <1>5 DEF c

(* A session reads no frame of the handshake, and no damaged one.          *)
LEMMA HandshakeFramesRefused ==
    ASSUME NEW s \in Sides, NEW k \in Nat, NEW p, NEW t, NEW m \in Greetings \cup Answers(p, t) \cup Confirmations(p) \cup {<<Damaged>>}
    PROVE  decrypt_with_ad([key |-> SendKey(s), nonce |-> k], <<>>, LastOf(m)) = Failed
  <1>1. LastOf(m) \in {NoPayload, Damaged, Payload2(p, t), Payload3(p)}
    <2>1. ASSUME NEW a, NEW b, NEW c PROVE LastOf(<<a>>) = a /\ LastOf(<<a, b>>) = b /\ LastOf(<<a, b, c>>) = c
      BY DEF LastOf
    <2>2. CASE m \in Greetings
      <3>1. PICK y \in Payloads : m = <<Plain("e1"), y>>
        BY <2>2 DEF Greetings
      <3>2. LastOf(m) = y
        BY <2>1, <3>1
      <3> QED
        BY <3>2 DEF Payloads
    <2>3. CASE m \in Answers(p, t)
      <3>1. PICK y \in {Payload2(p, t), Damaged} : m = <<Plain("e2"), Static2(p, t), y>>
        BY <2>3 DEF Answers
      <3>2. LastOf(m) = y
        BY <3>1 DEF LastOf
      <3> QED
        BY <3>2
    <2>4. CASE m \in Confirmations(p)
      <3>1. PICK y \in {Payload3(p), Damaged} : m = <<Static1(p), y>>
        BY <2>4 DEF Confirmations
      <3>2. LastOf(m) = y
        BY <2>1, <3>1
      <3> QED
        BY <3>2
    <2> QED
      BY <2>1, <2>2, <2>3, <2>4
  <1>2. ChainEs # ChainSplit /\ ChainSe # ChainSplit
    BY Chains
  <1>3. /\ NoPayload.key # SendKey(s) /\ Damaged.key # SendKey(s)
        /\ Payload2(p, t).key # SendKey(s) /\ Payload3(p).key # SendKey(s)
    <2>1. NoPayload.key = NoKey /\ Payload2(p, t).key = KeyOf(ChainEs, 2) /\ Payload3(p).key = KeyOf(ChainSe, 2)
      BY DEF NoPayload, Plain, Payload2, Payload3
    <2> QED
      BY <1>2, <2>1, Keys DEF SendKey
  <1>4. ASSUME NEW x, x.key # SendKey(s) PROVE decrypt_with_ad([key |-> SendKey(s), nonce |-> k], <<>>, x) = Failed
    BY <1>4, SessionOpens
  <1> QED
    BY <1>1, <1>3, <1>4

(* All that may be on the way in a session, and what its cipher reads.     *)
FramesOf(s, n, p, t) == Greetings \cup Answers(p, t) \cup Confirmations(p) \cup Transported(s, n)
ReadAs(s, k, m) == decrypt_with_ad([key |-> SendKey(s), nonce |-> k], <<>>, LastOf(m))

(* What it reads is the next data of its peer.                             *)
LEMMA TransportRead ==
    ASSUME NEW s \in Sides, NEW k \in Nat, NEW p, NEW t, NEW n \in Nat, NEW m \in FramesOf(s, n, p, t), ReadAs(s, k, m) # Failed
    PROVE  k < n /\ ReadAs(s, k, m) = Data[k + 1]
  <1>1. PICK j \in 0..(n - 1) : m = Transport(s, j)
    BY HandshakeFramesRefused DEF Transported, FramesOf, ReadAs
  <1>2. LastOf(m).nonce = j
    BY <1>1 DEF LastOf, Transport
  <1>3. j = k
    BY <1>2, SessionOpens DEF ReadAs
  <1> QED
    BY <1>1, <1>3, SessionOpensNext DEF ReadAs

Config(a, b) == a.protocol = b.protocol /\ a.secure = b.secure
Traffic(a, b) == a.send = b.send /\ a.recv = b.recv /\ a.sent = b.sent /\ a.got = b.got

(* A connection closed: all but the state is as it was.                    *)
LEMMA ClosedEnds ==
    ASSUME Shaped, NEW s \in Sides, Closed(s)
    PROVE  /\ Shaped' /\ \A r \in Sides : wires'[r] = <<>>
           /\ ends'[Peer(s)] = ends[Peer(s)]
           /\ ends'[s].state = "closed" /\ ends'[s].hs = ends[s].hs
           /\ Config(ends'[s], ends[s]) /\ Traffic(ends'[s], ends[s])
  BY SidesFacts DEF Shaped, Closed, EndFields, Config, Traffic

(* A connection that something happened to may close at any time.          *)
LEMMA ClosedKeeps ==
    ASSUME ChannelInv, NEW s \in Sides, Closed(s), wires[s] # <<>>, mishaps' = mishaps, mishaps # 0
    PROVE  ChannelInv'
  <1>1. /\ Shaped' /\ \A r \in Sides : wires'[r] = <<>>
        /\ \A r \in Sides : /\ ends'[r].state \in {ends[r].state, "closed"} /\ ends'[r].hs = ends[r].hs
                            /\ Config(ends'[r], ends[r]) /\ Traffic(ends'[r], ends[r])
    BY ClosedEnds, SidesFacts DEF ChannelInv, ChannelTypes, Config, Traffic
  <1>2. ChannelTypes'
    BY <1>1, SidesFacts DEF ChannelInv, ChannelTypes, Config, Traffic, Empty
  <1>3. \A F : <<>> \in Seq(F)
    OBVIOUS
  <1>4. ASSUME NEW r \in Sides, NEW hs, NEW states, "closed" \in states, Young(r, hs, states) PROVE Young(r, hs, states)'
    BY <1>1, <1>4 DEF Young, Is, Still, Config, Traffic
  <1>5. ASSUME NEW r \in Sides, Talking(r) PROVE Talking(r)'
    BY <1>1, <1>5 DEF Talking, Is, P, Config, Traffic
  <1>6. P("initiator")' = P("initiator") /\ P("responder")' = P("responder")
    BY <1>1, SidesFacts DEF P, Config
  <1>7. CASE Greeting
    BY <1>1, <1>2, <1>3, <1>4, <1>6, <1>7, SidesFacts DEF Greeting, ChannelInv
  <1>8. ASSUME NEW t \in Payloads, Answering(t) PROVE ChannelInv'
    BY <1>1, <1>2, <1>3, <1>4, <1>6, <1>8, SidesFacts DEF Answering, ChannelInv
  <1>9. CASE Confirming
    <2>1. Confirming'
      BY <1>1, <1>3, <1>4, <1>5, <1>6, <1>9, SidesFacts DEF Confirming, Traffic
    <2> QED
      BY <1>2, <2>1 DEF ChannelInv
  <1>10. CASE SecureSession
    <2>1. SecureSession'
      BY <1>1, <1>3, <1>5, <1>6, <1>10, SidesFacts DEF SecureSession
    <2> QED
      BY <1>2, <2>1 DEF ChannelInv
  <1>11. ~SecureStart
    BY DEF SecureStart, Empty
  <1> QED
    BY <1>7, <1>8, <1>9, <1>10, <1>11 DEF ChannelInv

(* A frame damaged, lost or repeated.                                      *)
LEMMA MishapKeeps ==
    ASSUME ChannelInv, NEW s \in Sides, Mishap(s)
    PROVE  ChannelInv'
  <1> DEFINE w == wires[s]
  <1>1. w # <<>> /\ mishaps' \in Nat /\ mishaps' # 0 /\ ends' = ends /\ ends[s].secure
    BY DEF Mishap, ChannelInv, ChannelTypes
  <1>2. /\ wires' = [r \in Sides |-> wires'[r]] /\ wires'[Peer(s)] = wires[Peer(s)]
        /\ wires'[s] \in {<<[Head(w) EXCEPT ![Len(Head(w))] = Damaged]>> \o Tail(w), Tail(w), <<Head(w)>> \o w}
    <2>1. wires = [r \in Sides |-> wires[r]]
      BY DEF ChannelInv, ChannelTypes, Shaped
    <2>2. PICK v \in {<<[Head(w) EXCEPT ![Len(Head(w))] = Damaged]>> \o Tail(w), Tail(w), <<Head(w)>> \o w} : wires' = [wires EXCEPT ![s] = v]
      BY DEF Mishap
    <2> HIDE DEF w
    <2> QED
      BY <2>1, <2>2, SidesFacts
  <1>3. ASSUME NEW F, DamageClosed(F), w \in Seq(F) PROVE wires'[s] \in Seq(F)
    BY <1>1, <1>2, <1>3, MishapFacts DEF DamageClosed
  <1>4. ASSUME NEW r \in Sides, NEW F, DamageClosed(F), wires[r] \in Seq(F) PROVE wires'[r] \in Seq(F)
    <2> HIDE DEF w
    <2> QED
      BY <1>2, <1>3, <1>4, SidesFacts DEF w
  <1>5. ChannelTypes'
    <2>1. ~Empty
      BY <1>1 DEF Empty
    <2>2. Open
      BY <2>1 DEF ChannelInv, ChannelTypes, Open
    <2> QED
      BY <1>1, <1>2, <2>2 DEF ChannelInv, ChannelTypes, Shaped, Open
  <1>6. ASSUME wires[Peer(s)] = <<>> PROVE wires'[Peer(s)] = <<>>
    BY <1>2, <1>6
  <1> HIDE DEF w
  <1>7. CASE Greeting
    <2>1. s = "responder"
      BY <1>1, <1>7, SidesFacts DEF Greeting, w
    <2>2. wires'["responder"] \in Seq(Greetings) /\ wires'["initiator"] = <<>>
      BY <1>4, <1>6, <1>7, <2>1, SidesFacts, FramesClosed DEF Greeting
    <2>3. Greeting'
      BY <1>1, <1>7, <2>2 DEF Greeting, Young, Is, Still, P
    <2> QED
      BY <1>5, <2>3 DEF ChannelInv
  <1>8. ASSUME NEW t \in Payloads, Answering(t) PROVE ChannelInv'
    <2>1. wires'["responder"] \in Seq(Greetings) /\ wires'["initiator"] \in Seq(Answers(P("responder"), t))
      BY <1>4, <1>8, SidesFacts, FramesClosed DEF Answering
    <2>2. Answering(t)'
      BY <1>1, <1>8, <2>1 DEF Answering, Young, Is, Still, P
    <2> QED
      BY <1>5, <2>2 DEF ChannelInv
  <1>9. CASE Confirming
    <2>1. wires'["responder"] \in Seq(FromInitiator) /\ wires'["initiator"] \in Seq(Answers(P("responder"), NoPayload))
      BY <1>4, <1>9, SidesFacts, FramesClosed DEF Confirming, FromInitiator
    <2>2. FromInitiator' = FromInitiator
      BY <1>1 DEF FromInitiator, P
    <2>3. Confirming'
      BY <1>1, <1>9, <2>1, <2>2 DEF Confirming, Young, Talking, Is, Still, P
    <2> QED
      BY <1>5, <2>3 DEF ChannelInv
  <1>10. CASE SecureSession
    <2>1. wires'["responder"] \in Seq(FromInitiator) /\ wires'["initiator"] \in Seq(FromResponder)
      BY <1>4, <1>10, SidesFacts, FramesClosed DEF SecureSession, FromInitiator, FromResponder
    <2>2. FromInitiator' = FromInitiator /\ FromResponder' = FromResponder
      BY <1>1 DEF FromInitiator, FromResponder, P
    <2>3. SecureSession'
      BY <1>1, <1>10, <2>1, <2>2 DEF SecureSession, Talking, Is, P
    <2> QED
      BY <1>5, <2>3 DEF ChannelInv
  <1>11. ~SecureStart /\ ~PlainBegin
    BY <1>1 DEF SecureStart, PlainBegin, Empty, w
  <1>12. ~PlainGreeting /\ ~PlainAnswer /\ ~PlainSession
    BY <1>1, SidesFacts DEF PlainGreeting, PlainAnswer, PlainSession, PlainEnd
  <1> QED
    BY <1>7, <1>8, <1>9, <1>10, <1>11, <1>12 DEF ChannelInv

(* The first step of the initiator.                                        *)
LEMMA StartEnds ==
    ASSUME Shaped, NEW h, NEW m, ends' = [ends EXCEPT !["initiator"].hs = h, !["initiator"].state = "handshake"],
           wires' = [wires EXCEPT !["responder"] = Append(@, m)], wires["responder"] = <<>>
    PROVE  /\ Shaped' /\ wires'["initiator"] = wires["initiator"] /\ wires'["responder"] = <<m>>
           /\ ends'["responder"] = ends["responder"]
           /\ ends'["initiator"].state = "handshake" /\ ends'["initiator"].hs = h
           /\ Config(ends'["initiator"], ends["initiator"]) /\ Traffic(ends'["initiator"], ends["initiator"])
  <1>1. wires' = [wires EXCEPT !["responder"] = <<m>>]
    BY Alone
  <1> QED
    BY <1>1, SidesFacts DEF Shaped, EndFields, Config, Traffic

(* Both handshakes begin.                                                  *)
LEMMA HandshakeBegins ==
    ASSUME ChannelInv, HandshakeStart \/ PlainStart, mishaps' = mishaps
    PROVE  ChannelInv'
  <1>1. CASE HandshakeStart
    <2> DEFINE p == P("initiator")
    <2>1. SecureStart
      BY <1>1, SidesFacts DEF ChannelInv, HandshakeStart, Greeting, Answering, Confirming, SecureSession, PlainBegin, PlainGreeting, PlainAnswer,
                  PlainSession, Young, Talking, PlainEnd, Is
    <2>2. ends["initiator"].hs = Begun("initiator", p)
      BY <2>1 DEF SecureStart, Young, Is
    <2>3. /\ ends' = [ends EXCEPT !["initiator"].hs = Greeted(p), !["initiator"].state = "handshake"]
          /\ wires' = [wires EXCEPT !["responder"] = Append(@, <<Plain("e1"), NoPayload>>)]
      BY <1>1, <2>2, WriteGreeting DEF HandshakeStart
    <2>4. Shaped /\ wires["responder"] = <<>> /\ wires["initiator"] = <<>>
      BY <2>1, SidesFacts DEF ChannelInv, ChannelTypes, SecureStart, Empty
    <2> HIDE DEF p
    <2>5. /\ Shaped' /\ wires'["initiator"] = <<>> /\ wires'["responder"] = <<<<Plain("e1"), NoPayload>>>>
          /\ ends'["responder"] = ends["responder"]
          /\ ends'["initiator"].state = "handshake" /\ ends'["initiator"].hs = Greeted(p)
          /\ Config(ends'["initiator"], ends["initiator"]) /\ Traffic(ends'["initiator"], ends["initiator"])
      BY <2>3, <2>4, StartEnds
    <2>6. Open'
      BY <2>1, <2>5, SidesFacts DEF Open, SecureStart, Young, Is
    <2>7. ChannelTypes'
      BY <2>5, <2>6, SidesFacts DEF ChannelInv, ChannelTypes, Open, Traffic
    <2>8. <<Plain("e1"), NoPayload>> \in Greetings
      BY DEF Greetings, Payloads
    <2>9. Greeting'
      BY <2>1, <2>5, <2>6, <2>8 DEF SecureStart, Greeting, Young, Is, Still, P, Config, Traffic, p
    <2> QED
      BY <2>7, <2>9 DEF ChannelInv
  <1>2. CASE PlainStart
    <2>1. PlainBegin
      BY <1>2, SidesFacts DEF ChannelInv, PlainStart, SecureStart, Greeting, Answering, Confirming, SecureSession, PlainGreeting, PlainAnswer,
                  PlainSession, Young, Talking, PlainEnd, Is
    <2>2. /\ ends' = [ends EXCEPT !["initiator"].state = "handshake"]
          /\ wires' = [wires EXCEPT !["responder"] = Append(@, Hello("initiator"))]
      <3>1. ends["initiator"].hs.s = "s1"
        BY <2>1 DEF PlainBegin, PlainEnd, Is, Met, Handshake, StaticOf
      <3> QED
        BY <1>2, <3>1 DEF PlainStart, append_message, Hello, P, StaticOf
    <2>3. Shaped /\ wires["responder"] = <<>> /\ wires["initiator"] = <<>>
      BY <2>1, SidesFacts DEF ChannelInv, ChannelTypes, PlainBegin, Empty
    <2>4. wires' = [wires EXCEPT !["responder"] = <<Hello("initiator")>>]
      BY <2>2, <2>3, Alone
    <2>5. /\ Shaped' /\ wires'["initiator"] = <<>> /\ wires'["responder"] = <<Hello("initiator")>>
          /\ ends'["responder"] = ends["responder"]
          /\ ends'["initiator"].state = "handshake" /\ ends'["initiator"].hs = ends["initiator"].hs
          /\ Config(ends'["initiator"], ends["initiator"]) /\ Traffic(ends'["initiator"], ends["initiator"])
      BY <2>2, <2>3, <2>4, SidesFacts DEF Shaped, EndFields, Config, Traffic
    <2>6. Open'
      BY <2>1, <2>5, SidesFacts DEF Open, PlainBegin, PlainEnd, Is
    <2>7. ChannelTypes'
      BY <2>5, <2>6, SidesFacts DEF ChannelInv, ChannelTypes, Open, Traffic
    <2>8. PlainGreeting'
      BY <2>1, <2>5 DEF PlainBegin, PlainGreeting, PlainEnd, Is, Still, P, Hello, Config, Traffic
    <2>9. mishaps = 0
      BY <2>1 DEF ChannelInv, SecureStart, Greeting, Answering, Confirming, SecureSession, Young, Talking, PlainBegin, PlainEnd
    <2> QED
      BY <2>7, <2>8, <2>9 DEF ChannelInv
  <1> QED
    BY <1>1, <1>2

(* An end whose handshake is complete is ready, with the split keys.       *)
LEMMA ReadyEnd ==
    ASSUME NEW e, DOMAIN e = EndFields, NEW hs, hs.complete
    PROVE  LET n == AfterStep([e EXCEPT !.hs = hs])
           IN /\ DOMAIN n = EndFields /\ n.hs = hs /\ n.state = "ready" /\ n.sent = e.sent /\ n.got = e.got
              /\ n.send = split(hs).send /\ n.recv = split(hs).recv /\ Config(n, e)
  <1> DEFINE f == [e EXCEPT !.hs = hs]
  <1>1. /\ DOMAIN f = EndFields /\ f.hs = hs /\ f.sent = e.sent /\ f.got = e.got /\ f.protocol = e.protocol /\ f.secure = e.secure
    BY DEF EndFields
  <1> HIDE DEF f
  <1>2. AfterStep(f) = [f EXCEPT !.state = "ready", !.send = split(hs).send, !.recv = split(hs).recv]
    BY <1>1 DEF AfterStep, Ready
  <1>3. LET n == AfterStep(f)
        IN /\ DOMAIN n = EndFields /\ n.hs = hs /\ n.state = "ready" /\ n.sent = e.sent /\ n.got = e.got
           /\ n.send = split(hs).send /\ n.recv = split(hs).recv /\ Config(n, e)
    BY <1>1, <1>2 DEF EndFields, Config
  <1> QED
    BY <1>3 DEF f

(* One whose handshake is not goes on.                                     *)
LEMMA OpenEnd ==
    ASSUME NEW e, DOMAIN e = EndFields, NEW hs, ~hs.complete
    PROVE  LET n == AfterStep([e EXCEPT !.hs = hs])
           IN /\ DOMAIN n = EndFields /\ n.hs = hs /\ n.state = e.state
              /\ Traffic(n, e) /\ Config(n, e)
  <1>1. [e EXCEPT !.hs = hs].hs = hs
    BY DEF EndFields
  <1> QED
    BY <1>1 DEF EndFields, Config, Traffic, AfterStep

(* Each sends with the key the other receives with.                        *)
LEMMA SplitKeys ==
    ASSUME NEW s \in Sides, NEW p
    PROVE  /\ Finished(s, p).complete
           /\ split(Finished(s, p)).send = [key |-> SendKey(s), nonce |-> 0]
           /\ split(Finished(s, p)).recv = [key |-> SendKey(Peer(s)), nonce |-> 0]
  <1> DEFINE st == Finished(s, p)
             none == {}
             k == rats_noise_hkdf_2(st.ck, none)
  <1>1. st.complete /\ st.ck = ChainSe /\ st.initiator = (s = "initiator")
    BY DEF Finished, Handshake
  <1>2. Append(ChainSe, none) = ChainSplit
    BY DEF ChainSplit
  <1> HIDE DEF st
  <1>3. k[1] = KeyOf(ChainSplit, 1) /\ k[2] = KeyOf(ChainSplit, 2)
    <2> HIDE DEF none
    <2> QED
      BY <1>1, <1>2 DEF rats_noise_hkdf_2, KeyOf
  <1>4. split(st) = IF st.initiator THEN [send |-> Cipher(k[1]), recv |-> Cipher(k[2])] ELSE [send |-> Cipher(k[2]), recv |-> Cipher(k[1])]
    BY DEF split
  <1> HIDE DEF k
  <1>5. CASE s = "initiator"
    <2>1. SendKey(s) = k[1] /\ SendKey(Peer(s)) = k[2] /\ st.initiator
      BY <1>1, <1>3, <1>5, SidesFacts DEF SendKey
    <2> QED
      BY <1>1, <1>4, <2>1 DEF Cipher, st
  <1>6. CASE s = "responder"
    <2>1. SendKey(s) = k[2] /\ SendKey(Peer(s)) = k[1] /\ ~st.initiator
      BY <1>1, <1>3, <1>6, SidesFacts DEF SendKey
    <2> QED
      BY <1>1, <1>4, <2>1 DEF Cipher, st
  <1> QED
    BY <1>5, <1>6, SidesFacts

(* The handshake is not complete before its last message.                  *)
LEMMA StagesOpen ==
    ASSUME NEW p, NEW t
    PROVE  ~Heard(p, t).complete /\ ~Answered(p, t).complete /\ ~Known(p).complete
  BY DEF Heard, Answered, Known, Handshake

(* What a secure end consumes, closing the connection or going on.         *)
LEMMA ConsumeKeeps ==
    ASSUME ChannelInv, NEW s \in Sides, Consume(s), mishaps' = mishaps
    PROVE  ChannelInv'
  <1> DEFINE m == Head(wires[s])
             r == read_message(ends[s].hs, m)
             w == write_message(r.st)
  <1>1. ends[s].state = "handshake" /\ wires[s] # <<>> /\ ends[s].secure /\ Shaped /\ DOMAIN ends[s] = EndFields
    BY DEF Consume, ChannelInv, ChannelTypes, Shaped
  <1>2. Open /\ ~Empty
    BY <1>1 DEF ChannelInv, ChannelTypes, Open, Empty
  <1>3. ASSUME ~r.ok PROVE Closed(s)
    BY <1>3 DEF Consume
  <1>4. ASSUME r.ok, r.st.complete
        PROVE  /\ ends' = [ends EXCEPT ![s] = AfterStep([@ EXCEPT !.hs = r.st])]
               /\ wires' = [wires EXCEPT ![s] = Tail(@)]
    BY <1>4, Zenon DEF Consume
  <1>5. ASSUME r.ok, ~r.st.complete
        PROVE  /\ ends' = [ends EXCEPT ![s] = AfterStep([@ EXCEPT !.hs = w.st])]
               /\ wires' = [wires EXCEPT ![s] = Tail(@), ![Peer(s)] = Append(@, w.message)]
    BY <1>5, Zenon DEF Consume
  <1> HIDE DEF m, r, w
  <1>6. ASSUME NEW n, DOMAIN n = EndFields, n.state \in {"handshake", "ready"}, n.sent = ends[s].sent, n.got = ends[s].got, ends'[s] = n,
               ends'[Peer(s)] = ends[Peer(s)], Shaped'
        PROVE  ChannelTypes' /\ Open'
    <2>1. Open'
      BY <1>2, <1>6, SidesFacts DEF Open
    <2> QED
      BY <1>6, <2>1, SidesFacts DEF ChannelInv, ChannelTypes, Open
  <1>7. CASE s = "responder" /\ Greeting
    <2> DEFINE q == P("responder")
    <2>1. PICK t \in Payloads : m = <<Plain("e1"), t>> /\ (mishaps = 0 => t = NoPayload)
      BY <1>1, <1>7 DEF Greeting, Greetings, m
    <2>2. ends[s].hs = Begun("responder", q)
      BY <1>7 DEF Greeting, Young, Is
    <2>3. r.ok /\ r.st = Heard(q, t)
      BY <2>1, <2>2, ReadGreeting DEF r
    <2>4. w.st = Answered(q, t) /\ w.message = <<Plain("e2"), Static2(q, t), Payload2(q, t)>>
      BY <2>3, WriteAnswer DEF w
    <2>5. ~r.st.complete /\ ~w.st.complete
      BY <2>3, <2>4, StagesOpen
    <2> DEFINE n == AfterStep([ends[s] EXCEPT !.hs = w.st])
    <2>6. DOMAIN n = EndFields /\ n.hs = Answered(q, t) /\ n.state = "handshake" /\ Traffic(n, ends[s]) /\ Config(n, ends[s])
      BY <1>1, <2>4, <2>5, OpenEnd
    <2>7. ends' = [ends EXCEPT ![s] = n] /\ wires' = [wires EXCEPT ![s] = Tail(@), ![Peer(s)] = Append(@, w.message)]
      BY <1>5, <2>3, <2>5
    <2> HIDE DEF n, q
    <2>8. wires' = [wires EXCEPT ![s] = Tail(@), ![Peer(s)] = <<w.message>>]
      BY <1>7, <2>7, SidesFacts, Alone DEF Greeting
    <2>9. /\ Shaped' /\ ends'[s] = n /\ ends'[Peer(s)] = ends[Peer(s)]
          /\ wires'[s] = Tail(wires[s]) /\ wires'[Peer(s)] = <<w.message>>
      BY <1>1, <2>6, <2>7, <2>8, SidesFacts DEF Shaped
    <2>10. ChannelTypes' /\ Open'
      BY <1>6, <2>6, <2>9 DEF Traffic
    <2>11. wires'["responder"] \in Seq(Greetings) /\ (mishaps = 0 => wires'["responder"] = <<>>)
      <3>1. Tail(wires["responder"]) \in Seq(Greetings)
        BY <1>1, <1>7 DEF Greeting
      <3>2. \A x : Tail(<<x>>) = <<>>
        OBVIOUS
      <3> QED
        BY <1>7, <2>9, <3>1, <3>2 DEF Greeting
    <2>12. wires'["initiator"] \in Seq(Answers(q, t)) /\ wires'["initiator"] = <<<<Plain("e2"), Static2(q, t), Payload2(q, t)>>>>
      <3>1. w.message \in Answers(q, t)
        BY <2>4 DEF Answers
      <3>2. \A F : \A x \in F : <<x>> \in Seq(F)
        OBVIOUS
      <3>3. wires'["initiator"] = <<w.message>>
        BY <1>7, <2>9, SidesFacts
      <3> QED
        BY <2>4, <3>1, <3>2, <3>3
    <2>13. P("responder")' = q /\ P("initiator")' = P("initiator")
      BY <1>7, <2>6, <2>9, SidesFacts DEF P, Config, q
    <2>14. Answering(t)'
      BY <1>7, <2>1, <2>6, <2>9, <2>10, <2>11, <2>12, <2>13, SidesFacts DEF Greeting, Answering, Young, Is, Still, Traffic, Config
    <2> QED
      BY <2>10, <2>14 DEF ChannelInv
  <1>8. ASSUME NEW t \in Payloads, Answering(t), s = "responder" PROVE ChannelInv'
    <2>1. m \in Greetings /\ mishaps # 0
      BY <1>1, <1>8 DEF Answering, m
    <2>2. ends[s].hs = Answered(P("responder"), t)
      BY <1>8 DEF Answering, Young, Is
    <2>3. ~r.ok
      BY <2>1, <2>2, Misread DEF r
    <2> QED
      BY <1>1, <1>3, <2>1, <2>3, ClosedKeeps
  <1>9. ASSUME NEW t \in Payloads, Answering(t), s = "initiator" PROVE ChannelInv'
    <2> DEFINE p == P("initiator")
               q == P("responder")
    <2>1. PICK x \in {Payload2(q, t), Damaged} : m = <<Plain("e2"), Static2(q, t), x>> /\ (mishaps = 0 => x = Payload2(q, t))
      <3>1. m \in Answers(q, t) /\ (mishaps = 0 => m = <<Plain("e2"), Static2(q, t), Payload2(q, t)>>)
        BY <1>1, <1>2, <1>9 DEF Answering, m
      <3> QED
        BY <3>1 DEF Answers
    <2>2. ends[s].hs = Greeted(p)
      BY <1>9 DEF Answering, Young, Is
    <2>3. /\ r.ok => p = q /\ t = NoPayload /\ x = Payload2(q, t) /\ r.st = Known(p)
          /\ p = q /\ t = NoPayload /\ x = Payload2(q, t) => r.ok
      <3>1. r = read_message(Greeted(p), Answer(q, t, x))
        BY <2>1, <2>2 DEF r, Answer
      <3>2. x = Payload2(q, t) \/ x = Damaged
        OBVIOUS
      <3> HIDE DEF r, p, q
      <3> QED
        BY <3>1, <3>2, ReadAnswer
    <2>4. CASE ~r.ok /\ mishaps # 0
      BY <1>1, <1>3, <2>4, ClosedKeeps
    <2>5. CASE ~r.ok /\ mishaps = 0
      <3>1. p # q /\ t = NoPayload
        BY <1>9, <2>1, <2>3, <2>5 DEF Answering
      <3>2. /\ Shaped' /\ \A v \in Sides : wires'[v] = <<>>
            /\ ends'["responder"] = ends["responder"]
            /\ ends'["initiator"].state = "closed" /\ ends'["initiator"].hs = ends["initiator"].hs
            /\ Config(ends'["initiator"], ends["initiator"]) /\ Traffic(ends'["initiator"], ends["initiator"])
        BY <1>1, <1>3, <1>9, <2>5, ClosedEnds, SidesFacts
      <3>3. ChannelTypes'
        BY <3>2, SidesFacts DEF ChannelInv, ChannelTypes, Empty, Traffic
      <3>4. Answering(t)'
        <4>1. P("initiator")' = p /\ P("responder")' = q
          BY <3>2 DEF P, Config
        <4>2. Young("initiator", Greeted(p), {"handshake", "closed"})'
          BY <1>9, <3>2, <4>1 DEF Answering, Young, Is, Still, Config, Traffic
        <4>3. Young("responder", Answered(q, t), {"handshake", "closed"})'
          BY <1>9, <3>2, <4>1 DEF Answering, Young, Is, Still
        <4>4. wires'["initiator"] = <<>> /\ wires'["responder"] = <<>> /\ Empty'
          BY <3>2, SidesFacts DEF Empty
        <4>5. \A F : <<>> \in Seq(F)
          OBVIOUS
        <4> QED
          BY <3>1, <4>1, <4>2, <4>3, <4>4, <4>5 DEF Answering
      <3> QED
        BY <3>3, <3>4 DEF ChannelInv
    <2>6. CASE r.ok
      <3>1. p = q /\ t = NoPayload /\ x = Payload2(q, t) /\ r.st = Known(p)
        BY <2>3, <2>6
      <3>2. w.st = Finished("initiator", p) /\ w.message = <<Static1(p), Payload3(p)>>
        BY <3>1, WriteConfirmation DEF w
      <3>3. ~r.st.complete
        BY <3>1, StagesOpen
      <3> DEFINE n == AfterStep([ends[s] EXCEPT !.hs = w.st])
      <3>4. /\ DOMAIN n = EndFields /\ n.hs = Finished("initiator", p) /\ n.state = "ready" /\ n.sent = ends[s].sent /\ n.got = ends[s].got
            /\ n.send = [key |-> SendKey("initiator"), nonce |-> 0] /\ n.recv = [key |-> SendKey("responder"), nonce |-> 0]
            /\ Config(n, ends[s])
        BY <1>1, <3>2, SplitKeys, ReadyEnd, SidesFacts
      <3>5. ends' = [ends EXCEPT ![s] = n] /\ wires' = [wires EXCEPT ![s] = Tail(@), ![Peer(s)] = Append(@, w.message)]
        BY <1>5, <2>6, <3>3
      <3> HIDE DEF n
      <3> DEFINE v == Append(wires["responder"], w.message)
      <3>6. wires' = [wires EXCEPT ![s] = Tail(@), ![Peer(s)] = v]
        BY <1>9, <3>5, SidesFacts
      <3> HIDE DEF v
      <3>7. /\ Shaped' /\ ends'["initiator"] = n /\ ends'["responder"] = ends["responder"]
            /\ wires'["initiator"] = Tail(wires["initiator"]) /\ wires'["responder"] = v
        BY <1>1, <1>9, <3>4, <3>5, <3>6, SidesFacts DEF Shaped
      <3>8. ChannelTypes' /\ Open'
        BY <1>6, <1>9, <3>4, <3>7, SidesFacts
      <3>9. ends["initiator"].sent = 0 /\ ends["initiator"].got = <<>>
        BY <1>9 DEF Answering, Young, Still
      <3>10. P("initiator")' = p /\ P("responder")' = p /\ ends'["initiator"].secure
        BY <1>1, <1>9, <3>1, <3>4, <3>7 DEF P, Config
      <3>11. v \in Seq(FromInitiator')
        <4>1. w.message \in FromInitiator' /\ Greetings \subseteq FromInitiator'
          BY <3>2, <3>10 DEF FromInitiator, Confirmations
        <4>2. wires["responder"] \in Seq(FromInitiator')
          BY <1>9, <4>1, SeqMonotonic DEF Answering
        <4> QED
          BY <4>1, <4>2, AppendProperties DEF v
      <3>12. wires'["initiator"] \in Seq(Answers(p, NoPayload))
        BY <1>1, <1>9, <3>1, <3>7 DEF Answering
      <3>13. ASSUME mishaps = 0
             PROVE  wires'["initiator"] = <<>> /\ v = Queue(<<Static1(p), Payload3(p)>>, SecureFrames("initiator"), 0)
        <4>1. wires["responder"] = <<>> /\ wires["initiator"] = <<<<Plain("e2"), Static2(q, t), Payload2(q, t)>>>>
          BY <1>2, <1>9, <3>13 DEF Answering
        <4>2. v = <<w.message>>
          BY <4>1, Alone DEF v
        <4> QED
          BY <3>2, <3>7, <4>1, <4>2, QueueFacts
      <3>14. Talking("initiator")' /\ ends'["initiator"].got = <<>>
        BY <3>4, <3>7, <3>9, <3>10, <1>9, SidesFacts DEF Talking, Is
      <3>15. Young("responder", Answered(p, NoPayload), {"handshake", "closed"})'
        <4>1. Young("responder", Answered(p, NoPayload), {"handshake", "closed"})
          BY <1>9, <3>1 DEF Answering
        <4> QED
          BY <3>7, <3>10, <4>1 DEF Young, Is, Still
      <3>16. Confirming'
        BY <1>9, <3>4, <3>7, <3>8, <3>9, <3>10, <3>11, <3>12, <3>13, <3>14, <3>15 DEF Confirming
      <3> QED
        BY <3>8, <3>16 DEF ChannelInv
    <2> QED
      BY <2>4, <2>5, <2>6
  <1>10. CASE s = "responder" /\ Confirming
    <2> DEFINE p == P("initiator")
    <2>1. m \in FromInitiator /\ p = P("responder") /\ ends[s].hs = Answered(p, NoPayload)
          /\ (mishaps = 0 => m = <<Static1(p), Payload3(p)>>)
      <3>1. ASSUME mishaps = 0 PROVE m = <<Static1(p), Payload3(p)>>
        <4>1. ends["initiator"].sent \in Nat
          BY SidesFacts DEF ChannelInv, ChannelTypes
        <4>2. wires["responder"] = Queue(<<Static1(p), Payload3(p)>>, SecureFrames("initiator"), ends["initiator"].sent)
          BY <1>10, <3>1 DEF Confirming
        <4> HIDE DEF p
        <4> QED
          BY <1>10, <4>1, <4>2, QueueFacts DEF m
      <3> QED
        BY <1>1, <1>10, <3>1 DEF Confirming, Young, Is, m
    <2>2. CASE ~r.ok /\ mishaps # 0
      BY <1>1, <1>3, <2>2, ClosedKeeps
    <2>3. ASSUME mishaps = 0 PROVE r.ok
      BY <2>1, <2>3, ReadConfirmation DEF r
    <2>4. CASE r.ok
      <3>1. r.st = Finished("responder", p)
        <4>1. m \in Confirmations(p)
          <5>1. m \notin Greetings
            BY <2>1, <2>4, Misread DEF r
          <5>2. m \notin Transported("initiator", ends["initiator"].sent)
            BY <2>1, <2>4, TooEarly DEF r, Transported, Transport
          <5> QED
            BY <2>1, <5>1, <5>2 DEF FromInitiator
        <4>2. PICK x \in {Payload3(p), Damaged} : m = <<Static1(p), x>>
          BY <4>1 DEF Confirmations
        <4> QED
          BY <2>1, <2>4, <4>2, ReadConfirmation DEF r
      <3>2. r.st.complete
        BY <3>1, SplitKeys, SidesFacts
      <3> DEFINE n == AfterStep([ends[s] EXCEPT !.hs = r.st])
      <3>3. /\ DOMAIN n = EndFields /\ n.hs = Finished("responder", p) /\ n.state = "ready" /\ n.sent = ends[s].sent /\ n.got = ends[s].got
            /\ n.send = [key |-> SendKey("responder"), nonce |-> 0] /\ n.recv = [key |-> SendKey("initiator"), nonce |-> 0]
            /\ Config(n, ends[s])
        BY <1>1, <3>1, SplitKeys, ReadyEnd, SidesFacts
      <3>4. ends' = [ends EXCEPT ![s] = n] /\ wires' = [wires EXCEPT ![s] = Tail(@)]
        BY <1>4, <2>4, <3>2
      <3> HIDE DEF n
      <3>5. /\ Shaped' /\ ends'["responder"] = n /\ ends'["initiator"] = ends["initiator"]
            /\ wires'["responder"] = Tail(wires["responder"]) /\ wires'["initiator"] = wires["initiator"]
        BY <1>1, <1>10, <3>3, <3>4, SidesFacts DEF Shaped
      <3>6. ChannelTypes' /\ Open'
        BY <1>6, <1>10, <3>3, <3>5, SidesFacts
      <3>7. ends["responder"].sent = 0 /\ ends["responder"].got = <<>> /\ ends["initiator"].got = <<>>
        BY <1>10 DEF Confirming, Young, Still
      <3>8. P("initiator")' = p /\ P("responder")' = p /\ ends'["responder"].secure
        BY <1>1, <1>10, <2>1, <3>3, <3>5 DEF P, Config
      <3>9. FromInitiator' = FromInitiator /\ Answers(p, NoPayload) \subseteq FromResponder'
        BY <3>5, <3>8 DEF FromInitiator, FromResponder
      <3>10. wires'["responder"] \in Seq(FromInitiator') /\ wires'["initiator"] \in Seq(FromResponder')
        <4>1. wires["initiator"] \in Seq(FromResponder')
          BY <1>10, <2>1, <3>9, SeqMonotonic DEF Confirming
        <4> QED
          BY <1>1, <1>10, <3>5, <3>9, <4>1 DEF Confirming
      <3>11. Talking("initiator")'
        BY <1>10, <3>5, <3>8 DEF Confirming, Talking, Is, P
      <3>12. Talking("responder")'
        BY <1>10, <3>3, <3>5, <3>7, <3>8, SidesFacts DEF Talking, Is
      <3>13. ASSUME mishaps = 0
             PROVE  /\ wires'["responder"] = Pending(SecureFrames("initiator"), 0, ends["initiator"].sent)
                    /\ wires'["initiator"] = Pending(SecureFrames("responder"), 0, 0)
        <4>1. ends["initiator"].sent \in Nat
          BY SidesFacts DEF ChannelInv, ChannelTypes
        <4> QED
          <5>1. wires["responder"] = Queue(<<Static1(p), Payload3(p)>>, SecureFrames("initiator"), ends["initiator"].sent) /\ wires["initiator"] = <<>>
            BY <1>10, <3>13 DEF Confirming
          <5>2. Tail(Queue(<<Static1(p), Payload3(p)>>, SecureFrames("initiator"), ends["initiator"].sent))
                = Pending(SecureFrames("initiator"), 0, ends["initiator"].sent)
            BY <4>1, QueueFacts
          <5>3. Pending(SecureFrames("responder"), 0, 0) = <<>>
            BY PendingFacts
          <5> QED
            BY <3>5, <5>1, <5>2, <5>3
      <3>14. SecureSession'
        BY <1>10, <3>3, <3>5, <3>6, <3>7, <3>8, <3>10, <3>11, <3>12, <3>13, SidesFacts DEF SecureSession
      <3> QED
        BY <3>6, <3>14 DEF ChannelInv
    <2> QED
      BY <2>2, <2>3, <2>4
  <1>11. s = "initiator" => ~Greeting
    BY <1>1 DEF Greeting
  <1>12. ~SecureStart /\ ~PlainBegin
    BY <1>2 DEF SecureStart, PlainBegin
  <1>13. ~PlainGreeting /\ ~PlainAnswer /\ ~PlainSession
    BY <1>1, SidesFacts DEF PlainGreeting, PlainAnswer, PlainSession, PlainEnd
  <1>14. ~SecureSession /\ (s = "initiator" => ~Confirming)
    BY <1>1, SidesFacts DEF SecureSession, Confirming, Talking, Is
  <1> QED
    BY <1>7, <1>8, <1>9, <1>10, <1>11, <1>12, <1>13, <1>14, SidesFacts DEF ChannelInv

(* Texts in clear.                                                         *)
LEMMA PlainTexts ==
    ASSUME NEW a, NEW b
    PROVE  (Plain(a) = Plain(b) <=> a = b) /\ Plain(a).plain = a
  BY DEF Plain

(* The end that took a greeting is ready.                                  *)
LEMMA PlainReady ==
    ASSUME Shaped, NEW s \in Sides, NEW p, NEW x, NEW v, NEW w, ends[s].hs = Met(s, p, Nothing),
           ends' = [ends EXCEPT ![s].state = "ready", ![s].hs.rs = x],
           wires' = [wires EXCEPT ![s] = v, ![Peer(s)] = w]
    PROVE  /\ Shaped' /\ ends'[Peer(s)] = ends[Peer(s)] /\ wires'[s] = v /\ wires'[Peer(s)] = w
           /\ ends'[s].state = "ready" /\ ends'[s].hs = Met(s, p, x)
           /\ Config(ends'[s], ends[s]) /\ Traffic(ends'[s], ends[s])
  <1>1. [ends[s].hs EXCEPT !.rs = x] = Met(s, p, x)
    BY HandshakeFields DEF Met
  <1> DEFINE h == Met(s, p, x)
  <1>2. ends' = [ends EXCEPT ![s].state = "ready", ![s].hs = h]
    BY <1>1
  <1> HIDE DEF h
  <1>3. /\ ends' = [r \in Sides |-> ends'[r]] /\ ends'[Peer(s)] = ends[Peer(s)]
        /\ DOMAIN ends'[s] = EndFields /\ ends'[s].state = "ready" /\ ends'[s].hs = h
        /\ Config(ends'[s], ends[s]) /\ Traffic(ends'[s], ends[s])
    <2> DEFINE e == [ends[s] EXCEPT !.state = "ready", !.hs = h]
    <2>1. DOMAIN e = EndFields /\ e.state = "ready" /\ e.hs = h /\ Config(e, ends[s]) /\ Traffic(e, ends[s])
      BY DEF Shaped, EndFields, Config, Traffic
    <2>2. ends' = [ends EXCEPT ![s] = e]
      BY <1>2
    <2> HIDE DEF e
    <2> QED
      BY <2>1, <2>2, SidesFacts DEF Shaped
  <1>4. wires' = [r \in Sides |-> wires'[r]] /\ wires'[s] = v /\ wires'[Peer(s)] = w
    BY SidesFacts DEF Shaped
  <1> QED
    BY <1>3, <1>4, SidesFacts DEF Shaped, h

(* The plaintext handshake, message by message.                            *)
LEMMA PlainConsumeKeeps ==
    ASSUME ChannelInv, NEW s \in Sides, PlainConsume(s), mishaps' = mishaps
    PROVE  ChannelInv'
  <1> DEFINE m == Head(wires[s])
             reply == IF s = "responder" THEN <<append_message(ends[s])>> ELSE <<>>
             v == Tail(wires[s])
             w == wires[Peer(s)] \o reply
             p == P("initiator")
             q == P("responder")
  <1>1. ends[s].state = "handshake" /\ wires[s] # <<>> /\ ~ends[s].secure /\ ChannelTypes /\ Shaped
    BY DEF PlainConsume, ChannelInv, ChannelTypes
  <1>2. Open
    BY <1>1 DEF ChannelTypes, Open, Empty
  <1>3. ASSUME m[1] # Plain(ends[s].protocol) PROVE Closed(s)
    BY <1>3 DEF PlainConsume
  <1>4. ASSUME m[1] = Plain(ends[s].protocol)
        PROVE  /\ ends' = [ends EXCEPT ![s].state = "ready", ![s].hs.rs = m[2].plain]
               /\ wires' = [wires EXCEPT ![s] = v, ![Peer(s)] = w]
    <2>1. /\ ends' = [ends EXCEPT ![s].state = "ready", ![s].hs.rs = m[2].plain]
          /\ wires' = [wires EXCEPT ![s] = Tail(@), ![Peer(s)] = @ \o reply]
      BY <1>4, Zenon DEF PlainConsume
    <2> HIDE DEF reply
    <2>2. [wires EXCEPT ![s] = Tail(@), ![Peer(s)] = @ \o reply] = [wires EXCEPT ![s] = v, ![Peer(s)] = w]
      BY SidesFacts
    <2> QED
      BY <2>1, <2>2
  <1>5. mishaps = 0 /\ ((PlainGreeting /\ s = "responder") \/ (PlainAnswer /\ s = "initiator"))
    <2>1. ~SecureStart /\ ~Greeting /\ (\A t \in Payloads : ~Answering(t)) /\ ~Confirming /\ ~SecureSession
      BY <1>1, SidesFacts DEF SecureStart, Greeting, Answering, Confirming, SecureSession, Young, Talking
    <2>2. ~PlainBegin /\ ~PlainSession
      BY <1>1, SidesFacts DEF PlainBegin, PlainSession, PlainEnd, Is, Empty
    <2>3. (PlainGreeting => s = "responder") /\ (PlainAnswer => s = "initiator")
      BY <1>1, SidesFacts DEF PlainGreeting, PlainAnswer, PlainEnd, Is
    <2>4. mishaps = 0 /\ (PlainGreeting \/ PlainAnswer)
      BY <2>1, <2>2, Zenon DEF ChannelInv
    <2> QED
      BY <2>3, <2>4, Zenon
  <1>6. ASSUME NEW r \in Sides PROVE Hello(r)[1] = Plain(P(r)) /\ Hello(r)[2] = Plain(StaticOf(r))
    BY DEF Hello
  <1> HIDE DEF m, reply, v, w
  <1>7. ASSUME Shaped', ends'[Peer(s)] = ends[Peer(s)], ends'[s].state = "ready", Traffic(ends'[s], ends[s])
        PROVE  ChannelTypes'
    <2>1. Open'
      BY <1>2, <1>7, SidesFacts DEF Open
    <2> QED
      BY <1>1, <1>7, <2>1, SidesFacts DEF ChannelTypes, Open, Traffic
  <1>8. CASE PlainGreeting /\ s = "responder"
    <2>1. PlainEnd("responder", "handshake", Nothing) /\ m = Hello("initiator") /\ v = <<>> /\ wires["initiator"] = <<>>
      <3>1. PlainEnd("responder", "handshake", Nothing) /\ wires["responder"] = <<Hello("initiator")>> /\ wires["initiator"] = <<>>
        BY <1>1, <1>8 DEF PlainGreeting
      <3>2. \A x : Head(<<x>>) = x /\ Tail(<<x>>) = <<>>
        OBVIOUS
      <3> QED
        BY <1>8, <3>1, <3>2 DEF m, v
    <2>2. m[1] = Plain(p) /\ m[2].plain = "s1"
      BY <1>6, <2>1, PlainTexts, SidesFacts DEF StaticOf
    <2>3. CASE p # q
      <3>1. Closed(s)
        BY <1>3, <1>8, <2>2, <2>3, PlainTexts DEF P
      <3>2. /\ Shaped' /\ wires'["responder"] = <<>> /\ wires'["initiator"] = <<>>
            /\ ends'["initiator"] = ends["initiator"]
            /\ ends'["responder"].state = "closed" /\ ends'["responder"].hs = ends["responder"].hs
            /\ Config(ends'["responder"], ends["responder"]) /\ Traffic(ends'["responder"], ends["responder"])
        BY <1>1, <1>8, <3>1, ClosedEnds, SidesFacts
      <3>3. ChannelTypes'
        BY <1>1, <3>2, SidesFacts DEF ChannelTypes, Empty, Traffic
      <3>4. P("initiator")' = p /\ P("responder")' = q
        BY <3>2 DEF P, Config
      <3>5. PlainGreeting'
        BY <1>8, <2>1, <2>3, <3>2, <3>4 DEF PlainGreeting, PlainEnd, Is, Still, Config, Traffic
      <3> QED
        BY <1>5, <3>3, <3>5 DEF ChannelInv
    <2>4. CASE p = q
      <3>1. reply = <<Hello("responder")>>
        <4>1. ends["responder"].hs.s = "s2"
          BY <2>1 DEF PlainEnd, Is, Met, Handshake, StaticOf
        <4> QED
          BY <1>8, <4>1 DEF reply, append_message, Hello, P, StaticOf
      <3>2. w = Queue(Hello("responder"), PlainFrames, 0)
        <4>1. \A x : <<>> \o <<x>> = <<x>>
          OBVIOUS
        <4>2. w = <<Hello("responder")>>
          BY <1>8, <2>1, <3>1, <4>1, SidesFacts DEF w
        <4> QED
          BY <4>2, QueueFacts
      <3>3. ends' = [ends EXCEPT ![s].state = "ready", ![s].hs.rs = "s1"] /\ wires' = [wires EXCEPT ![s] = v, ![Peer(s)] = w]
        BY <1>4, <1>8, <2>2, <2>4 DEF P
      <3>4. ends[s].hs = Met(s, q, Nothing)
        BY <1>8, <2>1 DEF PlainEnd, Is
      <3> HIDE DEF p, q
      <3>5. /\ Shaped' /\ ends'[Peer(s)] = ends[Peer(s)] /\ wires'[s] = v /\ wires'[Peer(s)] = w
            /\ ends'[s].state = "ready" /\ ends'[s].hs = Met(s, q, "s1")
            /\ Config(ends'[s], ends[s]) /\ Traffic(ends'[s], ends[s])
        BY <1>1, <3>3, <3>4, PlainReady
      <3>6. P("initiator")' = p /\ P("responder")' = q
        BY <1>8, <3>5, SidesFacts DEF P, Config, p, q
      <3>7. ends'["responder"].sent = 0 /\ ends'["responder"].got = <<>>
        BY <1>8, <3>5 DEF PlainGreeting, Still, Traffic
      <3>8. PlainEnd("responder", "ready", "s1")' /\ PlainEnd("initiator", "handshake", Nothing)' /\ Still("initiator")'
        BY <1>8, <2>1, <3>5, <3>6, SidesFacts DEF PlainGreeting, PlainEnd, Is, Config, Traffic, Still, p, q
      <3>9. Hello("responder")' = Hello("responder")
        BY <3>6 DEF Hello, q
      <3>10. PlainAnswer'
        BY <1>8, <2>1, <2>4, <3>2, <3>5, <3>6, <3>7, <3>8, <3>9, SidesFacts DEF PlainAnswer
      <3> QED
        BY <1>5, <1>7, <3>5, <3>10 DEF ChannelInv
    <2> QED
      BY <2>3, <2>4
  <1>9. CASE PlainAnswer /\ s = "initiator"
    <2> DEFINE n == ends["responder"].sent
    <2>1. n \in Nat /\ ends["responder"].got = <<>> /\ ends["initiator"].got = <<>> /\ ends["initiator"].sent = 0 /\ p = q
      BY <1>1, <1>9, SidesFacts DEF ChannelTypes, PlainAnswer, Still
    <2>2. m = Hello("responder") /\ v = Pending(PlainFrames, 0, n) /\ w = <<>>
      <3>1. wires["initiator"] = Queue(Hello("responder"), PlainFrames, n) /\ wires["responder"] = <<>>
        BY <1>9 DEF PlainAnswer
      <3>2. <<>> \o <<>> = <<>>
        OBVIOUS
      <3>3. w = <<>>
        BY <1>9, <3>1, <3>2, SidesFacts DEF w, reply
      <3> HIDE DEF n
      <3> QED
        BY <1>9, <2>1, <3>1, <3>3, QueueFacts DEF m, v
    <2>3. m[1] = Plain(ends[s].protocol) /\ m[2].plain = "s2"
      BY <1>6, <1>9, <2>1, <2>2, PlainTexts, SidesFacts DEF StaticOf, P
    <2>4. ends' = [ends EXCEPT ![s].state = "ready", ![s].hs.rs = "s2"] /\ wires' = [wires EXCEPT ![s] = v, ![Peer(s)] = w]
      BY <1>4, <2>3
    <2>5. ends[s].hs = Met(s, p, Nothing)
      BY <1>9 DEF PlainAnswer, PlainEnd, Is
    <2> HIDE DEF p, q
    <2>6. /\ Shaped' /\ ends'[Peer(s)] = ends[Peer(s)] /\ wires'[s] = v /\ wires'[Peer(s)] = w
          /\ ends'[s].state = "ready" /\ ends'[s].hs = Met(s, p, "s2")
          /\ Config(ends'[s], ends[s]) /\ Traffic(ends'[s], ends[s])
      BY <1>1, <2>4, <2>5, PlainReady
    <2>7. P("initiator")' = p /\ P("responder")' = q
      BY <1>9, <2>6, SidesFacts DEF P, Config, p, q
    <2>8. PlainEnd("initiator", "ready", "s2")' /\ PlainEnd("responder", "ready", "s1")'
      BY <1>9, <2>6, <2>7, SidesFacts DEF PlainAnswer, PlainEnd, Is, Config, Traffic, p, q
    <2>9. /\ wires'["responder"] = Pending(PlainFrames, 0, 0) /\ wires'["initiator"] = Pending(PlainFrames, 0, n)
      <3>1. Pending(PlainFrames, 0, 0) = <<>>
        BY PendingFacts
      <3> QED
        BY <1>9, <2>2, <2>6, <3>1, SidesFacts
    <2>10. ends'["initiator"].got = <<>> /\ ends'["responder"].got = <<>> /\ ends'["initiator"].sent = 0 /\ ends'["responder"].sent = n
      BY <1>9, <2>1, <2>6, SidesFacts DEF Traffic
    <2>11. Len(<<>>) = 0 /\ StaticOf("initiator") = "s1" /\ StaticOf("responder") = "s2"
      BY DEF StaticOf
    <2>12. PlainSession'
      BY <2>1, <2>7, <2>8, <2>9, <2>10, <2>11, SidesFacts DEF PlainSession
    <2> QED
      BY <1>5, <1>7, <2>6, <2>12 DEF ChannelInv
  <1> QED
    BY <1>5, <1>8, <1>9

(* What the end that sends leaves behind.                                  *)
LEMMA SentEnd ==
    ASSUME Shaped, NEW s \in Sides, NEW c, NEW n, NEW f, ends' = [ends EXCEPT ![s].sent = n, ![s].send = c],
           wires' = [wires EXCEPT ![Peer(s)] = Append(@, f)]
    PROVE  /\ Shaped' /\ ends'[Peer(s)] = ends[Peer(s)] /\ wires'[s] = wires[s] /\ wires'[Peer(s)] = Append(wires[Peer(s)], f)
           /\ ends'[s].sent = n /\ ends'[s].send = c /\ ends'[s].recv = ends[s].recv /\ ends'[s].got = ends[s].got
           /\ ends'[s].state = ends[s].state /\ ends'[s].hs = ends[s].hs /\ Config(ends'[s], ends[s])
  <1> DEFINE e == [ends[s] EXCEPT !.sent = n, !.send = c]
             v == Append(wires[Peer(s)], f)
  <1>1. /\ DOMAIN e = EndFields /\ e.sent = n /\ e.send = c /\ e.recv = ends[s].recv /\ e.got = ends[s].got
        /\ e.state = ends[s].state /\ e.hs = ends[s].hs /\ Config(e, ends[s])
    BY DEF Shaped, EndFields, Config
  <1>2. ends' = [ends EXCEPT ![s] = e] /\ wires' = [wires EXCEPT ![Peer(s)] = v]
    OBVIOUS
  <1> HIDE DEF e, v
  <1>3. Shaped' /\ ends'[s] = e /\ ends'[Peer(s)] = ends[Peer(s)] /\ wires'[s] = wires[s] /\ wires'[Peer(s)] = v
    BY <1>1, <1>2, SidesFacts DEF Shaped
  <1> QED
    BY <1>1, <1>3 DEF v

(* Without a key a cipher neither seals nor counts.                        *)
LEMMA ClearText == Used(Cipher(NoKey)) = Cipher(NoKey) /\ ~has_key(Cipher(NoKey)) /\ \A x : encrypt_with_ad(Cipher(NoKey), <<>>, x) = Plain(x)
  <1>1. ~has_key(Cipher(NoKey))
    BY DEF has_key, Cipher
  <1> QED
    BY <1>1 DEF Used, encrypt_with_ad

(* The n-th frame of an end.                                               *)
LEMMA FrameAt ==
    ASSUME NEW s, NEW n \in Nat
    PROVE  /\ SecureFrames(s)[n] = Transport(s, n) /\ PlainFrames[n] = <<Plain(Data[n + 1])>>
           /\ Transport(s, n) \in Transported(s, n + 1) /\ Transported(s, n) \subseteq Transported(s, n + 1)
  <1>1. n \in 0..(n + 1 - 1) /\ 0..(n - 1) \subseteq 0..(n + 1 - 1)
    OBVIOUS
  <1>2. SecureFrames(s)[n] = Transport(s, n)
    BY DEF SecureFrames
  <1>3. PlainFrames[n] = <<Plain(Data[n + 1])>>
    BY DEF PlainFrames
  <1> QED
    BY <1>1, <1>2, <1>3 DEF Transported

(* Data sent.                                                              *)
LEMMA EncryptKeeps ==
    ASSUME ChannelInv, NEW s \in Sides, Encrypt(s), mishaps' = mishaps
    PROVE  ChannelInv'
  <1> DEFINE k == ends[s].sent
             c == Used(ends[s].send)
             f == <<encrypt_with_ad(ends[s].send, <<>>, Data[k + 1])>>
             p == P("initiator")
             q == P("responder")
  <1>1. ends[s].state = "ready" /\ k < Len(Data) /\ ends[Peer(s)].state # "closed" /\ ChannelTypes /\ Shaped
    BY DEF Encrypt, ChannelInv, ChannelTypes
  <1>2. k \in Nat /\ k + 1 \in 0..Len(Data)
    <2>1. k \in 0..Len(Data) /\ Len(Data) \in Nat
      BY <1>1, NoiseAssumption DEF ChannelTypes
    <2> QED
      BY <1>1, <2>1
  <1>3. ends' = [ends EXCEPT ![s].sent = k + 1, ![s].send = c] /\ wires' = [wires EXCEPT ![Peer(s)] = Append(@, f)]
    BY DEF Encrypt
  <1> HIDE DEF c, f
  <1>4. /\ Shaped' /\ ends'[Peer(s)] = ends[Peer(s)] /\ wires'[s] = wires[s] /\ wires'[Peer(s)] = Append(wires[Peer(s)], f)
        /\ ends'[s].sent = k + 1 /\ ends'[s].send = c /\ ends'[s].recv = ends[s].recv /\ ends'[s].got = ends[s].got
        /\ ends'[s].state = ends[s].state /\ ends'[s].hs = ends[s].hs /\ Config(ends'[s], ends[s])
    <2> HIDE DEF k
    <2> QED
      BY <1>1, <1>3, SentEnd
  <1>5. Open'
    BY <1>1, <1>4, SidesFacts DEF Open
  <1>6. ChannelTypes'
    <2>1. Peer(s) \in Sides /\ Peer(Peer(s)) = s
      BY SidesFacts
    <2>2. ends'[s].sent \in 0..Len(Data) /\ Len(ends'[Peer(s)].got) \in 0..ends'[s].sent
      BY <1>1, <1>2, <1>4, <2>1 DEF ChannelTypes
    <2>3. \A r \in Sides : r = s \/ r = Peer(s)
      BY SidesFacts
    <2> QED
      BY <1>1, <1>4, <1>5, <2>1, <2>2, <2>3 DEF ChannelTypes, Open
  <1>7. P("initiator")' = p /\ P("responder")' = q
    BY <1>4, SidesFacts DEF P, Config
  <1> HIDE DEF p, q
  <1>8. ASSUME Talking(s)
        PROVE  Talking(s)' /\ f = Transport(s, k)
    <2>1. ends[s].secure /\ ends[s].hs = Finished(s, P(s)) /\ ends[s].send = [key |-> SendKey(s), nonce |-> k]
          /\ ends[s].recv = [key |-> SendKey(Peer(s)), nonce |-> Len(ends[s].got)]
      BY <1>8 DEF Talking, Is
    <2>2. c = [key |-> SendKey(s), nonce |-> k + 1] /\ f = Transport(s, k)
      BY <1>2, <2>1, SessionOpens DEF c, f, Transport
    <2>3. P(s)' = P(s) /\ ends'[s].secure
      BY <1>4, <2>1 DEF P, Config
    <2> QED
      BY <1>1, <1>4, <2>1, <2>2, <2>3 DEF Talking, Is
  <1>9. ASSUME NEW x, NEW y, PlainEnd(s, x, y)
        PROVE  PlainEnd(s, x, y)' /\ f = PlainFrames[k]
    <2>1. ends[s].send = Cipher(NoKey)
      BY <1>9 DEF PlainEnd, Is
    <2>2. c = Cipher(NoKey) /\ f = PlainFrames[k]
      BY <1>2, <2>1, ClearText, FrameAt DEF c, f
    <2>3. P(s)' = P(s) /\ ends'[s].secure = ends[s].secure
      BY <1>4 DEF P, Config
    <2> QED
      BY <1>4, <1>9, <2>1, <2>2, <2>3 DEF PlainEnd, Is
  <1>10. ASSUME SecureSession PROVE ChannelInv'
    <2>1. Talking(s)' /\ f = Transport(s, k) /\ Talking(Peer(s))'
      <3>1. Talking(s) /\ Talking(Peer(s))
        BY <1>10, SidesFacts DEF SecureSession
      <3>2. Talking(Peer(s))'
        BY <1>4, <3>1 DEF Talking, Is, P
      <3> QED
        BY <1>8, <3>1, <3>2
    <2>2. /\ FromInitiator \subseteq FromInitiator' /\ FromResponder \subseteq FromResponder'
          /\ s = "initiator" => f \in FromInitiator'
          /\ s = "responder" => f \in FromResponder'
      <3>1. Transported(s, k) \subseteq Transported(s, k + 1) /\ f \in Transported(s, k + 1)
        BY <1>2, <2>1, FrameAt
      <3>2. Confirmations(P("initiator"))' = Confirmations(P("initiator")) /\ Answers(P("responder"), NoPayload)' = Answers(P("responder"), NoPayload)
        BY <1>7 DEF p, q
      <3>3. Transported("initiator", ends["initiator"].sent) \subseteq Transported("initiator", ends'["initiator"].sent)
            /\ Transported("responder", ends["responder"].sent) \subseteq Transported("responder", ends'["responder"].sent)
        BY <1>4, <3>1, SidesFacts
      <3> QED
        BY <1>4, <3>1, <3>2, <3>3 DEF FromInitiator, FromResponder
    <2>3. wires'["responder"] \in Seq(FromInitiator') /\ wires'["initiator"] \in Seq(FromResponder')
      <3>1. wires["responder"] \in Seq(FromInitiator') /\ wires["initiator"] \in Seq(FromResponder')
        BY <1>10, <2>2, SeqMonotonic DEF SecureSession
      <3>2. CASE s = "initiator"
        <4>1. wires'["responder"] = Append(wires["responder"], f) /\ wires'["initiator"] = wires["initiator"]
          BY <1>4, <3>2, SidesFacts
        <4>2. Append(wires["responder"], f) \in Seq(FromInitiator')
          BY <2>2, <3>1, <3>2, AppendProperties
        <4> QED
          BY <3>1, <4>1, <4>2
      <3>3. CASE s = "responder"
        <4>1. wires'["initiator"] = Append(wires["initiator"], f) /\ wires'["responder"] = wires["responder"]
          BY <1>4, <3>3, SidesFacts
        <4>2. Append(wires["initiator"], f) \in Seq(FromResponder')
          BY <2>2, <3>1, <3>3, AppendProperties
        <4> QED
          BY <3>1, <4>1, <4>2
      <3> QED
        BY <3>2, <3>3, SidesFacts
    <2>4. ASSUME mishaps = 0, NEW r \in Sides
          PROVE  wires'[Peer(r)] = Pending(SecureFrames(r), Len(ends'[Peer(r)].got), ends'[r].sent)
      <3>1. wires[Peer(r)] = Pending(SecureFrames(r), Len(ends[Peer(r)].got), ends[r].sent)
        BY <1>10, <2>4 DEF SecureSession
      <3>2. CASE r = s
        <4>1. Len(ends[Peer(s)].got) \in Nat /\ Len(ends[Peer(s)].got) <= k
          BY <1>1, <1>2, SidesFacts DEF ChannelTypes
        <4>2. f = SecureFrames(s)[k]
          BY <1>2, <2>1, FrameAt
        <4>3. Append(Pending(SecureFrames(s), Len(ends[Peer(s)].got), k), f) = Pending(SecureFrames(s), Len(ends[Peer(s)].got), k + 1)
          BY <1>2, <4>1, <4>2, PendingFacts
        <4> QED
          BY <1>4, <3>1, <3>2, <4>3
      <3>3. CASE r # s
        <4>1. r = Peer(s) /\ Peer(r) = s
          BY <3>3, SidesFacts
        <4> QED
          BY <1>4, <3>1, <4>1
      <3> QED
        BY <3>2, <3>3
    <2>5. P("initiator")' = P("responder")' /\ Talking("initiator")' /\ Talking("responder")'
      BY <1>7, <1>10, <2>1, SidesFacts DEF SecureSession, p, q
    <2>6. SecureSession'
      BY <1>5, <2>3, <2>4, <2>5 DEF SecureSession
    <2> QED
      BY <1>6, <2>6 DEF ChannelInv
  <1>11. ASSUME Confirming PROVE ChannelInv'
    <2>1. s = "initiator" /\ p = q /\ ends["initiator"].got = <<>> /\ ends["responder"].got = <<>>
      BY <1>1, <1>11, SidesFacts DEF Confirming, Young, Is, Still, p, q
    <2>2. Talking("initiator")' /\ f = Transport("initiator", k) /\ ends'["initiator"].got = <<>>
      BY <1>4, <1>8, <1>11, <2>1 DEF Confirming
    <2>3. Young("responder", Answered(P("responder"), NoPayload), {"handshake", "closed"})'
      BY <1>4, <1>7, <1>11, <2>1, SidesFacts DEF Confirming, Young, Is, Still, q
    <2>4. FromInitiator \subseteq FromInitiator' /\ f \in FromInitiator'
      <3>1. Transported("initiator", k) \subseteq Transported("initiator", k + 1) /\ f \in Transported("initiator", k + 1)
        BY <1>2, <2>2, FrameAt
      <3>2. Confirmations(P("initiator"))' = Confirmations(P("initiator"))
        BY <1>7 DEF p
      <3> QED
        BY <1>4, <2>1, <3>1, <3>2 DEF FromInitiator
    <2>5. wires'["responder"] \in Seq(FromInitiator')
      <3>1. wires["responder"] \in Seq(FromInitiator')
        BY <1>11, <2>4, SeqMonotonic DEF Confirming
      <3>2. Append(wires["responder"], f) \in Seq(FromInitiator')
        BY <2>4, <3>1, AppendProperties
      <3> QED
        BY <1>4, <2>1, <3>2, SidesFacts
    <2>6. wires'["initiator"] \in Seq(Answers(P("responder"), NoPayload)') /\ wires'["initiator"] = wires["initiator"]
      BY <1>4, <1>7, <1>11, <2>1 DEF Confirming, q
    <2>7. ASSUME mishaps = 0
          PROVE  wires'["responder"] = Queue(<<Static1(p), Payload3(p)>>, SecureFrames("initiator"), k + 1)
      <3>1. wires["responder"] = Queue(<<Static1(p), Payload3(p)>>, SecureFrames("initiator"), k)
        BY <1>11, <2>1, <2>7 DEF Confirming, p
      <3>2. f = SecureFrames("initiator")[k]
        BY <1>2, <2>2, FrameAt
      <3> DEFINE T == SecureFrames("initiator")
                 first == <<Static1(p), Payload3(p)>>
      <3>3. wires["responder"] = Queue(first, T, k) /\ f = T[k]
        BY <3>1, <3>2
      <3> HIDE DEF T, first, k
      <3>4. wires'["responder"] = Queue(first, T, k + 1)
        <4>1. Append(Queue(first, T, k), T[k]) = Queue(first, T, k + 1)
          BY <1>2, QueueFacts
        <4> QED
          BY <1>4, <2>1, <3>3, <4>1, SidesFacts
      <3> QED
        BY <3>4 DEF T, first
    <2>8. Confirming'
      BY <1>4, <1>5, <1>7, <1>11, <2>1, <2>2, <2>3, <2>5, <2>6, <2>7 DEF Confirming, p, q
    <2> QED
      BY <1>6, <2>8 DEF ChannelInv
  <1>12. ASSUME PlainAnswer, mishaps = 0 PROVE ChannelInv'
    <2>1. s = "responder" /\ p = q
      BY <1>1, <1>12, SidesFacts DEF PlainAnswer, PlainEnd, Is, p, q
    <2>2. PlainEnd("responder", "ready", "s1")' /\ f = PlainFrames[k]
      BY <1>9, <1>12, <2>1 DEF PlainAnswer
    <2>3. PlainEnd("initiator", "handshake", Nothing)' /\ Still("initiator")' /\ ends'["responder"].got = <<>>
      BY <1>4, <1>12, <2>1, SidesFacts DEF PlainAnswer, PlainEnd, Is, Still, P
    <2>4. wires'["responder"] = <<>>
      BY <1>4, <1>12, <2>1 DEF PlainAnswer
    <2>5. wires'["initiator"] = Queue(Hello("responder"), PlainFrames, k + 1) /\ Hello("responder")' = Hello("responder")
      <3>1. wires["initiator"] = Queue(Hello("responder"), PlainFrames, k)
        BY <1>12, <2>1 DEF PlainAnswer
      <3>2. Hello("responder")' = Hello("responder")
        BY <1>7 DEF Hello, q
      <3>3. Append(Queue(Hello("responder"), PlainFrames, k), PlainFrames[k]) = Queue(Hello("responder"), PlainFrames, k + 1)
        <4> HIDE DEF k
        <4> QED
          BY <1>2, QueueFacts
      <3> HIDE DEF k
      <3> QED
        BY <1>4, <2>1, <2>2, <3>1, <3>2, <3>3, SidesFacts
    <2>6. PlainAnswer'
      BY <1>4, <1>7, <2>1, <2>2, <2>3, <2>4, <2>5 DEF PlainAnswer
    <2> QED
      BY <1>6, <1>12, <2>6 DEF ChannelInv
  <1>13. ASSUME PlainSession, mishaps = 0 PROVE ChannelInv'
    <2>1. f = PlainFrames[k] /\ \A r \in Sides : PlainEnd(r, "ready", StaticOf(Peer(r)))'
      <3>1. PlainEnd(s, "ready", StaticOf(Peer(s)))' /\ f = PlainFrames[k]
        BY <1>9, <1>13 DEF PlainSession
      <3>2. PlainEnd(Peer(s), "ready", StaticOf(Peer(Peer(s))))'
        BY <1>4, <1>13, SidesFacts DEF PlainSession, PlainEnd, Is, P
      <3> QED
        BY <3>1, <3>2, SidesFacts
    <2>2. ASSUME NEW r \in Sides
          PROVE  wires'[Peer(r)] = Pending(PlainFrames, Len(ends'[Peer(r)].got), ends'[r].sent)
      <3>1. wires[Peer(r)] = Pending(PlainFrames, Len(ends[Peer(r)].got), ends[r].sent)
        BY <1>13, <2>2 DEF PlainSession
      <3>2. CASE r = s
        <4>1. Len(ends[Peer(s)].got) \in Nat /\ Len(ends[Peer(s)].got) <= k
          BY <1>1, <1>2, SidesFacts DEF ChannelTypes
        <4>2. Append(Pending(PlainFrames, Len(ends[Peer(s)].got), k), f) = Pending(PlainFrames, Len(ends[Peer(s)].got), k + 1)
          BY <1>2, <2>1, <4>1, PendingFacts
        <4> QED
          BY <1>4, <3>1, <3>2, <4>2
      <3>3. CASE r # s
        <4>1. r = Peer(s) /\ Peer(r) = s
          BY <3>3, SidesFacts
        <4> QED
          BY <1>4, <3>1, <4>1
      <3> QED
        BY <3>2, <3>3
    <2>3. PlainSession'
      BY <1>7, <1>13, <2>1, <2>2 DEF PlainSession, p, q
    <2> QED
      BY <1>6, <1>13, <2>3 DEF ChannelInv
  <1>14. ~SecureStart /\ ~Greeting /\ \A t \in Payloads : ~Answering(t)
    BY <1>1, SidesFacts DEF SecureStart, Greeting, Answering, Young, Is
  <1>15. ~PlainBegin /\ ~PlainGreeting
    BY <1>1, SidesFacts DEF PlainBegin, PlainGreeting, PlainEnd, Is
  <1> QED
    BY <1>10, <1>11, <1>12, <1>13, <1>14, <1>15, Zenon DEF ChannelInv

(* What the end that receives leaves behind.                               *)
LEMMA GotEnd ==
    ASSUME Shaped, NEW s \in Sides, NEW c, NEW g, NEW v, ends' = [ends EXCEPT ![s].recv = c, ![s].got = g],
           wires' = [wires EXCEPT ![s] = v]
    PROVE  /\ Shaped' /\ ends'[Peer(s)] = ends[Peer(s)] /\ wires'[s] = v /\ wires'[Peer(s)] = wires[Peer(s)]
           /\ ends'[s].sent = ends[s].sent /\ ends'[s].send = ends[s].send /\ ends'[s].recv = c /\ ends'[s].got = g
           /\ ends'[s].state = ends[s].state /\ ends'[s].hs = ends[s].hs /\ Config(ends'[s], ends[s])
  <1> DEFINE e == [ends[s] EXCEPT !.recv = c, !.got = g]
  <1>1. /\ DOMAIN e = EndFields /\ e.sent = ends[s].sent /\ e.send = ends[s].send /\ e.recv = c /\ e.got = g
        /\ e.state = ends[s].state /\ e.hs = ends[s].hs /\ Config(e, ends[s])
    BY DEF Shaped, EndFields, Config
  <1>2. ends' = [ends EXCEPT ![s] = e]
    OBVIOUS
  <1> HIDE DEF e
  <1>3. Shaped' /\ ends'[s] = e /\ ends'[Peer(s)] = ends[Peer(s)] /\ wires'[s] = v /\ wires'[Peer(s)] = wires[Peer(s)]
    BY <1>1, <1>2, SidesFacts DEF Shaped
  <1> QED
    BY <1>1, <1>3

(* Data received, or the connection closed.                                *)
LEMMA DecryptKeeps ==
    ASSUME ChannelInv, NEW s \in Sides, Decrypt(s), mishaps' = mishaps
    PROVE  ChannelInv'
  <1> DEFINE m == Head(wires[s])
             x == decrypt_with_ad(ends[s].recv, <<>>, LastOf(m))
             c == Used(ends[s].recv)
             g == Append(ends[s].got, x)
             a == Len(ends[s].got)
             n == ends[Peer(s)].sent
             v == Tail(wires[s])
             p == P("initiator")
             q == P("responder")
  <1>1. ends[s].state = "ready" /\ wires[s] # <<>> /\ ChannelTypes /\ Shaped
    BY DEF Decrypt, ChannelInv, ChannelTypes
  <1>2. Open
    BY <1>1 DEF ChannelTypes, Open, Empty
  <1>3. ASSUME x = Failed PROVE Closed(s)
    BY <1>3 DEF Decrypt, LastOf
  <1>4. ASSUME x # Failed PROVE ends' = [ends EXCEPT ![s].recv = c, ![s].got = g] /\ wires' = [wires EXCEPT ![s] = v]
    BY <1>4 DEF Decrypt, LastOf
  <1>5. a \in Nat /\ n \in Nat /\ a <= n /\ n <= Len(Data) /\ Len(Data) \in Nat /\ ends[s].got = SubSeq(Data, 1, a)
    <2>1. Len(Data) \in Nat /\ Peer(s) \in Sides
      BY NoiseAssumption, SidesFacts
    <2> QED
      BY <1>1, <2>1 DEF ChannelTypes
  <1> HIDE DEF m, x, c, g, a, n, v
  <1>6. ASSUME a < n, x = Data[a + 1]
        PROVE  /\ ChannelTypes' /\ Open'
               /\ ends'[Peer(s)] = ends[Peer(s)] /\ wires'[s] = v /\ wires'[Peer(s)] = wires[Peer(s)]
               /\ ends'[s].sent = ends[s].sent /\ ends'[s].send = ends[s].send /\ ends'[s].recv = c /\ Len(ends'[s].got) = a + 1
               /\ ends'[s].state = ends[s].state /\ ends'[s].hs = ends[s].hs /\ Config(ends'[s], ends[s])
    <2>1. x # Failed /\ g = SubSeq(Data, 1, a + 1) /\ Len(g) = a + 1
      BY <1>5, <1>6, DataPrefix DEF g
    <2>2. ends' = [ends EXCEPT ![s].recv = c, ![s].got = g] /\ wires' = [wires EXCEPT ![s] = v]
      BY <1>4, <2>1
    <2>3. /\ Shaped' /\ ends'[Peer(s)] = ends[Peer(s)] /\ wires'[s] = v /\ wires'[Peer(s)] = wires[Peer(s)]
          /\ ends'[s].sent = ends[s].sent /\ ends'[s].send = ends[s].send /\ ends'[s].recv = c /\ ends'[s].got = g
          /\ ends'[s].state = ends[s].state /\ ends'[s].hs = ends[s].hs /\ Config(ends'[s], ends[s])
      BY <1>1, <2>2, GotEnd
    <2>4. Open'
      BY <1>2, <2>3, SidesFacts DEF Open
    <2>5. Len(ends'[s].got) \in 0..ends'[Peer(s)].sent /\ ends'[s].got = SubSeq(Data, 1, Len(ends'[s].got))
      BY <1>5, <1>6, <2>1, <2>3 DEF n
    <2>6. \A r \in Sides : r = s \/ r = Peer(s)
      BY SidesFacts
    <2>7. Peer(s) \in Sides /\ Peer(Peer(s)) = s
      BY SidesFacts
    <2>8. ChannelTypes'
      BY <1>1, <2>3, <2>4, <2>5, <2>6, <2>7 DEF ChannelTypes, Open
    <2> QED
      BY <2>1, <2>3, <2>4, <2>8
  <1>7. ASSUME NEW T, wires[s] = Pending(T, a, n)
        PROVE  a < n /\ m = T[a] /\ v = Pending(T, a + 1, n)
    <2>1. a = n => Pending(T, a, n) = <<>>
      BY <1>5, PendingFacts
    <2>2. a < n
      BY <1>1, <1>5, <1>7, <2>1
    <2>3. Head(Pending(T, a, n)) = T[a] /\ Tail(Pending(T, a, n)) = Pending(T, a + 1, n)
      BY <1>5, <2>2, PendingFacts
    <2> QED
      BY <1>7, <2>2, <2>3 DEF m, v
  <1>8. CASE Confirming
    <2>1. s = "initiator" /\ m \in Answers(q, NoPayload) /\ mishaps # 0
      BY <1>1, <1>8, SidesFacts DEF Confirming, Young, Is, m
    <2>2. ends[s].recv = [key |-> SendKey("responder"), nonce |-> a]
      BY <1>8, <2>1, SidesFacts DEF Confirming, Talking, Is, a
    <2>3. x = Failed
      BY <1>5, <2>1, <2>2, HandshakeFramesRefused, SidesFacts DEF x
    <2> QED
      BY <1>1, <1>3, <2>1, <2>3, ClosedKeeps
  <1>9. CASE SecureSession
    <2>1. ends[s].recv = [key |-> SendKey(Peer(s)), nonce |-> a] /\ Talking(s) /\ Talking(Peer(s))
      BY <1>9, SidesFacts DEF SecureSession, Talking, Is, a
    <2>2. ASSUME mishaps = 0
          PROVE  a < n /\ m = Transport(Peer(s), a) /\ v = Pending(SecureFrames(Peer(s)), a + 1, n)
      <3>1. wires[s] = Pending(SecureFrames(Peer(s)), a, n)
        BY <1>9, <2>2, SidesFacts DEF SecureSession, a, n
      <3>2. a < n /\ m = SecureFrames(Peer(s))[a] /\ v = Pending(SecureFrames(Peer(s)), a + 1, n)
        BY <1>7, <3>1
      <3> QED
        BY <1>5, <3>2, FrameAt
    <2>3. CASE x = Failed
      <3>1. mishaps # 0
        <4>1. ASSUME mishaps = 0 PROVE FALSE
          <5>1. x = Data[a + 1]
            BY <1>5, <2>1, <2>2, <4>1, SessionOpensNext, SidesFacts DEF x
          <5>2. Data[a + 1] # Failed
            BY <1>5, <2>2, <4>1, DataPrefix
          <5> QED
            BY <2>3, <5>1, <5>2
        <4> QED
          BY <4>1
      <3> QED
        BY <1>1, <1>3, <2>3, <3>1, ClosedKeeps
    <2>4. CASE x # Failed
      <3>1. m \in FramesOf(Peer(s), n, p, NoPayload) /\ p = q
        <4>1. p = q /\ wires["responder"] \in Seq(FromInitiator) /\ wires["initiator"] \in Seq(FromResponder)
          BY <1>9 DEF SecureSession
        <4>2. CASE s = "initiator"
          <5>1. m \in FromResponder
            BY <1>1, <4>1, <4>2 DEF m
          <5> QED
            BY <4>1, <4>2, <5>1, SidesFacts DEF FromResponder, FramesOf, n
        <4>3. CASE s = "responder"
          <5>1. m \in FromInitiator
            BY <1>1, <4>1, <4>3 DEF m
          <5> QED
            BY <4>1, <4>3, <5>1, SidesFacts DEF FromInitiator, FramesOf, n
        <4> QED
          BY <4>2, <4>3, SidesFacts
      <3>2. a < n /\ x = Data[a + 1]
        <4>1. x = ReadAs(Peer(s), a, m)
          BY <2>1 DEF x, ReadAs
        <4>2. Peer(s) \in Sides
          BY SidesFacts
        <4> HIDE DEF p, q
        <4> QED
          BY <1>5, <2>4, <3>1, <4>1, <4>2, TransportRead
      <3>3. /\ ChannelTypes' /\ Open'
            /\ ends'[Peer(s)] = ends[Peer(s)] /\ wires'[s] = v /\ wires'[Peer(s)] = wires[Peer(s)]
            /\ ends'[s].sent = ends[s].sent /\ ends'[s].send = ends[s].send /\ ends'[s].recv = c /\ Len(ends'[s].got) = a + 1
            /\ ends'[s].state = ends[s].state /\ ends'[s].hs = ends[s].hs /\ Config(ends'[s], ends[s])
        BY <1>6, <3>2
      <3>4. P("initiator")' = p /\ P("responder")' = q
        BY <3>3, SidesFacts DEF P, Config
      <3>5. Talking(s)'
        <4>1. c = [key |-> SendKey(Peer(s)), nonce |-> a + 1]
          BY <1>5, <2>1, SessionOpens, SidesFacts DEF c
        <4>2. ends[s].secure /\ ends[s].hs = Finished(s, P(s)) /\ ends[s].send = [key |-> SendKey(s), nonce |-> ends[s].sent]
          BY <2>1 DEF Talking, Is
        <4>3. P(s)' = P(s) /\ ends'[s].secure
          BY <3>3, <4>2 DEF P, Config
        <4> QED
          BY <1>1, <3>3, <4>1, <4>2, <4>3 DEF Talking, Is
      <3>6. Talking(Peer(s))'
        BY <2>1, <3>3 DEF Talking, Is, P
      <3>7. FromInitiator' = FromInitiator /\ FromResponder' = FromResponder
        BY <3>3, <3>4, SidesFacts DEF FromInitiator, FromResponder
      <3>8. wires'["responder"] \in Seq(FromInitiator) /\ wires'["initiator"] \in Seq(FromResponder)
        <4>1. wires["responder"] \in Seq(FromInitiator) /\ wires["initiator"] \in Seq(FromResponder)
          BY <1>9 DEF SecureSession
        <4>2. \A F : wires[s] \in Seq(F) => v \in Seq(F)
          BY <1>1 DEF v
        <4> QED
          BY <3>3, <4>1, <4>2, SidesFacts
      <3>9. ASSUME mishaps = 0, NEW r \in Sides
            PROVE  wires'[Peer(r)] = Pending(SecureFrames(r), Len(ends'[Peer(r)].got), ends'[r].sent)
        <4>1. CASE r = s
          <5>1. wires[Peer(s)] = Pending(SecureFrames(s), Len(ends[Peer(s)].got), ends[s].sent)
            BY <1>9, <3>9 DEF SecureSession
          <5> QED
            BY <3>3, <4>1, <5>1
        <4>2. CASE r # s
          <5>1. r = Peer(s) /\ Peer(r) = s
            BY <4>2, SidesFacts
          <5> QED
            BY <2>2, <3>3, <3>9, <5>1 DEF n
        <4> QED
          BY <4>1, <4>2
      <3>10. Talking("initiator")' /\ Talking("responder")'
        BY <3>5, <3>6, SidesFacts
      <3>11. SecureSession'
        BY <3>1, <3>3, <3>4, <3>7, <3>8, <3>9, <3>10 DEF SecureSession
      <3> QED
        BY <3>3, <3>11 DEF ChannelInv
    <2> QED
      BY <2>3, <2>4
  <1>10. ASSUME PlainSession, mishaps = 0 PROVE ChannelInv'
    <2>1. PlainEnd(s, "ready", StaticOf(Peer(s))) /\ PlainEnd(Peer(s), "ready", StaticOf(s)) /\ ends[s].recv = Cipher(NoKey)
      BY <1>10, SidesFacts DEF PlainSession, PlainEnd, Is
    <2>2. a < n /\ m = <<Plain(Data[a + 1])>> /\ v = Pending(PlainFrames, a + 1, n)
      <3>1. wires[s] = Pending(PlainFrames, a, n)
        BY <1>10, SidesFacts DEF PlainSession, a, n
      <3> QED
        BY <1>5, <1>7, <3>1, FrameAt
    <2>3. c = Cipher(NoKey) /\ x = Data[a + 1]
      <3>1. LastOf(m) = Plain(Data[a + 1])
        BY <2>2 DEF LastOf
      <3>2. x = LastOf(m).plain
        BY <2>1, ClearText DEF x, decrypt_with_ad
      <3> QED
        BY <2>1, <3>1, <3>2, ClearText, PlainTexts DEF c
    <2>4. /\ ChannelTypes' /\ Open'
          /\ ends'[Peer(s)] = ends[Peer(s)] /\ wires'[s] = v /\ wires'[Peer(s)] = wires[Peer(s)]
          /\ ends'[s].sent = ends[s].sent /\ ends'[s].send = ends[s].send /\ ends'[s].recv = c /\ Len(ends'[s].got) = a + 1
          /\ ends'[s].state = ends[s].state /\ ends'[s].hs = ends[s].hs /\ Config(ends'[s], ends[s])
      BY <1>6, <2>2, <2>3
    <2>5. P("initiator")' = P("responder")' /\ P(s)' = P(s)
      BY <1>10, <2>4, SidesFacts DEF P, Config, PlainSession
    <2>6. PlainEnd(s, "ready", StaticOf(Peer(s)))' /\ PlainEnd(Peer(s), "ready", StaticOf(s))'
      BY <2>1, <2>3, <2>4, <2>5 DEF PlainEnd, Is, P, Config
    <2>7. ASSUME NEW r \in Sides
          PROVE  /\ PlainEnd(r, "ready", StaticOf(Peer(r)))'
                 /\ wires'[Peer(r)] = Pending(PlainFrames, Len(ends'[Peer(r)].got), ends'[r].sent)
      <3>1. CASE r = s
        <4>1. wires[Peer(s)] = Pending(PlainFrames, Len(ends[Peer(s)].got), ends[s].sent)
          BY <1>10 DEF PlainSession
        <4> QED
          BY <2>4, <2>6, <3>1, <4>1
      <3>2. CASE r # s
        <4>1. r = Peer(s) /\ Peer(r) = s
          BY <3>2, SidesFacts
        <4> QED
          BY <2>2, <2>4, <2>6, <4>1 DEF n
      <3> QED
        BY <3>1, <3>2
    <2>8. PlainSession'
      BY <2>5, <2>7 DEF PlainSession
    <2> QED
      BY <1>10, <2>4, <2>8 DEF ChannelInv
  <1>11. ~SecureStart /\ ~Greeting /\ \A t \in Payloads : ~Answering(t)
    BY <1>1, SidesFacts DEF SecureStart, Greeting, Answering, Young, Is
  <1>12. ~PlainBegin /\ ~PlainGreeting /\ ~PlainAnswer
    BY <1>1, SidesFacts DEF PlainBegin, PlainGreeting, PlainAnswer, PlainEnd, Is
  <1> QED
    BY <1>8, <1>9, <1>10, <1>11, <1>12, Zenon DEF ChannelInv

(* Two ends before the handshake.                                          *)
LEMMA ChannelInit == NoiseInit => ChannelInv
  <1> SUFFICES ASSUME NoiseInit PROVE ChannelInv
    OBVIOUS
  <1>1. PICK p \in Protocols, q \in Protocols, secure \in BOOLEAN :
          ends = [s \in Sides |-> End(s, IF s = "initiator" THEN p ELSE q, secure)]
    BY DEF NoiseInit
  <1>2. wires = [s \in Sides |-> <<>>] /\ mishaps = 0
    BY DEF NoiseInit
  <1>3. ends["initiator"] = End("initiator", p, secure) /\ ends["responder"] = End("responder", q, secure)
    BY <1>1, SidesFacts
  <1>4. ASSUME NEW s \in Sides, NEW z
        PROVE  /\ DOMAIN End(s, z, secure) = EndFields
               /\ End(s, z, secure).protocol = z /\ End(s, z, secure).secure = secure
               /\ End(s, z, secure).state = (IF s = "initiator" THEN "start" ELSE "handshake")
               /\ End(s, z, secure).send = Cipher(NoKey) /\ End(s, z, secure).recv = Cipher(NoKey)
               /\ End(s, z, secure).sent = 0 /\ End(s, z, secure).got = <<>>
               /\ End(s, z, secure).hs = initialize(s, z)
    BY DEF End, EndFields
  <1>5. ASSUME NEW s \in Sides, NEW z PROVE initialize(s, z) = Begun(s, z) /\ Begun(s, z) = Met(s, z, Nothing)
    <2>1. ("open" = "complete") = FALSE
      OBVIOUS
    <2>2. initialize(s, z) = Begun(s, z)
      BY <2>1 DEF initialize, Begun, Handshake, Hash2
    <2> QED
      BY <2>2 DEF Begun, Met
  <1>6. Still("initiator") /\ Still("responder") /\ Empty
    BY <1>2, <1>3, <1>4, SidesFacts DEF Still, Empty
  <1>7. Open
    BY <1>3, <1>4, SidesFacts DEF Open
  <1>8. ChannelTypes
    <2>1. Shaped
      BY <1>1, <1>2, <1>3, <1>4, SidesFacts DEF Shaped
    <2>2. Len(Data) \in Nat /\ Len(<<>>) = 0 /\ SubSeq(Data, 1, 0) = <<>>
      BY NoiseAssumption
    <2>3. ASSUME NEW s \in Sides
          PROVE  /\ ends[s].sent \in 0..Len(Data) /\ Len(ends[s].got) \in 0..ends[Peer(s)].sent
                 /\ ends[s].got = SubSeq(Data, 1, Len(ends[s].got))
      <3>1. ends[s].sent = 0 /\ ends[Peer(s)].sent = 0 /\ ends[s].got = <<>>
        BY <1>6, SidesFacts DEF Still
      <3> QED
        BY <2>2, <3>1
    <2> QED
      BY <1>2, <1>7, <2>1, <2>3 DEF ChannelTypes, Open
  <1>9. CASE secure
    <2>1. /\ ends["initiator"].hs = Begun("initiator", P("initiator")) /\ ends["initiator"].state = "start" /\ ends["initiator"].secure
          /\ ends["responder"].hs = Begun("responder", P("responder")) /\ ends["responder"].state = "handshake" /\ ends["responder"].secure
      <3>1. ends["initiator"].secure = secure /\ ends["responder"].secure = secure
        <4>1. \A s, z : End(s, z, secure).secure = secure
          BY Zenon DEF End
        <4> QED
          BY <1>3, <4>1, Zenon
      <3>2. ends["initiator"].hs = initialize("initiator", p) /\ ends["responder"].hs = initialize("responder", q)
        BY <1>3, <1>4, SidesFacts
      <3>3. P("initiator") = p /\ P("responder") = q /\ ends["initiator"].state = "start" /\ ends["responder"].state = "handshake"
        BY <1>3, <1>4, SidesFacts DEF P
      <3> QED
        BY <1>5, <1>9, <3>1, <3>2, <3>3, SidesFacts
    <2>2. \A s \in Sides : ends[s].send = Cipher(NoKey) /\ ends[s].recv = Cipher(NoKey)
      BY <1>3, <1>4, SidesFacts
    <2>3. SecureStart
      BY <1>6, <2>1, <2>2, SidesFacts DEF SecureStart, Young, Is
    <2> QED
      BY <1>8, <2>3 DEF ChannelInv
  <1>10. CASE ~secure
    <2>1. /\ ends["initiator"].hs = Met("initiator", P("initiator"), Nothing) /\ ends["initiator"].state = "start" /\ ~ends["initiator"].secure
          /\ ends["responder"].hs = Met("responder", P("responder"), Nothing) /\ ends["responder"].state = "handshake" /\ ~ends["responder"].secure
      <3>1. ends["initiator"].secure = secure /\ ends["responder"].secure = secure
        <4>1. \A s, z : End(s, z, secure).secure = secure
          BY Zenon DEF End
        <4> QED
          BY <1>3, <4>1, Zenon
      <3>2. ends["initiator"].hs = initialize("initiator", p) /\ ends["responder"].hs = initialize("responder", q)
        BY <1>3, <1>4, SidesFacts
      <3>3. P("initiator") = p /\ P("responder") = q /\ ends["initiator"].state = "start" /\ ends["responder"].state = "handshake"
        BY <1>3, <1>4, SidesFacts DEF P
      <3> QED
        BY <1>5, <1>10, <3>1, <3>2, <3>3, SidesFacts
    <2>2. \A s \in Sides : ends[s].send = Cipher(NoKey) /\ ends[s].recv = Cipher(NoKey)
      BY <1>3, <1>4, SidesFacts
    <2>3. PlainBegin
      BY <1>6, <2>1, <2>2, SidesFacts DEF PlainBegin, PlainEnd, Is
    <2> QED
      BY <1>2, <1>8, <2>3 DEF ChannelInv
  <1> QED
    BY <1>9, <1>10

(* Authentic, from the stages.                                             *)
LEMMA ChannelAuthentic == ChannelInv => Authentic
  <1> SUFFICES ASSUME ChannelInv PROVE Authentic
    OBVIOUS
  <1>1. ASSUME NEW s \in Sides, Talking(s)
        PROVE  /\ ends[s].hs.rs = StaticOf(Peer(s)) /\ ends[s].hs.h = Hash9(P(s)) /\ ends[s].secure
               /\ ends[s].send.key = SendKey(s) /\ ends[s].recv.key = SendKey(Peer(s))
    BY <1>1 DEF Talking, Is, Finished, Handshake
  <1>2. ASSUME NEW s \in Sides, NEW x, NEW rs, PlainEnd(s, x, rs)
        PROVE  /\ ends[s].hs.rs = rs /\ ends[s].hs.h = Hash2(P(s)) /\ ~ends[s].secure
               /\ ends[s].send.key = NoKey /\ ends[s].recv.key = NoKey
    BY <1>2 DEF PlainEnd, Is, Met, Handshake, Cipher
  <1>3. SendKey("initiator") # SendKey("responder")
    BY Keys DEF SendKey
  <1>4. CASE SecureStart \/ Greeting \/ (\E t \in Payloads : Answering(t)) \/ PlainBegin \/ PlainGreeting
    <2>1. \A s \in Sides : ends[s].state # "ready"
      BY <1>4, SidesFacts DEF SecureStart, Greeting, Answering, PlainBegin, PlainGreeting, Young, PlainEnd, Is
    <2> QED
      BY <2>1, SidesFacts DEF Authentic
  <1>5. CASE Confirming
    <2>1. ends["responder"].state # "ready" /\ P("initiator") = P("responder") /\ Talking("initiator")
      BY <1>5 DEF Confirming, Young, Is
    <2>2. ends["initiator"].hs.rs = StaticOf("responder")
      BY <1>1, <2>1, SidesFacts
    <2> QED
      BY <2>1, <2>2, SidesFacts DEF Authentic, P
  <1>6. CASE SecureSession
    <2>1. P("initiator") = P("responder") /\ Talking("initiator") /\ Talking("responder")
      BY <1>6 DEF SecureSession
    <2>2. ends["initiator"].hs.h = ends["responder"].hs.h
      BY <1>1, <2>1, SidesFacts
    <2>3. \A s \in Sides : ends[s].hs.rs = StaticOf(Peer(s)) /\ ends[s].protocol = ends[Peer(s)].protocol /\ ends[s].send.key = SendKey(s)
                           /\ ends[s].recv.key = SendKey(Peer(s))
      BY <1>1, <2>1, SidesFacts DEF P
    <2> QED
      BY <1>3, <2>2, <2>3, SidesFacts DEF Authentic
  <1>7. CASE PlainAnswer
    <2>1. ends["initiator"].state # "ready" /\ P("initiator") = P("responder") /\ PlainEnd("responder", "ready", "s1")
      BY <1>7 DEF PlainAnswer, PlainEnd, Is
    <2>2. ends["responder"].hs.rs = StaticOf("initiator")
      BY <1>2, <2>1, SidesFacts DEF StaticOf
    <2> QED
      BY <2>1, <2>2, SidesFacts DEF Authentic, P
  <1>8. CASE PlainSession
    <2>1. P("initiator") = P("responder") /\ \A s \in Sides : PlainEnd(s, "ready", StaticOf(Peer(s)))
      BY <1>8 DEF PlainSession
    <2>2. ends["initiator"].hs.h = ends["responder"].hs.h /\ ~ends["initiator"].secure
      BY <1>2, <2>1, SidesFacts
    <2>3. \A s \in Sides : ends[s].hs.rs = StaticOf(Peer(s)) /\ ends[s].protocol = ends[Peer(s)].protocol /\ ends[s].send.key = NoKey
                           /\ ends[s].recv.key = NoKey
      BY <1>2, <2>1, SidesFacts DEF P
    <2> QED
      BY <2>2, <2>3, SidesFacts DEF Authentic
  <1> QED
    BY <1>4, <1>5, <1>6, <1>7, <1>8, Zenon DEF ChannelInv

(* Undisturbed, from the stages: with no frame under way and no mishap.    *)
LEMMA ChannelUndisturbed == ChannelInv => Undisturbed
  <1> SUFFICES ASSUME ChannelInv, mishaps = 0, wires = [s \in Sides |-> <<>>], ends["initiator"].state # "start", NEW s \in Sides
               PROVE  IF P(s) = P(Peer(s)) THEN ends[s].state = "ready" /\ Len(ends[s].got) = ends[Peer(s)].sent
                      ELSE ends[s].state # "ready"
    BY DEF Undisturbed, P
  <1>1. wires["initiator"] = <<>> /\ wires["responder"] = <<>> /\ wires[s] = <<>>
    BY SidesFacts
  <1>2. \A x : <<x>> # <<>>
    OBVIOUS
  <1>3. \A r \in Sides : ends[r].sent \in Nat /\ Len(ends[r].got) \in Nat /\ Len(ends[r].got) <= ends[Peer(r)].sent
    <2>1. Len(Data) \in Nat
      BY NoiseAssumption
    <2> QED
      BY <2>1, SidesFacts DEF ChannelInv, ChannelTypes
  <1>4. ASSUME NEW T, NEW a \in Nat, NEW b \in Nat, a < b PROVE Pending(T, a, b) # <<>>
    BY <1>4 DEF Pending
  <1>5. \A f, T : \A n \in Nat : Queue(f, T, n) # <<>>
    BY QueueFacts
  <1>6. ~SecureStart /\ ~PlainBegin
    BY DEF SecureStart, PlainBegin, Young, PlainEnd, Is
  <1>7. ~Greeting
    BY <1>1, <1>2 DEF Greeting
  <1>8. ~Confirming
    BY <1>1, <1>3, <1>5, SidesFacts DEF Confirming
  <1>9. ~PlainAnswer
    BY <1>1, <1>3, <1>5, SidesFacts DEF PlainAnswer
  <1>10. ASSUME NEW t \in Payloads, Answering(t) PROVE P(s) # P(Peer(s)) /\ ends[s].state # "ready"
    BY <1>1, <1>2, <1>10, SidesFacts DEF Answering, Young, Is
  <1>11. ASSUME PlainGreeting PROVE P(s) # P(Peer(s)) /\ ends[s].state # "ready"
    BY <1>1, <1>2, <1>11, SidesFacts DEF PlainGreeting, PlainEnd, Is
  <1>12. ASSUME SecureSession PROVE P(s) = P(Peer(s)) /\ ends[s].state = "ready" /\ Len(ends[s].got) = ends[Peer(s)].sent
    <2>1. P(s) = P(Peer(s)) /\ ends[s].state = "ready"
      BY <1>12, SidesFacts DEF SecureSession, Talking, Is, Open
    <2>2. Pending(SecureFrames(Peer(s)), Len(ends[s].got), ends[Peer(s)].sent) = <<>>
      <3>1. Peer(s) \in Sides /\ Peer(Peer(s)) = s
        BY SidesFacts
      <3> QED
        BY <1>1, <1>12, <3>1 DEF SecureSession
    <2> QED
      BY <1>3, <1>4, <2>1, <2>2, SidesFacts
  <1>13. ASSUME PlainSession PROVE P(s) = P(Peer(s)) /\ ends[s].state = "ready" /\ Len(ends[s].got) = ends[Peer(s)].sent
    <2>1. P(s) = P(Peer(s)) /\ ends[s].state = "ready"
      BY <1>13, SidesFacts DEF PlainSession, PlainEnd, Is
    <2>2. Pending(PlainFrames, Len(ends[s].got), ends[Peer(s)].sent) = <<>>
      <3>1. Peer(s) \in Sides /\ Peer(Peer(s)) = s
        BY SidesFacts
      <3> QED
        BY <1>1, <1>13, <3>1 DEF PlainSession
    <2> QED
      BY <1>3, <1>4, <2>1, <2>2, SidesFacts
  <1>14. (\E t \in Payloads : Answering(t)) \/ PlainGreeting \/ SecureSession \/ PlainSession
    BY <1>6, <1>7, <1>8, <1>9, Zenon DEF ChannelInv
  <1> QED
    BY <1>10, <1>11, <1>12, <1>13, <1>14

(* One step per action.                                                    *)
LEMMA ChannelStep == ChannelInv /\ [NoiseNext]_noiseVars => ChannelInv'
  <1> SUFFICES ASSUME ChannelInv, [NoiseNext]_noiseVars PROVE ChannelInv'
    OBVIOUS
  <1>1. CASE HandshakeStart /\ mishaps' = mishaps
    BY <1>1, HandshakeBegins
  <1>2. CASE PlainStart /\ mishaps' = mishaps
    BY <1>2, HandshakeBegins
  <1>3. ASSUME NEW s \in Sides, Consume(s), mishaps' = mishaps PROVE ChannelInv'
    BY <1>3, ConsumeKeeps
  <1>4. ASSUME NEW s \in Sides, PlainConsume(s), mishaps' = mishaps PROVE ChannelInv'
    BY <1>4, PlainConsumeKeeps
  <1>5. ASSUME NEW s \in Sides, Encrypt(s), mishaps' = mishaps PROVE ChannelInv'
    BY <1>5, EncryptKeeps
  <1>6. ASSUME NEW s \in Sides, Decrypt(s), mishaps' = mishaps PROVE ChannelInv'
    BY <1>6, DecryptKeeps
  <1>7. ASSUME NEW s \in Sides, Mishap(s) PROVE ChannelInv'
    BY <1>7, MishapKeeps
  <1>8. CASE UNCHANGED noiseVars
    BY <1>8 DEF noiseVars, ChannelInv, ChannelTypes, Shaped, SecureStart, Greeting, Answering, Confirming, SecureSession,
       PlainBegin, PlainGreeting, PlainAnswer, PlainSession, Young, Talking, Is, Still, P, Open, Empty, PlainEnd, Hello, FromInitiator, FromResponder
  <1> QED
    BY <1>1, <1>2, <1>3, <1>4, <1>5, <1>6, <1>7, <1>8 DEF NoiseNext

(* NoiseHandshaker, PlaintextHandshaker and the session after: whatever    *)
(* is damaged, lost or repeated, an end that is ready talks to the holder  *)
(* of the key it saw, both hold each other's ciphers, data arrives in      *)
(* order without gaps, and undisturbed all of it does; for any data,       *)
(* protocols and number of mishaps.                                        *)
THEOREM ChannelSecure == NoiseSpec => []SecureChannel
  <1>1. ChannelInv => SecureChannel
    <2>1. ChannelInv => ReadInOrder
      <3>1. Len(Data) \in Nat
        BY NoiseAssumption
      <3> QED
        BY <3>1, SidesFacts DEF ChannelInv, ChannelTypes, ReadInOrder
    <2> QED
      BY <2>1, ChannelAuthentic, ChannelUndisturbed DEF SecureChannel
  <1> QED
    BY <1>1, ChannelInit, ChannelStep, PTL DEF NoiseSpec

=============================================================================
