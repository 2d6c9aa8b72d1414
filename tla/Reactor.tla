------------------------------- MODULE Reactor -------------------------------
(***************************************************************************)
(* One reactor thread: the event loop that owns a shard of connections.    *)
(*                                                                         *)
(* A tick is poll, drain the posted tasks, handle the ready sockets, run   *)
(* the due timers, tear down what was marked for close.  Three maps are    *)
(* keyed by the socket descriptor (conns_, pending_close_, the establish   *)
(* timers), and the operating system hands a closed descriptor out again,  *)
(* so the module keeps descriptors and connection ids apart.               *)
(*                                                                         *)
(* What travels over a connection is in module Connection; here an event   *)
(* on a socket either leaves the connection where it is, moves it one      *)
(* state on, or fails it.  MaxStarts bounds how often the reactor is       *)
(* started, MaxConns and MaxPosts the adopted connections and the          *)
(* outstanding posted tasks.                                               *)
(***************************************************************************)
EXTENDS Naturals, Sequences, FiniteSets

CONSTANTS
    Fds,             \* socket descriptors
    MaxConns,        \* bound on next_conn_id_
    MaxPosts,        \* bound on the task queue
    MaxStarts,       \* how often start() is called
    Timeout,         \* kEstablishTimeout in clock ticks
    NoFd             \* no descriptor

ASSUME ReactorAssumption ==
    /\ MaxConns \in Nat \ {0} /\ MaxPosts \in Nat /\ MaxStarts \in Nat
    /\ Timeout \in Nat \ {0}
    /\ NoFd \notin Fds

VARIABLES
    running,   \* running_, cleared by stop() from any thread
    phase,     \* where the loop is
    starts,    \* calls of start() so far
    tasks,     \* tasks_: the MPSC queue
    scratch,   \* the batch of tasks being run
    ready,     \* descriptors the poller reported this tick
    conns,     \* conns_: descriptor -> connection id, 0 if none
    state,     \* ConnState of every connection id
    nextId,    \* next_conn_id_
    pending,   \* pending_close_: descriptors marked for close
    batch,     \* the batch process_pending_close works through
    timers,    \* heap_: establish timers [tid, fd, left], tid names the timer
    cancelled, \* cancelled_: tombstones of timer ids
    armed,     \* connections whose establish_timer_ is set
    asked,     \* ghost: ids some code path asked to close
    inline,    \* ghost: an on_closed handler has closed a connection inline
    closed     \* ghost: on_closed calls per connection

loopVars == <<running, phase, starts, tasks, scratch, ready>>
connVars == <<conns, state, nextId, closed>>
timerVars == <<timers, cancelled, armed>>
closeVars == <<pending, batch, asked, inline>>
vars == <<loopVars, connVars, timerVars, closeVars>>

Ids == 1..MaxConns
States == {"None", "Connecting", "Handshaking", "Established", "Closing", "Closed"}
Phases == {"off", "poll", "tasks", "events", "timers", "teardown",
           "finalTasks", "finalTeardown", "shutdown"}
Task == [op : {"dial"}, id : {0}] \cup [op : {"close", "send"}, id : Ids]

Live(id) == \E fd \in Fds : conns[fd] = id
FdOf(id) == CHOOSE fd \in Fds : conns[fd] = id

TypeOK ==
    /\ running \in BOOLEAN
    /\ phase \in Phases
    /\ starts \in 0..MaxStarts
    /\ tasks \in Seq(Task) /\ Len(tasks) <= MaxPosts
    /\ scratch \in Seq(Task)
    /\ ready \subseteq Fds
    /\ conns \in [Fds -> 0..MaxConns]
    /\ state \in [Ids -> States]
    /\ nextId \in 1..MaxConns + 1
    /\ pending \subseteq Fds
    /\ batch \subseteq Fds
    /\ timers \subseteq [tid : Ids, fd : Fds, left : 0..Timeout]
    /\ cancelled \subseteq Ids
    /\ armed \subseteq Ids
    /\ asked \subseteq Ids
    /\ inline \in BOOLEAN
    /\ closed \in [Ids -> Nat]

Init ==
    /\ running = FALSE
    /\ phase = "off"
    /\ starts = 0
    /\ tasks = <<>>
    /\ scratch = <<>>
    /\ ready = {}
    /\ conns = [fd \in Fds |-> 0]
    /\ state = [id \in Ids |-> "None"]
    /\ nextId = 1
    /\ pending = {}
    /\ batch = {}
    /\ timers = {}
    /\ cancelled = {}
    /\ armed = {}
    /\ asked = {}
    /\ inline = FALSE
    /\ closed = [id \in Ids |-> 0]

-----------------------------------------------------------------------------
(* Other threads.                                                          *)

Start ==
    /\ phase = "off" /\ ~running
    /\ starts < MaxStarts
    /\ starts' = starts + 1
    /\ running' = TRUE
    /\ phase' = "poll"
    /\ UNCHANGED <<tasks, scratch, ready, connVars, timerVars, closeVars>>

Stop ==
    /\ running
    /\ running' = FALSE
    /\ UNCHANGED <<phase, starts, tasks, scratch, ready, connVars, timerVars, closeVars>>

(* Reactor::post accepts a task in every state of the reactor: one posted  *)
(* after the last drain waits in the queue for the next start().  Frames   *)
(* are sent to peers in the table, whose connections are established.      *)
Post(op, id) ==
    /\ Len(tasks) < MaxPosts
    /\ op = "close" => id \in 1..nextId - 1
    /\ op = "send" => id \in 1..nextId - 1 /\ state[id] = "Established"
    /\ op = "dial" => id = 0
    /\ tasks' = Append(tasks, [op |-> op, id |-> id])
    /\ UNCHANGED <<running, phase, starts, scratch, ready, connVars, timerVars, closeVars>>

(* Time passes while the loop waits in poll, or is not running at all.     *)
Tick ==
    /\ phase \in {"poll", "off"}
    /\ \E t \in timers : t.left > 0
    /\ timers' = {[t EXCEPT !.left = IF @ > 0 THEN @ - 1 ELSE 0] : t \in timers}
    /\ UNCHANGED <<loopVars, conns, state, nextId, closed, cancelled, armed, closeVars>>

-----------------------------------------------------------------------------
(* Building blocks that run on the loop.                                   *)

(* mark_for_close on behalf of connection id, found through its descriptor *)
MarkedFor(id) == pending \cup {FdOf(id)}

(* Connections a callback closes through Reactor::close, which runs inline *)
(* on this thread: at most one per event.                                  *)
Victims == {{}} \cup {{id} : id \in {i \in Ids : Live(i)}}

(* Reactor::adopt *)
Adopt(fd, st) ==
    /\ nextId <= MaxConns
    /\ conns[fd] = 0
    /\ conns' = [conns EXCEPT ![fd] = nextId]
    /\ state' = [state EXCEPT ![nextId] = st]
    /\ nextId' = nextId + 1
    /\ timers' = timers \cup {[tid |-> nextId, fd |-> fd, left |-> Timeout]}
    /\ armed' = armed \cup {nextId}
    /\ UNCHANGED <<closed, cancelled>>

-----------------------------------------------------------------------------
(* The loop.                                                               *)

(* poller_->wait, then drain_tasks takes the whole backlog.                *)
Poll(found) ==
    /\ phase = "poll" /\ running
    /\ ready' = found
    /\ scratch' = tasks
    /\ tasks' = <<>>
    /\ phase' = "tasks"
    /\ UNCHANGED <<running, starts, connVars, timerVars, closeVars>>

(* The loop notices stop() and drains the queue for the last time.         *)
LeaveLoop ==
    /\ phase = "poll" /\ ~running
    /\ scratch' = tasks
    /\ tasks' = <<>>
    /\ phase' = "finalTasks"
    /\ UNCHANGED <<running, starts, ready, connVars, timerVars, closeVars>>

(* A connect task: tcp_connect_start fails silently, or the socket is      *)
(* adopted while still connecting.                                         *)
RunDialTask(fd) ==
    /\ phase \in {"tasks", "finalTasks"}
    /\ scratch # <<>> /\ Head(scratch).op = "dial"
    /\ scratch' = Tail(scratch)
    /\ \/ fd \in Fds /\ Adopt(fd, "Connecting")
       \/ fd = NoFd /\ UNCHANGED <<connVars, timerVars>>
    /\ UNCHANGED <<running, phase, starts, tasks, ready, closeVars>>

(* A close task marks the connection if its id is still known.             *)
RunCloseTask ==
    /\ phase \in {"tasks", "finalTasks"}
    /\ scratch # <<>> /\ Head(scratch).op = "close"
    /\ scratch' = Tail(scratch)
    /\ LET id == Head(scratch).id
       IN IF Live(id)
            THEN pending' = MarkedFor(id) /\ asked' = asked \cup {id}
            ELSE UNCHANGED <<pending, asked>>
    /\ UNCHANGED <<running, phase, starts, tasks, ready, connVars, timerVars, batch,
                   inline>>

(* Connection::send of a posted frame.  A full queue or a failing flush    *)
(* puts the connection in Closing and closes it by id.  A send from the    *)
(* loop itself runs at once; here it is a task too.                        *)
RunSendTask ==
    LET id == Head(scratch).id IN
    /\ phase \in {"tasks", "finalTasks"}
    /\ scratch # <<>> /\ Head(scratch).op = "send"
    /\ scratch' = Tail(scratch)
    /\ \/ UNCHANGED <<state, pending, asked>>
       \/ /\ Live(id) /\ state[id] = "Established"
          /\ state' = [state EXCEPT ![id] = "Closing"]
          /\ pending' = MarkedFor(id)
          /\ asked' = asked \cup {id}
    /\ UNCHANGED <<running, phase, starts, tasks, ready, conns, nextId, closed,
                   timerVars, batch, inline>>

TasksDone ==
    /\ phase = "tasks" /\ scratch = <<>>
    /\ phase' = "events"
    /\ UNCHANGED <<running, starts, tasks, scratch, ready, connVars, timerVars, closeVars>>

(* do_accept: an admitted client is adopted and starts its handshake.      *)
Accept(fd) ==
    /\ phase = "events"
    /\ Adopt(fd, "Handshaking")
    /\ UNCHANGED <<loopVars, closeVars>>

(* Events of a connection that is Closing, or of a descriptor that no      *)
(* longer has one, are dropped.                                            *)
Deaf(fd) == conns[fd] = 0 \/ state[conns[fd]] = "Closing"

IgnoreEvent(fd) ==
    /\ phase = "events" /\ fd \in ready /\ Deaf(fd)
    /\ ready' = ready \ {fd}
    /\ UNCHANGED <<running, phase, starts, tasks, scratch, connVars, timerVars, closeVars>>

(* on_writable / on_readable / process_blocks: the connection stays, moves *)
(* on or completes its handshake, which cancels the establish timer and    *)
(* calls on_established.  There, and for a frame, the node may close this  *)
(* connection or another one (self-connection, peer limit, duplicates).    *)
Progress(fd, victims) ==
    LET id == conns[fd]
        next == CASE state[id] = "Connecting"  -> {"Connecting", "Handshaking"}
                  [] state[id] = "Handshaking" -> {"Handshaking", "Established"}
                  [] OTHER                     -> {state[id]}
    IN /\ phase = "events" /\ fd \in ready /\ ~Deaf(fd)
       /\ ready' = ready \ {fd}
       /\ \E s \in next :
            LET completes == s = "Established" /\ state[id] # s
            IN /\ victims \subseteq {id} \/ s = "Established"
               /\ state' = [state EXCEPT ![id] = s]
               /\ cancelled' = IF completes THEN cancelled \cup {id} ELSE cancelled
               /\ armed' = IF completes THEN armed \ {id} ELSE armed
       /\ pending' = pending \cup {FdOf(v) : v \in victims}
       /\ asked' = asked \cup victims
       /\ UNCHANGED <<running, phase, starts, tasks, scratch, conns, nextId,
                      closed, timers, batch, inline>>

(* fail(): connect refused, bad handshake, peer closed, socket error.      *)
Fail(fd) ==
    LET id == conns[fd]
    IN /\ phase = "events" /\ fd \in ready /\ ~Deaf(fd)
       /\ ready' = ready \ {fd}
       /\ state' = [state EXCEPT ![id] = "Closing"]
       /\ pending' = pending \cup {fd}
       /\ asked' = asked \cup {id}
       /\ UNCHANGED <<running, phase, starts, tasks, scratch, conns, nextId,
                      closed, timerVars, batch, inline>>

EventsDone ==
    /\ phase = "events" /\ ready = {}
    /\ phase' = "timers"
    /\ UNCHANGED <<running, starts, tasks, scratch, ready, connVars, timerVars, closeVars>>

Due == {t \in timers : t.left = 0}

(* Mutant: the reaper only looks at connections that are still dialing.    *)
RunTimerConnectOnly(t) ==
    LET id == conns[t.fd]
    IN /\ phase = "timers" /\ t \in Due
       /\ timers' = timers \ {t}
       /\ cancelled' = cancelled \ {t.tid}
       /\ IF t.tid \notin cancelled /\ id # 0 /\ state[id] = "Connecting"
            THEN pending' = pending \cup {t.fd} /\ asked' = asked \cup {id}
            ELSE UNCHANGED <<pending, asked>>
       /\ UNCHANGED <<loopVars, connVars, armed, batch, inline>>

(* TimerQueue::run_due with the establish callback of adopt(): a cancelled *)
(* entry is dropped, a live one reaps whatever connection its descriptor   *)
(* names if that one is not established.                                   *)
RunTimer(t) ==
    LET id == conns[t.fd]
    IN /\ phase = "timers" /\ t \in Due
       /\ timers' = timers \ {t}
       /\ IF t.tid \in cancelled
            THEN cancelled' = cancelled \ {t.tid} /\ UNCHANGED <<pending, asked>>
            ELSE /\ cancelled' = cancelled
                 /\ IF id # 0 /\ state[id] \in {"Connecting", "Handshaking"}
                      THEN /\ pending' = pending \cup {t.fd}
                           /\ asked' = IF t.tid = id THEN asked \cup {id} ELSE asked
                      ELSE UNCHANGED <<pending, asked>>
       /\ UNCHANGED <<loopVars, connVars, armed, batch, inline>>

(* Mutant: the marks are copied into the batch but not cleared.            *)
BeginTeardownUncleared ==
    /\ \/ phase = "timers" /\ Due = {} /\ phase' = "teardown"
       \/ phase = "finalTasks" /\ scratch = <<>> /\ phase' = "finalTeardown"
    /\ batch' = pending
    /\ UNCHANGED <<running, starts, tasks, scratch, ready, connVars, timerVars,
                   pending, asked, inline>>

(* process_pending_close takes the marked descriptors.                     *)
BeginTeardown ==
    /\ \/ phase = "timers" /\ Due = {} /\ phase' = "teardown"
       \/ phase = "finalTasks" /\ scratch = <<>> /\ phase' = "finalTeardown"
    /\ batch' = pending
    /\ pending' = {}
    /\ UNCHANGED <<running, starts, tasks, scratch, ready, connVars, timerVars, asked,
                   inline>>

(* Reactor::remove: forget the connection, cancel its timer, call          *)
(* on_closed (whose handlers may close others), close the descriptor.      *)
Remove(fd, victims) ==
    LET id == conns[fd]
    IN /\ phase \in {"teardown", "finalTeardown"} /\ fd \in batch
       /\ batch' = batch \ {fd}
       /\ IF id = 0
            THEN victims = {} /\ UNCHANGED <<connVars, cancelled, armed, pending, asked, inline>>
            ELSE /\ id \notin victims
                 /\ conns' = [conns EXCEPT ![fd] = 0]
                 /\ state' = [state EXCEPT ![id] = "Closed"]
                 /\ closed' = [closed EXCEPT ![id] = @ + 1]
                 /\ cancelled' = IF id \in armed THEN cancelled \cup {id} ELSE cancelled
                 /\ armed' = armed \ {id}
                 /\ pending' = pending \cup {FdOf(v) : v \in victims}
                 /\ asked' = asked \cup victims
                 /\ inline' = (inline \/ victims # {})
                 /\ UNCHANGED <<nextId>>
       /\ UNCHANGED <<loopVars, timers>>

TeardownDone ==
    /\ batch = {}
    /\ \/ phase = "teardown" /\ phase' = "poll"
       \/ phase = "finalTeardown" /\ phase' = "shutdown"
    /\ UNCHANGED <<running, starts, tasks, scratch, ready, connVars, timerVars, closeVars>>

(* Mutant: shutdown clears the maps without calling on_closed.             *)
ShutdownSilently ==
    /\ phase = "shutdown"
    /\ phase' = "off"
    /\ conns' = [fd \in Fds |-> 0]
    /\ state' = [id \in Ids |-> IF Live(id) THEN "Closed" ELSE state[id]]
    /\ pending' = {}
    /\ UNCHANGED <<running, starts, tasks, scratch, ready, nextId, closed,
                   timerVars, batch, asked, inline>>

(* shutdown_connections: on_closed for everything left, then every map is  *)
(* cleared.  The establish timers stay in the heap.                        *)
Shutdown ==
    LET left == {id \in Ids : Live(id)}
    IN /\ phase = "shutdown"
       /\ phase' = "off"
       /\ conns' = [fd \in Fds |-> 0]
       /\ state' = [id \in Ids |-> IF id \in left THEN "Closed" ELSE state[id]]
       /\ closed' = [id \in Ids |-> IF id \in left THEN closed[id] + 1 ELSE closed[id]]
       /\ asked' = asked \cup left
       /\ pending' = {}
       /\ UNCHANGED <<running, starts, tasks, scratch, ready, nextId, timerVars, batch,
                      inline>>

-----------------------------------------------------------------------------
Loop ==
    \/ LeaveLoop \/ TasksDone \/ EventsDone \/ BeginTeardown \/ TeardownDone
    \/ Shutdown
    \/ \E found \in SUBSET {fd \in Fds : conns[fd] # 0} : Poll(found)
    \/ \E fd \in Fds \cup {NoFd} : RunDialTask(fd)
    \/ RunCloseTask \/ RunSendTask
    \/ \E fd \in Fds : IgnoreEvent(fd) \/ Fail(fd)
    \/ \E fd \in Fds, vs \in Victims : Progress(fd, vs) \/ Remove(fd, vs)
    \/ \E t \in timers : RunTimer(t)

Next ==
    \/ Start \/ Stop \/ Tick
    \/ \E op \in {"dial", "close", "send"}, id \in 0..MaxConns : Post(op, id)
    \/ \E fd \in Fds : Accept(fd)
    \/ Loop

Spec == Init /\ [][Next]_vars

(* The loop thread keeps running: poll returns after at most 50 ms, and    *)
(* the clock moves between polls (strong fairness, since a tick is only    *)
(* modelled while the loop waits).  Sockets need not become ready, peers   *)
(* need not answer and nobody has to call stop().                          *)
FairSpec == Spec /\ WF_vars(Loop) /\ SF_vars(Tick)

-----------------------------------------------------------------------------
(* Properties.                                                             *)

(* Every adopted connection gets on_closed exactly once: not while it is   *)
(* in conns_, once as soon as it is not, whether it went by teardown, by a *)
(* second mark in the same batch or by shutdown.                           *)
ClosedExactlyOnce ==
    \A id \in Ids :
        closed[id] = IF id < nextId /\ ~Live(id) THEN 1 ELSE 0

(* "Close a connection by id" (Reactor::close): a connection is torn down  *)
(* only if a failure, its own timer or a close of that very id condemned   *)
(* it, never because its descriptor was condemned for somebody else.  It   *)
(* is promised within one start of the loop (shutdown_connections cancels  *)
(* no timer, so a later start inherits the old ones) and while no on_closed*)
(* handler has closed another connection inline: such a mark can outlive   *)
(* the connection it was meant for.                                        *)
OnlyCondemnedRemoved ==
    [][\A id \in Ids :
          (closed'[id] # closed[id] /\ starts = 1 /\ ~inline') => id \in asked']_vars

(* A connection never stays half-open, and never half-closed: dialing,     *)
(* handshaking or closing, it comes to be established or closed, whatever  *)
(* the remote side does.                                                   *)
EstablishOrClose ==
    \A id \in Ids : []<>(state[id] \in {"None", "Established", "Closed"})

=============================================================================
