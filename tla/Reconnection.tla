---------------------------- MODULE Reconnection ----------------------------
(***************************************************************************)
(* ReconnectionService: keep dialing a set of addresses.                   *)
(*                                                                         *)
(* The service's loop thread, the reactor threads (connect, disconnect and *)
(* dial-failed callbacks) and the application (add, remove, stop) meet at  *)
(* targets_, guarded by mutex_.  The loop reads the set of live addresses  *)
(* BEFORE it takes the lock and dials AFTER it releases it, so a pass is   *)
(* split at those points: TakeLive, Reconcile, Dispatch, CheckStop, Wake.  *)
(*                                                                         *)
(* Times are kept as the time that is left: next = 0 means next_attempt is *)
(* not after the `now` of the current pass.  The clock advances only while *)
(* the loop sleeps (a pass takes microseconds, the delays are seconds),    *)
(* except that an event inside a pass reads a later steady_clock than the  *)
(* pass did (Moment).                                                      *)
(***************************************************************************)
EXTENDS Naturals, FiniteSets, FiniteSetsExt

CONSTANTS
    Endpoints,         \* dialable addresses, one remote peer behind each
    MaxTargets,    \* Config::max_targets
    MaxAttempts,   \* Config::max_attempts, 0 means retry forever
    Startup,       \* Config::startup_targets
    Persist,       \* Config::persist_discovered
    BaseBackoff, MaxBackoff, DialTimeout, Tick,  \* the Config durations
    MaxFlight      \* bound: dials of one address in flight

ASSUME ReconnectionAssumption ==
    /\ {MaxTargets, MaxAttempts, Startup} \subseteq Nat
    /\ {BaseBackoff, MaxBackoff, DialTimeout, Tick, MaxFlight} \subseteq Nat \ {0}
    /\ Persist \in BOOLEAN

VARIABLES
    tgt,       \* targets_: the retry state, or NoTarget
    book,      \* addresses in the peer book
    flight,    \* dials of each address in flight
    link,      \* what the directory holds for the peer behind the address
    calling,   \* outbound peers registered whose on_connected has not run yet
    running,   \* running_
    phase,     \* where the loop thread is
    left,      \* what is left of the loop's wait
    live,      \* the pass's snapshot of live addresses
    to_dial,   \* the pass's to_dial
    silent     \* ghost: targets flagged as dialing of which a dial ended unreported

reconVars == <<tgt, book, flight, link, calling, running, phase, left, live, to_dial,
          silent>>
netVars == <<flight, link, calling, silent>>
loopVars == <<running, phase, left, live, to_dial>>

NoTarget == [present |-> FALSE, dialing |-> FALSE, attempts |-> 0, next |-> 0,
             deadline |-> 0]
Longest == Max({BaseBackoff, MaxBackoff, DialTimeout})

Targets == {a \in Endpoints : tgt[a].present}
Room == Cardinality(Targets) < MaxTargets

(* attempts is capped where the backoff no longer grows (bound).           *)
AttemptCap == MaxAttempts + MaxBackoff + 1

ReconTypeOK ==
    /\ tgt \in [Endpoints -> [present : BOOLEAN, dialing : BOOLEAN,
                          attempts : 0..AttemptCap, next : 0..Longest,
                          deadline : 0..DialTimeout]]
    /\ Cardinality(Targets) <= MaxTargets /\ book \in SUBSET Endpoints
    /\ flight \in [Endpoints -> 0..MaxFlight]
    /\ link \in [Endpoints -> {"down", "hidden", "up"}]
    /\ calling \in SUBSET Endpoints
    /\ running \in BOOLEAN
    /\ phase \in {"off", "top", "reconcile", "dispatch", "check", "waiting"}
    /\ left \in 0..Tick
    /\ live \in SUBSET Endpoints
    /\ to_dial \in SUBSET Endpoints
    /\ silent \in SUBSET Endpoints

(* A clock read by another thread: during a pass it is after the `now` the *)
(* pass works with.                                                        *)
Moment == IF phase = "reconcile" THEN 1 ELSE 0

(* Target::mark_connected at moment t *)
mark_connected(t) == [present |-> TRUE, dialing |-> FALSE, attempts |-> 0, next |-> t,
                 deadline |-> 0]

(* ReconnectionService::backoff_for: base doubled attempts - 1 times, up   *)
(* to the cap.                                                             *)
backoff_for[n \in Nat] ==
    IF n <= 1 THEN Min({BaseBackoff, MaxBackoff})
    ELSE Min({2 * backoff_for[n - 1], MaxBackoff})

ReconInit ==
    /\ tgt = [a \in Endpoints |-> NoTarget]
    /\ Cardinality(Targets) <= MaxTargets /\ book \in SUBSET Endpoints
    /\ flight = [a \in Endpoints |-> 0]
    /\ link = [a \in Endpoints |-> "down"]
    /\ calling = {}
    /\ running = FALSE
    /\ phase = "off"
    /\ left = 0
    /\ live = {}
    /\ to_dial = {}
    /\ silent = {}

-----------------------------------------------------------------------------
(* The application.                                                        *)

Add(a) ==
    /\ a \notin Targets
    /\ Room
    /\ tgt' = [tgt EXCEPT ![a] = mark_connected(Moment)]
    /\ book' = book \cup {a}
    /\ UNCHANGED <<netVars, running, phase, left, live, to_dial>>

Forget(a) ==
    /\ a \in Targets \cup book
    /\ tgt' = [tgt EXCEPT ![a] = NoTarget]
    /\ book' = book \ {a}
    /\ UNCHANGED <<netVars, loopVars>>

(* start(): seed from the book's best, then launch the loop thread.  The   *)
(* book's ranking is module PeerBook's; any Startup of its entries here.   *)
Start ==
    /\ ~running
    /\ phase = "off"
    /\ running' = TRUE
    /\ phase' = "top"
    /\ \E recent \in SUBSET book :
         /\ Cardinality(recent) = Min({Startup, Cardinality(book)})
         /\ \E seed \in SUBSET (recent \ Targets) :
              /\ Cardinality(seed) = Min({Cardinality(recent \ Targets),
                                          MaxTargets - Cardinality(Targets)})
              /\ tgt' = [a \in Endpoints |-> IF a \in seed THEN mark_connected(0) ELSE tgt[a]]
    /\ UNCHANGED <<book, netVars, left, live, to_dial>>

(* stop(): running_ = false, then notify_all without wait_mutex_, then     *)
(* join.  The notification is the second step: StopNotify.                 *)
Stop ==
    /\ running
    /\ running' = FALSE
    /\ UNCHANGED <<tgt, book, netVars, phase, left, live, to_dial>>

(* ... it reaches the loop only if the loop is blocked by then.            *)
StopNotify ==
    /\ ~running
    /\ phase = "waiting"
    /\ phase' = "off"
    /\ UNCHANGED <<tgt, book, netVars, running, left, live, to_dial>>

-----------------------------------------------------------------------------
(* The network, as PeerNetwork shows it.                                   *)

(* A dial of a ended and nobody is told.                                   *)
Muted(a) == IF tgt[a].dialing THEN silent \cup {a} ELSE silent

(* An outbound dial is registered in the directory under the dialed        *)
(* address; the callback follows on the same thread.  If the peer is       *)
(* already connected the dial is a duplicate and ends without an event.    *)
DialConnects(a) ==
    /\ flight[a] > 0
    /\ flight' = [flight EXCEPT ![a] = @ - 1]
    /\ IF link[a] = "down"
         THEN /\ link' = [link EXCEPT ![a] = "up"]
              /\ calling' = calling \cup {a}
              /\ silent' = silent
         ELSE silent' = Muted(a) /\ UNCHANGED <<link, calling>>
    /\ UNCHANGED <<tgt, book, loopVars>>

OnConnected(a) ==
    /\ a \in calling
    /\ calling' = calling \ {a}
    /\ IF a \in Targets \/ (Persist /\ Room)
         THEN /\ tgt' = [tgt EXCEPT ![a] = mark_connected(Moment)]
              /\ book' = book \cup {a}
         ELSE UNCHANGED <<tgt, book>>
    /\ UNCHANGED <<flight, link, silent, loopVars>>

(* A dial closes before establishing: on_dial_failed.                      *)
OnDialFailed(a) ==
    /\ flight[a] > 0
    /\ flight' = [flight EXCEPT ![a] = @ - 1]
    /\ tgt' = IF a \in Targets THEN [tgt EXCEPT ![a].dialing = FALSE] ELSE tgt
    /\ silent' = silent \ {a}
    /\ UNCHANGED <<book, link, calling, loopVars>>

(* Reactor::connect could not even open a socket: no event at all.         *)
DialLost(a) ==
    /\ flight[a] > 0
    /\ flight' = [flight EXCEPT ![a] = @ - 1]
    /\ silent' = Muted(a)
    /\ UNCHANGED <<tgt, book, link, calling, loopVars>>

(* The peer dials us: it is registered without an address ...              *)
InboundConnects(a) ==
    /\ link[a] = "down"
    /\ link' = [link EXCEPT ![a] = "hidden"]
    /\ UNCHANGED <<tgt, book, flight, calling, silent, loopVars>>

(* ... until its identify frame brings the dialable one.                   *)
Identified(a) ==
    /\ link[a] = "hidden"
    /\ link' = [link EXCEPT ![a] = "up"]
    /\ UNCHANGED <<tgt, book, flight, calling, silent, loopVars>>

(* on_disconnected: nothing but a notify, which cannot end the wait (its   *)
(* predicate is !running_).                                                *)
OnDisconnected(a) ==
    /\ link[a] # "down"
    /\ a \notin calling
    /\ link' = [link EXCEPT ![a] = "down"]
    /\ UNCHANGED <<tgt, book, flight, calling, silent, loopVars>>

-----------------------------------------------------------------------------
(* The loop thread.                                                        *)

TakeLive ==
    /\ phase = "top"
    /\ IF running
         THEN /\ phase' = "reconcile"
              /\ live' = {a \in Endpoints : link[a] = "up"}
         ELSE /\ phase' = "off"
              /\ UNCHANGED <<live>>
    /\ UNCHANGED <<tgt, book, netVars, running, left, to_dial>>

(* Mutant: an in-flight dial is waited for without the deadline.           *)
BusyForever(t) == t.dialing

(* An earlier dial still counts as in flight.                              *)
Busy(t) == t.dialing /\ t.deadline > 0

Due(a) == a \in Targets \ live /\ ~Busy(tgt[a]) /\ tgt[a].next = 0
GivesUp(a) == Due(a) /\ MaxAttempts > 0 /\ tgt[a].attempts >= MaxAttempts

(* Target state after a dial has been dispatched.                          *)
Redialed(t) ==
    LET n == Min({t.attempts + 1, AttemptCap})
    IN [present |-> TRUE, dialing |-> TRUE, attempts |-> n,
        next |-> backoff_for[n], deadline |-> DialTimeout]

Reconcile ==
    /\ phase = "reconcile"
    /\ phase' = "dispatch"
    /\ to_dial' = {a \in Endpoints : Due(a) /\ ~GivesUp(a)}
    /\ tgt' = [a \in Endpoints |->
                 IF a \in Targets \cap live THEN mark_connected(0)
                 ELSE IF GivesUp(a) THEN NoTarget
                 ELSE IF Due(a) THEN Redialed(tgt[a])
                 ELSE tgt[a]]
    /\ live' = {}
    /\ silent' = {a \in silent \ to_dial' : tgt'[a].dialing}
    /\ UNCHANGED <<book, flight, link, calling, running, left>>

(* network_->connect(addr) for each of to_dial.                            *)
Dispatch ==
    /\ phase = "dispatch"
    /\ \A a \in to_dial : flight[a] < MaxFlight
    /\ flight' = [a \in Endpoints |-> IF a \in to_dial THEN flight[a] + 1 ELSE flight[a]]
    /\ to_dial' = {}
    /\ phase' = "check"
    /\ UNCHANGED <<tgt, book, link, calling, silent, running, left, live>>

(* wait_for evaluates its predicate, then blocks.                          *)
CheckStop ==
    /\ phase = "check"
    /\ IF running THEN phase' = "waiting" /\ left' = Tick
                  ELSE phase' = "off" /\ UNCHANGED left
    /\ UNCHANGED <<tgt, book, netVars, running, live, to_dial>>

(* wait_for times out after a tick.                                        *)
Wake ==
    /\ phase = "waiting"
    /\ left = 0
    /\ phase' = "top"
    /\ UNCHANGED <<tgt, book, netVars, running, left, live, to_dial>>

(* A unit of time passes while the loop sleeps.                            *)
Less(n) == IF n = 0 THEN 0 ELSE n - 1

TimePasses ==
    /\ phase = "waiting"
    /\ left > 0
    /\ left' = left - 1
    /\ tgt' = [a \in Endpoints |-> [tgt[a] EXCEPT !.next = Less(@), !.deadline = Less(@)]]
    /\ UNCHANGED <<book, netVars, running, phase, live, to_dial>>

LoopStep == TakeLive \/ Reconcile \/ Dispatch \/ CheckStop \/ Wake

ReconNext ==
    \/ \E a \in Endpoints :
         \/ Add(a) \/ Forget(a)
         \/ DialConnects(a) \/ OnConnected(a) \/ OnDialFailed(a) \/ DialLost(a)
         \/ InboundConnects(a) \/ Identified(a) \/ OnDisconnected(a)
    \/ Start \/ Stop \/ StopNotify
    \/ LoopStep \/ TimePasses

(* The loop thread is scheduled, time passes, and a dial ends one way or   *)
(* another (the reactor's establish timeout).  Nothing is assumed of       *)
(* peers, of the application, or of the stop notification arriving in time. *)
ReconFairness ==
    /\ WF_reconVars(LoopStep)
    /\ WF_reconVars(TimePasses)
    /\ \A a \in Endpoints :
         /\ WF_reconVars(OnConnected(a))
         /\ WF_reconVars(DialConnects(a) \/ OnDialFailed(a) \/ DialLost(a))

ReconSpec == ReconInit /\ [][ReconNext]_reconVars /\ ReconFairness

-----------------------------------------------------------------------------
(* Properties.                                                             *)

(* "re-dials them when they drop" (reconnection.h): while the service runs *)
(* a target whose peer is down is dialed, or comes back by itself, or is   *)
(* removed (by the application, or given up after MaxAttempts) - also when *)
(* its last dial ended without any event, or was resolved as a duplicate.  *)
RedialEventually ==
    \A a \in Endpoints :
        (running /\ a \in Targets /\ link[a] = "down")
            ~> (~running \/ a \notin Targets \/ link[a] # "down" \/ flight[a] > 0)

=============================================================================
