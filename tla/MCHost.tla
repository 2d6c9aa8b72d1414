------------------------------- MODULE MCHost -------------------------------
(***************************************************************************)
(* The reactor, the port mapping with the watch on the host's addresses,   *)
(* LAN discovery and file transfer for TLC: one part at a time.  The part  *)
(* is chosen initially and the variables of the others stay as they start. *)
(***************************************************************************)
EXTENDS Reactor, HostWatch, TLC

CONSTANTS
    Parts,
    f1, f2              \* descriptors

VARIABLES
    part,
    lan, air,                                                       \* Mdns
    out, inc, queue, wk, disk_ready, dk, chan, placed, ops, ended   \* FileTransfer

TwoFds == {f1, f2}
Backend == {{"upnp"}, {"natpmp"}}

HostNumber(n) == 100 + n
M == INSTANCE Mdns WITH Nodes <- {1, 2}, Foreign <- {<<2, 2>>}, HostOf <- HostNumber, MaxStarts <- 2

(* A directory whose files need several chunks, none, and a short one.     *)
T == INSTANCE FileTransfer WITH Nodes <- {"a", "b"}, Xfers <- {1}, From <- <<"a">>, To <- <<"b">>,
        Id <- <<1>>, Sizes <- <<<<3, 0, 1>>>>, Workers <- {"w"}, Disks <- {"d1", "d2"}, Chunk <- 2,
        Window <- 2, Interval <- 3, Ops <- {"pause", "resume"}, MaxOps <- 2, ready <- disk_ready

-----------------------------------------------------------------------------
On(p, A) == part = p /\ A

lanVars == <<lan, air>>
xferVars == <<out, inc, queue, wk, disk_ready, dk, chan, placed, ops, ended>>
hostVars == <<part, vars, watchVars, lanVars, xferVars>>

MCInit ==
    /\ part \in Parts
    /\ Init /\ WatchInit /\ M!MdnsInit /\ T!Init
    /\ part # "nat" => svc.config = {"upnp"}

MCNext ==
    /\ UNCHANGED part
    /\ \/ On("reactor", Next) /\ UNCHANGED <<watchVars, lanVars, xferVars>>
       \/ On("nat", WatchNext) /\ UNCHANGED <<vars, lanVars, xferVars>>
       \/ On("lan", M!MdnsNext) /\ UNCHANGED <<vars, watchVars, xferVars>>
       \/ On("transfer", T!Next) /\ UNCHANGED <<vars, watchVars, lanVars>>

(* The loops go on: the reactor's, whose poll ends after 50 ms and whose   *)
(* clock moves between polls; the monitor's and the maintenance thread,    *)
(* the clients of the port mapping and the thread that stops them; the     *)
(* workers of a transfer, and the link that carries its messages.          *)
Fairness ==
    /\ WF_vars(On("reactor", Loop)) /\ SF_vars(On("reactor", Tick))
    /\ WF_watchVars(On("nat", Monitor))
    /\ WF_watchVars(On("nat", Maintenance))
    /\ WF_watchVars(On("nat", Stopping /\ UNCHANGED <<watch, node>>))
    /\ \A b \in Backends : WF_watchVars(On("nat", Worker(b) /\ UNCHANGED <<watch, node>>))
    /\ M!MdnsFairness
    /\ \A n \in {"a", "b"} :
         /\ \A peer \in {"a", "b"} : WF_xferVars(On("transfer", T!Deliver(peer, n)))
         /\ WF_xferVars(On("transfer", T!WorkerStep(n, "w")))
         /\ \A d \in {"d1", "d2"} : WF_xferVars(On("transfer", T!DiskStep(n, d)))
    /\ WF_xferVars(On("transfer", T!Accept(1)))

MCSpec == MCInit /\ [][MCNext]_hostVars /\ Fairness

-----------------------------------------------------------------------------
(* Nodes that stay up on one network have found and dialed each other at   *)
(* the port they now use, whatever old packets come late.                  *)
LanPeersFound == <>[]M!AllFound

(* An offered or resumed transfer completes on both sides unless somebody  *)
(* ends it or it is paused again.                                          *)
Completes == T!Completes

=============================================================================
