------------------------------ MODULE PeerTable ------------------------------
(***************************************************************************)
(* The duplicate-connection rule of PeerTable::add: which of two           *)
(* connections to one peer survives.  Opposite roles mean both ends dialed *)
(* each other; the survivor is the direction prefer_outbound names, which  *)
(* each end derives from the order of the two ids.  Equal roles mean a     *)
(* reconnect; the newcomer wins.                                           *)
(***************************************************************************)

Roles == {"Inbound", "Outbound"}

SurvivingRole(prefer_outbound) == IF prefer_outbound THEN "Outbound" ELSE "Inbound"

KeepNew(curRole, newRole, prefer_outbound) ==
    curRole = newRole \/ newRole = SurvivingRole(prefer_outbound)
=============================================================================
