---------------------------- MODULE MCDashboard ----------------------------
(* Small instance of Dashboard: an owner with an iWallet no scan sees any    *)
(* more, and another owner with one that both scans see.                     *)
EXTENDS Dashboard

CONSTANTS ownerA, ownerB, oldA, newB

MCOwnerOf == [id \in Ids |-> IF id = newB THEN ownerB ELSE ownerA]
=============================================================================
