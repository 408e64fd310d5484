----------------------------- MODULE MCRecovery -----------------------------
(* Small instance of Recovery: two coins may wait when the agent disappears. *)
EXTENDS Recovery

CONSTANTS ownerA, agentA

MCRecipientLists == {{agentA}}
MCInitialWallet == [a \in Addresses |-> IF a = ownerA THEN 2 ELSE 0]
=============================================================================
