------------------------------ MODULE MCVault ------------------------------
(***************************************************************************)
(* Small instances of Vault.  The owner holds every coin at first; the     *)
(* agent's wallet and the manager's address receive what is withdrawn.     *)
(***************************************************************************)
EXTENDS Vault, TLC

CONSTANTS ownerA, agentA, managerA

\* The owner lists the manager only, or the agent as well.
MCRecipientLists == {{managerA}, {managerA, agentA}}
MCInitialWallet == [a \in Addresses |-> IF a = ownerA THEN 3 ELSE 0]

\* Nonces, keys and coin ids are interchangeable.
Symmetry == Permutations(Nonces) \cup Permutations(Keys) \cup Permutations(CoinIds)
=============================================================================
