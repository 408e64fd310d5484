------------------------------ MODULE Recovery ------------------------------
(***************************************************************************)
(* Recovery without the agent (docs/DELEGATION_MODEL.md, section 5): the   *)
(* user keeps the witness, so when the agent disappears the owner can make *)
(* proofs and call withdraw_with_proof.  Coins waiting at the vault's      *)
(* address are the hard case: owner_withdraw does not reach them, and the  *)
(* only function that receives them is withdraw_with_proof, one per call,  *)
(* under a live policy.                                                    *)
(*                                                                         *)
(* The owner's procedure is composed here from the vault's actions: set a  *)
(* policy that allows zero-amount withdrawals to itself, prove and submit  *)
(* one such withdrawal per waiting coin, and owner_withdraw what is staged.*)
(***************************************************************************)
EXTENDS Vault

CONSTANT OwnerNonces  \* nonces the owner draws once the agent is gone

ASSUME RecoveryAssumption == OwnerNonces \subseteq Nonces

VARIABLE agentDown

rvars == <<vars, agentDown>>

RInit == Init /\ agentDown = FALSE

\* Normal life of the vault.  It leaves the owner one call of set_policy and
\* its nonces, which only the bounds of the model make scarce.
AgentUp ==
  /\ ~ agentDown
  /\ Next
  /\ GrantCount' < MaxGrants
  /\ \A p \in proofs' : p.nonce \notin OwnerNonces
  /\ UNCHANGED agentDown

AgentDisappears ==
  /\ ~ agentDown
  /\ Created
  /\ agentDown' = TRUE
  /\ UNCHANGED vars

\* Withdrawals that were submitted before may still be included.
InFlight ==
  /\ agentDown
  /\ \E proof \in proofs, key \in Keys, coin \in pending \cup {NoCoin},
        dest \in Addresses :
       /\ proof.nonce \notin OwnerNonces
       /\ WithdrawWithProof(proof, proof.nonce, proof.amount, proof.recipient,
                            key, coin, dest)
  /\ UNCHANGED agentDown

OwnerGrantsItself ==
  /\ agentDown
  /\ pending # {}
  /\ ~ PolicyAllows(0, owner)
  /\ SetPolicy(owner, 0, {owner}, MaxTime)
  /\ UNCHANGED agentDown

OwnerProof(p) == p.nonce \in OwnerNonces \ usedNonces

OwnerProves ==
  /\ agentDown
  /\ pending # {}
  /\ ~ \E p \in proofs : OwnerProof(p)
  /\ \E nonce \in OwnerNonces : GenerateProof(identityHash, nonce, 0, owner)
  /\ UNCHANGED agentDown

OwnerReceives ==
  /\ agentDown
  /\ \E p \in proofs, key \in Keys, coin \in pending :
       /\ OwnerProof(p)
       /\ WithdrawWithProof(p, p.nonce, 0, owner, key, coin, owner)
  /\ UNCHANGED agentDown

OwnerTakesStaged ==
  /\ agentDown
  /\ \E key \in Keys : staged[key] > 0 /\ OwnerWithdraw(owner, staged[key], key)
  /\ UNCHANGED agentDown

TimePasses ==
  /\ agentDown
  /\ Tick
  /\ UNCHANGED agentDown

RNext ==
  \/ AgentUp
  \/ AgentDisappears
  \/ InFlight
  \/ OwnerGrantsItself
  \/ OwnerProves
  \/ OwnerReceives
  \/ OwnerTakesStaged
  \/ TimePasses

\* The owner is diligent: it carries its procedure through.  Nothing is asked
\* of the agent, of the clock or of transactions in flight.
RSpec ==
  /\ RInit
  /\ [][RNext]_rvars
  /\ WF_rvars(OwnerGrantsItself)
  /\ WF_rvars(OwnerProves)
  /\ WF_rvars(OwnerReceives)
  /\ WF_rvars(OwnerTakesStaged)

\* The vault "is never bricked by agent downtime": from wherever the agent
\* left it (revoked, expired or exhausted policy, coins never received), a
\* diligent owner gets every coin out of the vault.
NeverBricked ==
  agentDown ~> (pending = {} /\ \A key \in Keys : staged[key] = 0)
=============================================================================
