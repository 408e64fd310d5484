------------------------------- MODULE Vault -------------------------------
(***************************************************************************)
(* The iWallet vault: one shared IIdentity object of the Move contract     *)
(* sources/prototype.move, together with the part of the ledger it touches *)
(* (coins sent to the object's address, the balances of addresses, the     *)
(* clock, the event log) and the withdrawal proofs made for it.            *)
(*                                                                         *)
(* A transaction that aborts is rolled back as a whole by the Move VM, so  *)
(* each entry function is one action whose guard is the conjunction of the *)
(* assertions it passes through, in the order of the source; a call that   *)
(* fails any of them is no step.                                           *)
(*                                                                         *)
(* Data abstraction.  keccak256 over nonce || amount || recipient is taken *)
(* to be injective, Groth16 to be sound, and Poseidon to be injective on   *)
(* Witnesses: a proof IS the record of public inputs it was made for.      *)
(* IWalletOwner is not tied to an identity in the source (any cap of any   *)
(* identity is accepted), so it constrains nobody and is left out; and     *)
(* `daily_limit`, `spent_today`, `last_reset_timestamp` and `revoked` are  *)
(* written once and never read.                                            *)
(***************************************************************************)
EXTENDS Integers, Sequences, FiniteSets, Functions

CONSTANTS
  Addresses,       \* Sui addresses: owner, agent, protocol objects
  Witnesses,       \* private witnesses; the vault is registered under one
  Nonces,          \* 32-byte nonces
  Keys,            \* keys of the staged_balances bag
  CoinIds,         \* object ids for coins sent to the vault's address
  Amounts,         \* coin values and withdrawal amounts that are tried
  Caps,            \* budget_cap arguments that are tried
  RecipientLists,  \* allow_recipients arguments that are tried
  Expiries,        \* expiration_ms arguments that are tried
  U64Max,          \* largest u64
  InitialWallet,   \* balance every address starts with
  MaxTime,         \* bound: the clock stops here
  MaxGrants,       \* bound: calls of set_policy
  Nobody, NoPolicy, NoCoin   \* Option::none and "not created yet"

VARIABLES
  owner,          \* identity.owner, Nobody before create_iidentity
  identityHash,   \* the witness whose Poseidon hash is registered
  policy,         \* identity.active_policy
  usedNonces,     \* identity.used_nonces
  bagKeys,        \* the keys present in identity.staged_balances
  staged,         \* their balances (0 for an absent key)
  pending,        \* Coin<T> objects owned by the vault's address, unreceived
  wallet,         \* coins held by each address
  clock,          \* sui::clock::timestamp_ms
  proofs,         \* public inputs of every proof that was ever generated
  log,            \* events emitted: PolicyUpdatedEvent, AgentExecutionEvent
  granted,        \* history: sum of the budget caps of all policies ever set
  extracted       \* history: sum of the amounts of all executions

identityVars == <<owner, identityHash>>
vaultVars == <<owner, identityHash, policy, usedNonces, bagKeys, staged>>
vars == <<owner, identityHash, policy, usedNonces, bagKeys, staged,
          pending, wallet, clock, proofs, log, granted, extracted>>
history == <<log, granted, extracted>>

Policy == [budget_cap : Nat, amount_spent : Nat,
           allow_recipients : SUBSET Addresses, expiration_ms : Nat]

PublicInputs == [identity_hash : Witnesses, nonce : Nonces,
                 amount : Nat, recipient : Addresses]

Coin == [id : CoinIds, value : Nat]

\* Addresses are 32 bytes and keys are type names of bounded length: there
\* are finitely many of either.
ASSUME VaultAssumption ==
  /\ IsFiniteSet(Addresses) /\ IsFiniteSet(Keys)
  /\ Amounts \subseteq 0 .. U64Max
  /\ Caps \subseteq 0 .. U64Max
  /\ RecipientLists \subseteq SUBSET Addresses
  /\ Expiries \subseteq Nat
  /\ U64Max \in Nat /\ MaxTime \in Nat /\ MaxGrants \in Nat
  /\ InitialWallet \in [Addresses -> Nat]
  /\ Nobody \notin Addresses \cup Witnesses
  /\ NoPolicy \notin Policy
  /\ NoCoin \notin Coin

PolicyUpdatedEvent == [type : {"PolicyUpdated"}, budget_cap : Nat]
AgentExecutionEvent == [type : {"AgentExecution"}, nonce : Nonces,
                        amount : Nat, recipient : Addresses, coin_type : Keys]

Init ==
  /\ owner = Nobody
  /\ identityHash = Nobody
  /\ policy = NoPolicy
  /\ usedNonces = {}
  /\ bagKeys = {}
  /\ staged = [k \in Keys |-> 0]
  /\ pending = {}
  /\ wallet = InitialWallet
  /\ clock = 0
  /\ proofs = {}
  /\ log = <<>>
  /\ granted = 0
  /\ extracted = 0

Created == owner # Nobody

IsExecution(e) == e.type = "AgentExecution"

\* create_iidentity: the sender becomes the owner, the witness hash is
\* registered, there is no policy and nothing is staged.
CreateIIdentity(sender, w) ==
  /\ ~ Created
  /\ owner' = sender
  /\ identityHash' = w
  /\ UNCHANGED <<policy, usedNonces, bagKeys, staged, pending, wallet, clock,
                 proofs, history>>

\* The funding model is transfer-to-object: anybody sends a coin to the
\* vault's address, where it sits until a withdrawal receives it.
TransferToObject(from, id, value) ==
  /\ Created
  /\ value <= wallet[from]
  /\ \A c \in pending : c.id # id
  /\ pending' = pending \cup {[id |-> id, value |-> value]}
  /\ wallet' = [wallet EXCEPT ![from] = @ - value]
  /\ UNCHANGED <<vaultVars, clock, proofs, history>>

GrantCount == Cardinality({i \in DOMAIN log : ~ IsExecution(log[i])})

\* Mutation: the tracker survives the new policy.
SetPolicy_KeepsSpent(sender, cap, recipients, expiration) ==
  /\ sender = owner
  /\ GrantCount < MaxGrants
  /\ policy' = [budget_cap |-> cap,
                amount_spent |-> IF policy = NoPolicy THEN 0
                                 ELSE policy.amount_spent,
                allow_recipients |-> recipients, expiration_ms |-> expiration]
  /\ log' = Append(log, [type |-> "PolicyUpdated", budget_cap |-> cap])
  /\ granted' = granted + cap
  /\ UNCHANGED <<identityVars, usedNonces, bagKeys, staged, pending, wallet,
                 clock, proofs, extracted>>

\* set_policy: a fresh AgentPolicy, amount_spent 0, replaces the active one.
SetPolicy(sender, cap, recipients, expiration) ==
  /\ sender = owner
  /\ GrantCount < MaxGrants
  /\ policy' = [budget_cap |-> cap, amount_spent |-> 0,
                allow_recipients |-> recipients, expiration_ms |-> expiration]
  /\ log' = Append(log, [type |-> "PolicyUpdated", budget_cap |-> cap])
  /\ granted' = granted + cap
  /\ UNCHANGED <<identityVars, usedNonces, bagKeys, staged, pending, wallet,
                 clock, proofs, extracted>>

\* revoke_policy: the policy, if any, is dropped; no event is emitted.
RevokePolicy(sender) ==
  /\ sender = owner
  /\ policy' = NoPolicy
  /\ UNCHANGED <<identityVars, usedNonces, bagKeys, staged, pending, wallet,
                 clock, proofs, history>>

\* Mutation: the balance is not checked.
OwnerWithdraw_NoBalanceCheck(sender, amount, key) ==
  /\ sender = owner
  /\ key \in bagKeys
  /\ staged' = [staged EXCEPT ![key] = @ - amount]
  /\ wallet' = [wallet EXCEPT ![sender] = @ + amount]
  /\ UNCHANGED <<identityVars, policy, usedNonces, bagKeys, pending, clock,
                 proofs, history>>

\* owner_withdraw: the owner takes staged funds without a proof.
OwnerWithdraw(sender, amount, key) ==
  /\ sender = owner
  /\ key \in bagKeys
  /\ amount <= staged[key]
  /\ staged' = [staged EXCEPT ![key] = @ - amount]
  /\ wallet' = [wallet EXCEPT ![sender] = @ + amount]
  /\ UNCHANGED <<identityVars, policy, usedNonces, bagKeys, pending, clock,
                 proofs, history>>

\* Off chain, the holder of witness w makes a proof for an intent under a
\* nonce drawn at random, so never one that was drawn before.
GenerateProof(w, nonce, amount, recipient) ==
  /\ Created
  /\ \A p \in proofs : p.nonce # nonce
  /\ proofs' = proofs \cup {[identity_hash |-> w, nonce |-> nonce,
                             amount |-> amount, recipient |-> recipient]}
  /\ UNCHANGED <<vaultVars, pending, wallet, clock, history>>

\* Mutations of Rules A and B: the expiry is not looked at; the cap bounds
\* each withdrawal instead of their total; the last unit cannot be spent.
PolicyAllows_NoExpiry(amount, recipient) ==
  /\ policy # NoPolicy
  /\ policy.amount_spent + amount <= policy.budget_cap
  /\ recipient \in policy.allow_recipients

PolicyAllows_CapPerCall(amount, recipient) ==
  /\ policy # NoPolicy
  /\ clock <= policy.expiration_ms
  /\ amount <= policy.budget_cap
  /\ recipient \in policy.allow_recipients

PolicyAllows_StrictCap(amount, recipient) ==
  /\ policy # NoPolicy
  /\ clock <= policy.expiration_ms
  /\ policy.amount_spent + amount < policy.budget_cap
  /\ recipient \in policy.allow_recipients

\* Policy enforcement: Rules A (expiry), B (budget) and C (recipient).  The
\* u64 sum of Rule B aborts on overflow, as any sum over budget_cap does.
PolicyAllows(amount, recipient) ==
  /\ policy # NoPolicy
  /\ clock <= policy.expiration_ms
  /\ policy.amount_spent + amount <= policy.budget_cap
  /\ recipient \in policy.allow_recipients

\* The public inputs the contract recomputes from the call's own arguments.
ExpectedPublicInputs(nonce, amount, recipient) ==
  [identity_hash |-> identityHash, nonce |-> nonce, amount |-> amount,
   recipient |-> recipient]

\* Mutations: replay is not looked at; the recipient is not bound.
ProofAccepted_Replay(proof, nonce, amount, recipient) ==
  proof = ExpectedPublicInputs(nonce, amount, recipient)

ProofAccepted_AnyRecipient(proof, nonce, amount, recipient) ==
  /\ nonce \notin usedNonces
  /\ proof = ExpectedPublicInputs(nonce, amount, proof.recipient)

\* Replay protection, intent binding and verification of the proof.
ProofAccepted(proof, nonce, amount, recipient) ==
  /\ nonce \notin usedNonces
  /\ proof = ExpectedPublicInputs(nonce, amount, recipient)

\* Mutation: the received coin is dropped when the bag has balances.
Received_NotJoined(coin) == IF coin = NoCoin \/ bagKeys # {} THEN 0 ELSE coin.value

\* What the optional Receiving<Coin<T>> argument adds to the balance under key.
Received(coin) == IF coin = NoCoin THEN 0 ELSE coin.value

\* withdraw_with_proof, with the destination its PTB gives the returned coin.
WithdrawWithProof(proof, nonce, amount, recipient, key, coin, dest) ==
  /\ PolicyAllows(amount, recipient)
  /\ ProofAccepted(proof, nonce, amount, recipient)
  /\ key \in bagKeys \/ coin # NoCoin
  /\ amount <= staged[key] + Received(coin)
  /\ policy' = [policy EXCEPT !.amount_spent = @ + amount]
  /\ usedNonces' = usedNonces \cup {nonce}
  /\ pending' = pending \ {coin}
  /\ bagKeys' = bagKeys \cup {key}
  /\ staged' = [staged EXCEPT ![key] = @ + Received(coin) - amount]
  /\ wallet' = [wallet EXCEPT ![dest] = @ + amount]
  /\ log' = Append(log, [type |-> "AgentExecution", nonce |-> nonce,
                         amount |-> amount, recipient |-> recipient,
                         coin_type |-> key])
  /\ extracted' = extracted + amount
  /\ UNCHANGED <<identityVars, clock, proofs, granted>>

\* A transaction is included after any delay, in any order, or again.
Withdraw ==
  \E proof \in proofs, nonce \in Nonces, amount \in Amounts,
     recipient \in Addresses, key \in Keys, coin \in pending \cup {NoCoin},
     dest \in Addresses :
       WithdrawWithProof(proof, nonce, amount, recipient, key, coin, dest)

Tick ==
  /\ clock < MaxTime
  /\ clock' = clock + 1
  /\ UNCHANGED <<vaultVars, pending, wallet, proofs, history>>

Next ==
  \/ \E a \in Addresses, w \in Witnesses : CreateIIdentity(a, w)
  \/ \E a \in Addresses, id \in CoinIds, v \in Amounts :
       TransferToObject(a, id, v)
  \/ \E a \in Addresses, cap \in Caps, R \in RecipientLists, t \in Expiries :
       SetPolicy(a, cap, R, t)
  \/ \E a \in Addresses : RevokePolicy(a)
  \/ \E a \in Addresses, v \in Amounts, k \in Keys : OwnerWithdraw(a, v, k)
  \/ \E w \in Witnesses, n \in Nonces, v \in Amounts, r \in Addresses :
       GenerateProof(w, n, v, r)
  \/ Withdraw
  \/ Tick

Spec == Init /\ [][Next]_vars
-----------------------------------------------------------------------------
(***************************************************************************)
(* Safety.                                                                 *)
(***************************************************************************)

\* The type invariant: every field holds a value the Move types allow.
TypeOK ==
  /\ owner \in Addresses \cup {Nobody}
  /\ identityHash \in Witnesses \cup {Nobody}
  /\ policy \in Policy \cup {NoPolicy}
  /\ usedNonces \subseteq Nonces
  /\ bagKeys \subseteq Keys
  /\ staged \in [Keys -> Nat]
  /\ pending \subseteq Coin
  /\ wallet \in [Addresses -> Nat]
  /\ clock \in Nat
  /\ proofs \subseteq PublicInputs
  /\ log \in Seq(PolicyUpdatedEvent \cup AgentExecutionEvent)
  /\ granted \in Nat
  /\ extracted \in Nat

\* What the owner has ever handed out bounds what was ever extracted, over
\* any number of policies, revocations and re-grants: the part of a grant that
\* is left when set_policy replaces it is forfeited, never carried over.
UnspentGrant ==
  IF policy = NoPolicy THEN 0 ELSE policy.budget_cap - policy.amount_spent

ExtractionWithinGrants ==
  /\ UnspentGrant >= 0
  /\ extracted + UnspentGrant <= granted

\* The executions of the active policy, read off the event log: those after
\* the last PolicyUpdatedEvent.
ActiveExecutions ==
  {i \in DOMAIN log : /\ IsExecution(log[i])
                      /\ \A j \in i .. Len(log) : IsExecution(log[j])}

LoggedTotal(indices) == SumFunction([i \in indices |-> log[i].amount])

\* `amount_spent` is the total of the AgentExecutionEvents emitted since the
\* policy was set, and `extracted` the total of all of them: a reader of the
\* events (the dashboard) and the contract agree on the budget that is left,
\* through any sequence of grants, revocations and withdrawals.
SpentMatchesLog ==
  /\ policy # NoPolicy => policy.amount_spent = LoggedTotal(ActiveExecutions)
  /\ extracted = LoggedTotal({i \in DOMAIN log : IsExecution(log[i])})

\* A nonce is executed at most once for the whole life of the vault, across
\* policies and keys, and it is marked used exactly when it was executed: a
\* withdrawal that aborts burns no nonce.
SingleUse ==
  /\ \A i, j \in DOMAIN log :
       IsExecution(log[i]) /\ IsExecution(log[j]) /\ log[i].nonce = log[j].nonce
         => i = j
  /\ \A n \in Nonces :
       n \in usedNonces
         <=> \E i \in DOMAIN log : IsExecution(log[i]) /\ log[i].nonce = n

\* Everything executed was authorised as it was executed: by the holder of
\* the registered witness, for that very amount and recipient.
ExecutionsAuthorised ==
  \A i \in DOMAIN log : IsExecution(log[i]) =>
    [identity_hash |-> identityHash, nonce |-> log[i].nonce,
     amount |-> log[i].amount, recipient |-> log[i].recipient] \in proofs

\* Value is neither minted nor lost: coins in wallets, waiting at the vault's
\* address and staged in its bag add up to what there was, and nothing is
\* staged under a key the bag does not have (it could not be taken out).
Conservation ==
  /\ SumFunction(wallet) + SumFunction(staged)
       + SumFunction([c \in pending |-> c.value]) = SumFunction(InitialWallet)
  /\ \A k \in Keys : staged[k] > 0 => k \in bagKeys

-----------------------------------------------------------------------------
(***************************************************************************)
(* What the vault promises the owner who delegates to an agent: the        *)
(* abstract specification Delegation.  A policy past its expiration is no  *)
(* authority, whatever its fields say.                                     *)
(***************************************************************************)
Live == policy # NoPolicy /\ clock <= policy.expiration_ms

D == INSTANCE Delegation WITH
       Payees    <- Addresses,
       Grants    <- Caps,
       live      <- Live,
       allowance <- IF Live THEN UnspentGrant ELSE 0,
       payees    <- IF Live THEN policy.allow_recipients ELSE {},
       consumed  <- usedNonces,
       drawn     <- extracted

\* The contract implements the delegation contract: what an agent draws, it
\* draws under a live grant, within what is left of it, for a listed payee,
\* once per nonce; revocation, expiry and re-grant end the grant at once.
ImplementsDelegation == D!Spec
=============================================================================
