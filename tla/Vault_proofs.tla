---------------------------- MODULE Vault_proofs ----------------------------
(***************************************************************************)
(* Theorems about the vault, for every value of its constants.             *)
(***************************************************************************)
EXTENDS Vault, FiniteSums, TLAPS

\* The arithmetic of a withdrawal: it starts from a policy, stays within its
\* cap, and takes no more than is staged under the key with the received coin.
LEMMA WithdrawEffect ==
  ASSUME TypeOK,
         NEW proof \in proofs, NEW nonce \in Nonces, NEW amount \in Amounts,
         NEW recipient \in Addresses, NEW key \in Keys,
         NEW coin \in pending \cup {NoCoin}, NEW dest \in Addresses,
         WithdrawWithProof(proof, nonce, amount, recipient, key, coin, dest)
  PROVE  /\ amount \in Nat /\ Received(coin) \in Nat
         /\ policy \in Policy
         /\ policy.amount_spent + amount <= policy.budget_cap
         /\ policy' = [policy EXCEPT !.amount_spent = policy.amount_spent + amount]
         /\ policy' \in Policy
         /\ staged' \in [Keys -> Nat]
         /\ wallet' \in [Addresses -> Nat]
<1>1. amount \in Nat
  BY VaultAssumption
<1>2. Received(coin) \in Nat
  BY DEF TypeOK, Received, Coin
<1>3. policy \in Policy
  BY DEF TypeOK, WithdrawWithProof, PolicyAllows
<1>4. /\ policy.amount_spent + amount <= policy.budget_cap
      /\ policy' = [policy EXCEPT !.amount_spent = policy.amount_spent + amount]
  BY DEF WithdrawWithProof, PolicyAllows
<1>5. policy.amount_spent + amount \in Nat
  BY <1>1, <1>3 DEF Policy
<1>6. policy' \in Policy
  BY <1>3, <1>4, <1>5 DEF Policy
<1>7. staged' \in [Keys -> Nat]
  <2>1. /\ staged \in [Keys -> Nat]
        /\ amount <= staged[key] + Received(coin)
        /\ staged' = [staged EXCEPT ![key] = staged[key] + Received(coin) - amount]
    BY DEF TypeOK, WithdrawWithProof
  <2>2. staged[key] + Received(coin) - amount \in Nat
    BY <1>1, <1>2, <2>1
  <2>3. QED
    BY <2>1, <2>2
<1>8. wallet' \in [Addresses -> Nat]
  <2>1. /\ wallet \in [Addresses -> Nat]
        /\ wallet' = [wallet EXCEPT ![dest] = wallet[dest] + amount]
    BY DEF TypeOK, WithdrawWithProof
  <2>2. QED
    BY <1>1, <2>1
<1>9. QED
  BY <1>1, <1>2, <1>3, <1>4, <1>6, <1>7, <1>8

\* Every step keeps the types: balances never go below zero, the tracker and
\* the log stay well formed.
LEMMA TypeStep == TypeOK /\ [Next]_vars => TypeOK'
<1> SUFFICES ASSUME TypeOK, [Next]_vars PROVE TypeOK'
  OBVIOUS
<1> USE VaultAssumption DEF TypeOK, identityVars, vaultVars, history
<1>1. ASSUME NEW a \in Addresses, NEW w \in Witnesses, CreateIIdentity(a, w)
      PROVE  TypeOK'
  BY <1>1 DEF CreateIIdentity
<1>2. ASSUME NEW a \in Addresses, NEW id \in CoinIds, NEW v \in Amounts,
             TransferToObject(a, id, v)
      PROVE  TypeOK'
  <2>1. v \in Nat /\ wallet[a] - v \in Nat
    BY <1>2 DEF TransferToObject
  <2>2. wallet' \in [Addresses -> Nat]
    BY <1>2, <2>1 DEF TransferToObject
  <2>3. pending' \subseteq Coin
    BY <1>2, <2>1 DEF TransferToObject, Coin
  <2>4. QED
    BY <1>2, <2>2, <2>3 DEF TransferToObject
<1>3. ASSUME NEW a \in Addresses, NEW cap \in Caps,
             NEW R \in RecipientLists, NEW t \in Expiries,
             SetPolicy(a, cap, R, t)
      PROVE  TypeOK'
  <2>1. cap \in Nat /\ t \in Nat /\ R \subseteq Addresses
    OBVIOUS
  <2>2. policy' \in Policy
    BY <1>3, <2>1 DEF SetPolicy, Policy
  <2>3. log' \in Seq(PolicyUpdatedEvent \cup AgentExecutionEvent)
    BY <1>3, <2>1 DEF SetPolicy, PolicyUpdatedEvent
  <2>4. QED
    BY <1>3, <2>1, <2>2, <2>3 DEF SetPolicy
<1>4. ASSUME NEW a \in Addresses, RevokePolicy(a)
      PROVE  TypeOK'
  BY <1>4 DEF RevokePolicy
<1>5. ASSUME NEW a \in Addresses, NEW v \in Amounts, NEW k \in Keys,
             OwnerWithdraw(a, v, k)
      PROVE  TypeOK'
  <2>1. v \in Nat /\ staged[k] - v \in Nat /\ wallet[a] + v \in Nat
    BY <1>5 DEF OwnerWithdraw
  <2>2. QED
    BY <1>5, <2>1 DEF OwnerWithdraw
<1>6. ASSUME NEW w \in Witnesses, NEW n \in Nonces, NEW v \in Amounts,
             NEW r \in Addresses, GenerateProof(w, n, v, r)
      PROVE  TypeOK'
  <2>1. proofs' \subseteq PublicInputs
    BY <1>6 DEF GenerateProof, PublicInputs
  <2>2. QED
    BY <1>6, <2>1 DEF GenerateProof
<1>7. CASE Withdraw
  <2> PICK proof \in proofs, nonce \in Nonces, amount \in Amounts,
           recipient \in Addresses, key \in Keys,
           coin \in pending \cup {NoCoin}, dest \in Addresses :
             WithdrawWithProof(proof, nonce, amount, recipient, key, coin, dest)
    BY <1>7 DEF Withdraw
  <2>1. /\ amount \in Nat /\ policy' \in Policy
        /\ staged' \in [Keys -> Nat] /\ wallet' \in [Addresses -> Nat]
    BY WithdrawEffect
  <2>2. log' \in Seq(PolicyUpdatedEvent \cup AgentExecutionEvent)
    BY <2>1 DEF WithdrawWithProof, AgentExecutionEvent
  <2>3. usedNonces' = usedNonces \cup {nonce} /\ bagKeys' = bagKeys \cup {key}
    BY DEF WithdrawWithProof
  <2>4. pending' = pending \ {coin} /\ extracted' = extracted + amount
    BY DEF WithdrawWithProof
  <2>5. UNCHANGED <<owner, identityHash, clock, proofs, granted>>
    BY DEF WithdrawWithProof
  <2>6. QED
    BY <2>1, <2>2, <2>3, <2>4, <2>5
<1>8. CASE Tick
  BY <1>8 DEF Tick
<1>9. CASE UNCHANGED vars
  BY <1>9 DEF vars
<1>10. QED
  BY <1>1, <1>2, <1>3, <1>4, <1>5, <1>6, <1>7, <1>8, <1>9 DEF Next

\* The type invariant holds in every reachable state of every instance.
THEOREM TypeCorrect == Spec => []TypeOK
<1>1. Init => TypeOK
  BY VaultAssumption DEF Init, TypeOK
<1>2. QED
  BY <1>1, TypeStep, PTL DEF Spec

-----------------------------------------------------------------------------
\* What a step can do to the records the invariants below speak of: nothing,
\* or it is one of the calls that touch them.
LEMMA StepKinds ==
  ASSUME [Next]_vars
  PROVE  \/ UNCHANGED <<owner, identityHash, policy, usedNonces, proofs, log,
                        granted, extracted>>
         \/ \E a \in Addresses, w \in Witnesses : CreateIIdentity(a, w)
         \/ \E a \in Addresses, cap \in Caps, R \in RecipientLists,
               t \in Expiries : SetPolicy(a, cap, R, t)
         \/ \E a \in Addresses : RevokePolicy(a)
         \/ \E w \in Witnesses, n \in Nonces, v \in Amounts, r \in Addresses :
              GenerateProof(w, n, v, r)
         \/ Withdraw
BY DEF Next, vars, vaultVars, identityVars, history, TransferToObject,
       OwnerWithdraw, Tick

\* Budget: over the whole life of the vault, and whatever the order of grants,
\* revocations and withdrawals, the agent extracts no more than the sum of
\* the caps the owner ever set, and a replaced or revoked grant is forfeited.
THEOREM BudgetBounded == Spec => []ExtractionWithinGrants
<1>1. Init => ExtractionWithinGrants
  BY DEF Init, ExtractionWithinGrants, UnspentGrant
<1>2. TypeOK /\ ExtractionWithinGrants /\ [Next]_vars => ExtractionWithinGrants'
  <2> SUFFICES ASSUME TypeOK, ExtractionWithinGrants, [Next]_vars
               PROVE  ExtractionWithinGrants'
    OBVIOUS
  <2> USE DEF ExtractionWithinGrants, UnspentGrant
  <2>1. CASE UNCHANGED <<owner, identityHash, policy, usedNonces, proofs, log,
                         granted, extracted>>
    BY <2>1
  <2>2. ASSUME NEW a \in Addresses, NEW w \in Witnesses, CreateIIdentity(a, w)
        PROVE  ExtractionWithinGrants'
    BY <2>2 DEF CreateIIdentity, history
  <2>3. ASSUME NEW a \in Addresses, NEW cap \in Caps,
               NEW R \in RecipientLists, NEW t \in Expiries,
               SetPolicy(a, cap, R, t)
        PROVE  ExtractionWithinGrants'
    <3>1. cap \in Nat /\ granted \in Nat /\ extracted \in Nat
      BY VaultAssumption DEF TypeOK
    <3>2. policy' # NoPolicy
      <4>1. policy' \in Policy
        BY <2>3, <3>1, VaultAssumption DEF SetPolicy, Policy
      <4>2. QED
        BY <4>1, VaultAssumption
    <3>3. extracted <= granted
      BY <3>1 DEF TypeOK, Policy
    <3>4. policy'.budget_cap - policy'.amount_spent = cap
      BY <2>3, <3>1 DEF SetPolicy
    <3>5. granted' = granted + cap /\ extracted' = extracted
      BY <2>3 DEF SetPolicy
    <3>6. QED
      BY <3>1, <3>2, <3>3, <3>4, <3>5
  <2>4. ASSUME NEW a \in Addresses, RevokePolicy(a)
        PROVE  ExtractionWithinGrants'
    BY <2>4 DEF RevokePolicy, history, TypeOK, Policy
  <2>5. ASSUME NEW w \in Witnesses, NEW n \in Nonces, NEW v \in Amounts,
               NEW r \in Addresses, GenerateProof(w, n, v, r)
        PROVE  ExtractionWithinGrants'
    BY <2>5 DEF GenerateProof, vaultVars, history
  <2>6. CASE Withdraw
    <3> PICK proof \in proofs, nonce \in Nonces, amount \in Amounts,
             recipient \in Addresses, key \in Keys,
             coin \in pending \cup {NoCoin}, dest \in Addresses :
               WithdrawWithProof(proof, nonce, amount, recipient, key, coin, dest)
      BY <2>6 DEF Withdraw
    <3>1. /\ amount \in Nat /\ policy \in Policy /\ policy' \in Policy
          /\ policy.amount_spent + amount <= policy.budget_cap
          /\ policy' = [policy EXCEPT !.amount_spent = policy.amount_spent + amount]
      BY WithdrawEffect
    <3>2. policy # NoPolicy /\ policy' # NoPolicy
      BY <3>1, VaultAssumption
    <3>3. /\ policy'.budget_cap = policy.budget_cap
          /\ policy'.amount_spent = policy.amount_spent + amount
          /\ policy.budget_cap \in Nat /\ policy.amount_spent \in Nat
      BY <3>1 DEF Policy
    <3>4. extracted' = extracted + amount /\ granted' = granted
      BY DEF WithdrawWithProof
    <3>5. QED
      BY <3>1, <3>2, <3>3, <3>4 DEF TypeOK
  <2>7. QED
    BY <2>1, <2>2, <2>3, <2>4, <2>5, <2>6, StepKinds
<1>3. QED
  BY <1>1, <1>2, TypeCorrect, PTL DEF Spec

-----------------------------------------------------------------------------
\* SingleUse and ExecutionsAuthorised are inductive together with the fact
\* that nothing happens to a vault before it is created: identityHash is then
\* still to be chosen, so no execution may refer to it.
AuthorityInv ==
  /\ SingleUse
  /\ ExecutionsAuthorised
  /\ ~ Created => policy = NoPolicy /\ log = <<>>

\* A policy event appended to the log is no execution.
LEMMA SetPolicyKeepsAuthority ==
  ASSUME TypeOK, AuthorityInv,
         NEW a \in Addresses, NEW cap \in Caps, NEW R \in RecipientLists,
         NEW t \in Expiries, SetPolicy(a, cap, R, t)
  PROVE  AuthorityInv'
<1> DEFINE e == [type |-> "PolicyUpdated", budget_cap |-> cap]
<1>1. /\ log' = Append(log, e)
      /\ UNCHANGED <<owner, identityHash, usedNonces, proofs>>
  BY DEF SetPolicy, identityVars
<1>2. Created'
  BY <1>1, VaultAssumption DEF SetPolicy, Created
<1>3. ~ IsExecution(e)
  BY DEF IsExecution
<1> HIDE DEF e
<1>4. /\ DOMAIN log' = DOMAIN log \cup {Len(log) + 1}
      /\ \A i \in DOMAIN log : log'[i] = log[i]
      /\ log'[Len(log) + 1] = e
  BY <1>1 DEF TypeOK
<1>5. \A i \in DOMAIN log' : IsExecution(log'[i]) =>
        i \in DOMAIN log /\ log'[i] = log[i]
  BY <1>3, <1>4
<1>6. SingleUse'
  BY <1>1, <1>4, <1>5 DEF AuthorityInv, SingleUse, IsExecution
<1>7. ExecutionsAuthorised'
  BY <1>1, <1>4, <1>5 DEF AuthorityInv, ExecutionsAuthorised, IsExecution
<1>8. QED
  BY <1>2, <1>6, <1>7 DEF AuthorityInv, Created

\* A withdrawal appends one execution, of a nonce that had none, for which a
\* proof exists.
LEMMA WithdrawKeepsAuthority ==
  ASSUME TypeOK, AuthorityInv,
         NEW proof \in proofs, NEW nonce \in Nonces, NEW amount \in Amounts,
         NEW recipient \in Addresses, NEW key \in Keys,
         NEW coin \in pending \cup {NoCoin}, NEW dest \in Addresses,
         WithdrawWithProof(proof, nonce, amount, recipient, key, coin, dest)
  PROVE  AuthorityInv'
<1> DEFINE e == [type |-> "AgentExecution", nonce |-> nonce,
                 amount |-> amount, recipient |-> recipient,
                 coin_type |-> key]
<1>1. /\ log' = Append(log, e)
      /\ usedNonces' = usedNonces \cup {nonce}
      /\ nonce \notin usedNonces
      /\ policy # NoPolicy
      /\ UNCHANGED <<owner, identityHash, proofs>>
  BY DEF WithdrawWithProof, identityVars, ProofAccepted, PolicyAllows
<1>2. [identity_hash |-> identityHash, nonce |-> nonce, amount |-> amount,
       recipient |-> recipient] \in proofs
  BY DEF WithdrawWithProof, ProofAccepted, ExpectedPublicInputs
<1>3. e.nonce = nonce /\ e.amount = amount /\ e.recipient = recipient
      /\ IsExecution(e)
  BY DEF IsExecution
<1> HIDE DEF e
<1>4. /\ DOMAIN log' = DOMAIN log \cup {Len(log) + 1}
      /\ Len(log) + 1 \notin DOMAIN log
      /\ \A i \in DOMAIN log : log'[i] = log[i]
      /\ log'[Len(log) + 1] = e
  BY <1>1 DEF TypeOK
<1>5. \A i \in DOMAIN log : IsExecution(log[i]) => log[i].nonce # nonce
  BY <1>1 DEF AuthorityInv, SingleUse
<1>6. SingleUse'
  <2>1. \A i, j \in DOMAIN log' :
          IsExecution(log'[i]) /\ IsExecution(log'[j])
            /\ log'[i].nonce = log'[j].nonce => i = j
    BY <1>3, <1>4, <1>5 DEF AuthorityInv, SingleUse
  <2>2. ASSUME NEW n \in Nonces
        PROVE  n \in usedNonces'
                 <=> \E i \in DOMAIN log' :
                       IsExecution(log'[i]) /\ log'[i].nonce = n
    BY <1>1, <1>3, <1>4 DEF AuthorityInv, SingleUse
  <2>3. QED
    BY <2>1, <2>2 DEF SingleUse, IsExecution
<1>7. ExecutionsAuthorised'
  BY <1>1, <1>2, <1>3, <1>4 DEF AuthorityInv, ExecutionsAuthorised, IsExecution
<1>8. Created'
  BY <1>1 DEF AuthorityInv, Created
<1>9. QED
  BY <1>6, <1>7, <1>8 DEF AuthorityInv, Created

LEMMA AuthorityInductive == TypeOK /\ AuthorityInv /\ [Next]_vars => AuthorityInv'
<1> SUFFICES ASSUME TypeOK, AuthorityInv, [Next]_vars PROVE AuthorityInv'
  OBVIOUS
<1>1. CASE UNCHANGED <<owner, identityHash, policy, usedNonces, proofs, log,
                       granted, extracted>>
  BY <1>1 DEF AuthorityInv, SingleUse, ExecutionsAuthorised, Created
<1>2. ASSUME NEW a \in Addresses, NEW w \in Witnesses, CreateIIdentity(a, w)
      PROVE  AuthorityInv'
  <2>1. log = <<>> /\ log' = <<>> /\ usedNonces' = usedNonces /\ policy' = policy
    BY <1>2 DEF CreateIIdentity, AuthorityInv, history
  <2>2. QED
    BY <1>2, <2>1 DEF CreateIIdentity, AuthorityInv, SingleUse,
                      ExecutionsAuthorised, Created
<1>3. ASSUME NEW a \in Addresses, NEW cap \in Caps,
             NEW R \in RecipientLists, NEW t \in Expiries,
             SetPolicy(a, cap, R, t)
      PROVE  AuthorityInv'
  BY <1>3, SetPolicyKeepsAuthority
<1>4. ASSUME NEW a \in Addresses, RevokePolicy(a)
      PROVE  AuthorityInv'
  BY <1>4 DEF RevokePolicy, identityVars, history, AuthorityInv, SingleUse,
              ExecutionsAuthorised, Created
<1>5. ASSUME NEW w \in Witnesses, NEW n \in Nonces, NEW v \in Amounts,
             NEW r \in Addresses, GenerateProof(w, n, v, r)
      PROVE  AuthorityInv'
  BY <1>5 DEF GenerateProof, vaultVars, history, AuthorityInv, SingleUse,
              ExecutionsAuthorised, Created
<1>6. CASE Withdraw
  BY <1>6, WithdrawKeepsAuthority DEF Withdraw
<1>7. QED
  BY <1>1, <1>2, <1>3, <1>4, <1>5, <1>6, StepKinds

LEMMA AuthorityInvariant == Spec => []AuthorityInv
<1>1. Init => AuthorityInv
  BY DEF Init, AuthorityInv, SingleUse, ExecutionsAuthorised
<1>2. QED
  BY <1>1, AuthorityInductive, TypeCorrect, PTL DEF Spec

\* Replay: no nonce is ever executed twice, whatever is delayed, resubmitted
\* or submitted again under a later policy.
THEOREM NoReplay == Spec => []SingleUse
<1>1. AuthorityInv => SingleUse
  BY DEF AuthorityInv
<1>2. QED
  BY <1>1, AuthorityInvariant, PTL

\* Intent binding: every execution was proved by the holder of the registered
\* witness for exactly that nonce, amount and recipient.
THEOREM IntentBinding == Spec => []ExecutionsAuthorised
<1>1. AuthorityInv => ExecutionsAuthorised
  BY DEF AuthorityInv
<1>2. QED
  BY <1>1, AuthorityInvariant, PTL

-----------------------------------------------------------------------------
\* A step that leaves the policy, the nonces and the total alone: a grant that
\* the clock has just outrun ends, any other stays as it is.
LEMMA ClockStepRefines ==
  ASSUME TypeOK, UNCHANGED <<policy, usedNonces, extracted>>,
         clock' \in {clock, clock + 1}
  PROVE  [D!Next]_(D!vars)
<1>1. CASE ~ Live'
  BY <1>1 DEF D!Next, D!End
<1>2. CASE Live'
  <2>1. policy \in Policy
    BY <1>2 DEF Live, TypeOK
  <2>2. Live
    BY <1>2, <2>1 DEF Live, TypeOK, Policy
  <2>3. QED
    BY <1>2, <2>2 DEF D!vars, UnspentGrant
<1>3. QED
  BY <1>1, <1>2

\* set_policy is a grant, or the end of the old one if it is born expired.
LEMMA SetPolicyRefines ==
  ASSUME TypeOK, NEW a \in Addresses, NEW cap \in Caps,
         NEW R \in RecipientLists, NEW t \in Expiries, SetPolicy(a, cap, R, t)
  PROVE  [D!Next]_(D!vars)
<1>1. cap \in Nat /\ R \in SUBSET Addresses /\ t \in Nat
  BY VaultAssumption
<1>2. /\ policy' = [budget_cap |-> cap, amount_spent |-> 0,
                    allow_recipients |-> R, expiration_ms |-> t]
      /\ UNCHANGED <<usedNonces, extracted, clock>>
  BY DEF SetPolicy
<1>3. policy' # NoPolicy
  <2>1. policy' \in Policy
    BY <1>1, <1>2 DEF Policy
  <2>2. QED
    BY <2>1, VaultAssumption
<1>4. UnspentGrant' = cap /\ policy'.allow_recipients = R
  BY <1>1, <1>2, <1>3 DEF UnspentGrant
<1>5. CASE ~ Live'
  BY <1>2, <1>5 DEF D!Next, D!End
<1>6. CASE Live'
  BY <1>1, <1>2, <1>4, <1>6 DEF D!Next, D!Grant
<1>7. QED
  BY <1>5, <1>6

\* withdraw_with_proof is a draw on the live grant.
LEMMA WithdrawRefines ==
  ASSUME TypeOK,
         NEW proof \in proofs, NEW nonce \in Nonces, NEW amount \in Amounts,
         NEW recipient \in Addresses, NEW key \in Keys,
         NEW coin \in pending \cup {NoCoin}, NEW dest \in Addresses,
         WithdrawWithProof(proof, nonce, amount, recipient, key, coin, dest)
  PROVE  [D!Next]_(D!vars)
<1>1. /\ amount \in Nat /\ policy \in Policy /\ policy' \in Policy
      /\ policy.amount_spent + amount <= policy.budget_cap
      /\ policy' = [policy EXCEPT !.amount_spent = policy.amount_spent + amount]
  BY WithdrawEffect
<1>2. /\ policy'.budget_cap = policy.budget_cap
      /\ policy'.amount_spent = policy.amount_spent + amount
      /\ policy'.allow_recipients = policy.allow_recipients
      /\ policy'.expiration_ms = policy.expiration_ms
      /\ policy.budget_cap \in Nat /\ policy.amount_spent \in Nat
  BY <1>1 DEF Policy
<1>3. policy # NoPolicy /\ policy' # NoPolicy
  BY <1>1, VaultAssumption
<1>4. /\ clock <= policy.expiration_ms
      /\ recipient \in policy.allow_recipients
      /\ nonce \notin usedNonces
      /\ usedNonces' = usedNonces \cup {nonce}
      /\ extracted' = extracted + amount
      /\ clock' = clock
  BY DEF WithdrawWithProof, PolicyAllows, ProofAccepted
<1>5. Live /\ Live'
  BY <1>2, <1>3, <1>4 DEF Live
<1>6. /\ UnspentGrant = policy.budget_cap - policy.amount_spent
      /\ UnspentGrant' = UnspentGrant - amount
      /\ amount \in 0 .. UnspentGrant
  BY <1>1, <1>2, <1>3 DEF UnspentGrant
<1>7. D!Draw(nonce, amount, recipient)
  BY <1>2, <1>4, <1>5, <1>6 DEF D!Draw
<1>8. QED
  BY <1>4, <1>5, <1>6, <1>7 DEF D!Next

\* The contract implements Delegation: an agent draws only under a grant that
\* is live, within what is left of it, for a listed payee and once per nonce;
\* revocation, expiry and a new grant take effect at once.
THEOREM DelegationImplemented == Spec => ImplementsDelegation
<1>1. Init => D!Init
  BY DEF Init, D!Init, Live
<1>2. TypeOK /\ [Next]_vars => [D!Next]_(D!vars)
  <2> SUFFICES ASSUME TypeOK, [Next]_vars PROVE [D!Next]_(D!vars)
    OBVIOUS
  <2>1. ASSUME NEW a \in Addresses, NEW cap \in Caps,
               NEW R \in RecipientLists, NEW t \in Expiries,
               SetPolicy(a, cap, R, t)
        PROVE  [D!Next]_(D!vars)
    BY <2>1, SetPolicyRefines
  <2>2. ASSUME NEW a \in Addresses, RevokePolicy(a)
        PROVE  [D!Next]_(D!vars)
    <3>1. ~ Live' /\ UNCHANGED <<usedNonces, extracted>>
      BY <2>2 DEF RevokePolicy, Live, history
    <3>2. QED
      BY <3>1 DEF D!Next, D!End
  <2>3. CASE Withdraw
    BY <2>3, WithdrawRefines DEF Withdraw
  <2>4. CASE \/ \E a \in Addresses, w \in Witnesses : CreateIIdentity(a, w)
             \/ \E a \in Addresses, id \in CoinIds, v \in Amounts :
                  TransferToObject(a, id, v)
             \/ \E a \in Addresses, v \in Amounts, k \in Keys :
                  OwnerWithdraw(a, v, k)
             \/ \E w \in Witnesses, n \in Nonces, v \in Amounts,
                   r \in Addresses : GenerateProof(w, n, v, r)
             \/ Tick
             \/ UNCHANGED vars
    <3>1. /\ UNCHANGED <<policy, usedNonces, extracted>>
          /\ clock' \in {clock, clock + 1}
      BY <2>4 DEF CreateIIdentity, TransferToObject, OwnerWithdraw,
                  GenerateProof, Tick, vars, vaultVars, identityVars, history
    <3>2. QED
      BY <3>1, ClockStepRefines
  <2>5. QED
    BY <2>1, <2>2, <2>3, <2>4 DEF Next
<1>3. QED
  BY <1>1, <1>2, TypeCorrect, PTL DEF Spec, ImplementsDelegation, D!Spec

-----------------------------------------------------------------------------
\* The event log as an account book.
Total(events, I) == SumFunction([i \in I |-> events[i].amount])
Executions == {i \in DOMAIN log : IsExecution(log[i])}

\* An execution's amount is a natural number, and the log is finite.
LEMMA LoggedAmounts ==
  ASSUME TypeOK
  PROVE  /\ DOMAIN log = 1 .. Len(log) /\ Len(log) \in Nat
         /\ IsFiniteSet(Executions) /\ IsFiniteSet(ActiveExecutions)
         /\ ActiveExecutions \subseteq Executions
         /\ \A i \in Executions : log[i].amount \in Nat
<1>1. /\ log \in Seq(PolicyUpdatedEvent \cup AgentExecutionEvent)
      /\ Len(log) \in Nat /\ DOMAIN log = 1 .. Len(log)
  BY DEF TypeOK
<1>2. IsFiniteSet(1 .. Len(log))
  BY <1>1, FS_Interval
<1>3. Executions \subseteq 1 .. Len(log) /\ ActiveExecutions \subseteq Executions
  BY <1>1 DEF Executions, ActiveExecutions
<1>4. \A i \in Executions : log[i] \in AgentExecutionEvent
  BY <1>1 DEF Executions, IsExecution, PolicyUpdatedEvent
<1>5. QED
  BY <1>1, <1>2, <1>3, <1>4, FS_Subset DEF AgentExecutionEvent

\* An execution appended to the log adds its amount to any total of
\* executions that it is made part of.
LEMMA TotalGrows ==
  ASSUME TypeOK, NEW e, IsExecution(e), e.amount \in Nat,
         log' = Append(log, e),
         NEW I \in SUBSET Executions
  PROVE  Total(log', I \cup {Len(log) + 1}) = Total(log, I) + e.amount
<1> DEFINE n == Len(log) + 1
           J == I \cup {n}
           f == [i \in I |-> log[i].amount]
           h == [i \in J |-> log'[i].amount]
<1>1. /\ DOMAIN log = 1 .. Len(log) /\ Len(log) \in Nat
      /\ IsFiniteSet(Executions)
      /\ \A i \in Executions : log[i].amount \in Nat
  BY LoggedAmounts
<1>2. IsFiniteSet(I) /\ n \notin I
  BY <1>1, FS_Subset DEF Executions
<1>3. log'[n] = e /\ \A i \in I : log'[i] = log[i]
  <2>1. log \in Seq(PolicyUpdatedEvent \cup AgentExecutionEvent)
    BY DEF TypeOK
  <2>2. \A i \in I : i \in 1 .. Len(log)
    BY <1>1 DEF Executions
  <2>3. QED
    BY <2>1, <2>2
<1>4. /\ h[n] = e.amount
      /\ \A i \in I : h[i] = f[i] /\ f[i] \in Nat
  BY <1>1, <1>3
<1>5. /\ SumFunction(f) = SumFunctionOnSet(f, I)
      /\ SumFunction(h) = SumFunctionOnSet(h, J)
  BY DEF SumFunction
<1> HIDE DEF f, h, n
<1>6. SumFunctionOnSet(h, J) = h[n] + SumFunctionOnSet(h, I)
  BY <1>2, <1>4, SumAdd
<1>7. SumFunctionOnSet(h, I) = SumFunctionOnSet(f, I)
  BY <1>2, <1>4, SumAgree
<1>8. SumFunctionOnSet(f, I) \in Nat
  BY <1>2, <1>4, SumNat
<1>9. SumFunction(h) = SumFunction(f) + e.amount
  BY <1>4, <1>5, <1>6, <1>7, <1>8
<1>10. QED
  BY <1>9 DEF f, h, n, Total

\* A policy event appended to the log leaves the total of all executions as
\* it was, and no execution is one of the new policy's.
LEMMA SetPolicyKeepsTotals ==
  ASSUME TypeOK, SpentMatchesLog,
         NEW a \in Addresses, NEW cap \in Caps, NEW R \in RecipientLists,
         NEW t \in Expiries, SetPolicy(a, cap, R, t)
  PROVE  SpentMatchesLog'
<1> DEFINE e == [type |-> "PolicyUpdated", budget_cap |-> cap]
<1>1. /\ log' = Append(log, e) /\ extracted' = extracted
      /\ policy'.amount_spent = 0
  BY DEF SetPolicy
<1>2. ~ IsExecution(e)
  BY DEF IsExecution
<1> HIDE DEF e
<1>3. /\ Len(log') = Len(log) + 1
      /\ DOMAIN log' = DOMAIN log \cup {Len(log) + 1}
      /\ \A i \in DOMAIN log : log'[i] = log[i]
      /\ log'[Len(log) + 1] = e
      /\ DOMAIN log = 1 .. Len(log) /\ Len(log) \in Nat
  BY <1>1 DEF TypeOK
<1>4. Executions' = Executions
  BY <1>2, <1>3 DEF Executions
<1>5. LoggedTotal(Executions)' = LoggedTotal(Executions)
  <2>1. [i \in Executions |-> log'[i].amount] = [i \in Executions |-> log[i].amount]
    BY <1>3 DEF Executions
  <2>2. QED
    BY <1>4, <2>1 DEF LoggedTotal
<1>6. ActiveExecutions' = {}
  <2>1. ASSUME NEW i \in ActiveExecutions' PROVE FALSE
    <3>1. Len(log) + 1 \in i .. Len(log')
      BY <1>3 DEF ActiveExecutions
    <3>2. IsExecution(log'[Len(log) + 1])
      BY <3>1 DEF ActiveExecutions, IsExecution
    <3>3. QED
      BY <1>2, <1>3, <3>2
  <2>2. QED
    BY <2>1
<1>7. LoggedTotal(ActiveExecutions)' = 0
  <2> DEFINE z == [i \in {} |-> log'[i].amount]
  <2>1. SumFunction(z) = SumFunctionOnSet(z, {})
    BY DEF SumFunction
  <2>2. SumFunction(z) = 0
    BY <2>1, SumEmpty
  <2>3. QED
    BY <1>6, <2>2 DEF LoggedTotal
<1>8. QED
  BY <1>1, <1>5, <1>7 DEF SpentMatchesLog, Executions

\* A withdrawal adds its amount to the tracker, to the total of all
\* executions and to that of the active policy's.
LEMMA WithdrawKeepsTotals ==
  ASSUME TypeOK, SpentMatchesLog,
         NEW proof \in proofs, NEW nonce \in Nonces, NEW amount \in Amounts,
         NEW recipient \in Addresses, NEW key \in Keys,
         NEW coin \in pending \cup {NoCoin}, NEW dest \in Addresses,
         WithdrawWithProof(proof, nonce, amount, recipient, key, coin, dest)
  PROVE  SpentMatchesLog'
<1> DEFINE e == [type |-> "AgentExecution", nonce |-> nonce,
                 amount |-> amount, recipient |-> recipient,
                 coin_type |-> key]
           n == Len(log) + 1
<1>1. log' = Append(log, e) /\ extracted' = extracted + amount
  BY DEF WithdrawWithProof
<1>2. /\ amount \in Nat /\ policy \in Policy
      /\ policy' = [policy EXCEPT !.amount_spent = policy.amount_spent + amount]
  BY WithdrawEffect
<1>3. policy # NoPolicy /\ policy'.amount_spent = policy.amount_spent + amount
  BY <1>2, VaultAssumption DEF Policy
<1>4. IsExecution(e) /\ e.amount = amount
  BY DEF IsExecution
<1> HIDE DEF e
<1>5. /\ Len(log') = n /\ n \notin DOMAIN log
      /\ DOMAIN log' = DOMAIN log \cup {n}
      /\ \A i \in DOMAIN log : log'[i] = log[i]
      /\ log'[n] = e
      /\ DOMAIN log = 1 .. Len(log) /\ Len(log) \in Nat
  BY <1>1 DEF TypeOK
<1>6. Executions' = Executions \cup {n}
  BY <1>4, <1>5 DEF Executions
<1>7. ActiveExecutions' = ActiveExecutions \cup {n}
  <2>1. ASSUME NEW i \in DOMAIN log'
        PROVE  i \in ActiveExecutions' <=> i \in ActiveExecutions \cup {n}
    <3>1. CASE i = n
      <4>1. n \in DOMAIN log' /\ IsExecution(log'[n])
        BY <1>4, <1>5
      <4>2. \A j \in n .. Len(log') : j = n
        BY <1>5
      <4>3. QED
        BY <3>1, <4>1, <4>2 DEF ActiveExecutions, IsExecution
    <3>2. CASE i # n
      <4>1. i \in DOMAIN log /\ i \in Nat /\ log'[i] = log[i]
        BY <1>5, <3>2
      <4>2. i .. Len(log') = (i .. Len(log)) \cup {n}
        BY <1>5, <4>1
      <4>3. \A j \in i .. Len(log) : log'[j] = log[j]
        BY <1>5, <4>1
      <4>4. QED
        BY <1>4, <1>5, <3>2, <4>1, <4>2, <4>3 DEF ActiveExecutions, IsExecution
    <3>3. QED
      BY <3>1, <3>2
  <2>2. ActiveExecutions' \subseteq DOMAIN log'
        /\ ActiveExecutions \cup {n} \subseteq DOMAIN log'
    BY <1>5 DEF ActiveExecutions
  <2>3. QED
    BY <2>1, <2>2
<1>8. ActiveExecutions \subseteq Executions
  BY LoggedAmounts
<1>9. /\ Total(log', Executions') = Total(log, Executions) + amount
      /\ Total(log', ActiveExecutions') = Total(log, ActiveExecutions) + amount
  BY <1>1, <1>2, <1>4, <1>6, <1>7, <1>8, TotalGrows
<1>10. QED
  BY <1>1, <1>3, <1>9 DEF SpentMatchesLog, LoggedTotal, Total, Executions

LEMMA TotalsInductive ==
  TypeOK /\ SpentMatchesLog /\ [Next]_vars => SpentMatchesLog'
<1> SUFFICES ASSUME TypeOK, SpentMatchesLog, [Next]_vars PROVE SpentMatchesLog'
  OBVIOUS
<1>1. CASE UNCHANGED <<policy, log, extracted>>
  BY <1>1 DEF SpentMatchesLog, LoggedTotal, ActiveExecutions, IsExecution
<1>2. ASSUME NEW a \in Addresses, NEW cap \in Caps,
             NEW R \in RecipientLists, NEW t \in Expiries,
             SetPolicy(a, cap, R, t)
      PROVE  SpentMatchesLog'
  BY <1>2, SetPolicyKeepsTotals
<1>3. ASSUME NEW a \in Addresses, RevokePolicy(a)
      PROVE  SpentMatchesLog'
  BY <1>3 DEF RevokePolicy, history, SpentMatchesLog, LoggedTotal, IsExecution
<1>4. CASE Withdraw
  BY <1>4, WithdrawKeepsTotals DEF Withdraw
<1>5. ASSUME NEW a \in Addresses, NEW w \in Witnesses, CreateIIdentity(a, w)
      PROVE  SpentMatchesLog'
  BY <1>1, <1>5 DEF CreateIIdentity, history
<1>6. ASSUME NEW w \in Witnesses, NEW n \in Nonces, NEW v \in Amounts,
             NEW r \in Addresses, GenerateProof(w, n, v, r)
      PROVE  SpentMatchesLog'
  BY <1>1, <1>6 DEF GenerateProof, vaultVars, history
<1>7. QED
  BY <1>1, <1>2, <1>3, <1>4, <1>5, <1>6, StepKinds

\* The tracker and the event log are two accounts of one spending: whatever
\* grants, revocations and withdrawals there were, the events since the last
\* grant add up to amount_spent, and all of them to what was extracted.
THEOREM TrackerMatchesLog == Spec => []SpentMatchesLog
<1>1. Init => SpentMatchesLog
  <2> SUFFICES ASSUME Init PROVE SpentMatchesLog
    OBVIOUS
  <2>1. /\ policy = NoPolicy /\ extracted = 0
        /\ {i \in DOMAIN log : IsExecution(log[i])} = {}
    BY DEF Init
  <2> DEFINE z == [i \in {} |-> log[i].amount]
  <2>2. SumFunction(z) = SumFunctionOnSet(z, {})
    BY DEF SumFunction
  <2>3. SumFunction(z) = 0
    BY <2>2, SumEmpty
  <2>4. QED
    BY <2>1, <2>3 DEF SpentMatchesLog, LoggedTotal
<1>2. QED
  BY <1>1, TotalsInductive, TypeCorrect, PTL DEF Spec

-----------------------------------------------------------------------------
\* Value is conserved by every step.  Coins arrive one by one, so those that
\* wait at the vault's address are finitely many at any time.
FundsInv == IsFiniteSet(pending) /\ Conservation

PendingValue(C) == SumFunction([c \in C |-> c.value])

\* A coin more, or one less, among the waiting ones.
LEMMA CoinArrives ==
  ASSUME NEW C \in SUBSET Coin, IsFiniteSet(C), NEW c \in Coin, c \notin C
  PROVE  /\ IsFiniteSet(C \cup {c})
         /\ PendingValue(C) \in Nat
         /\ PendingValue(C \cup {c}) = PendingValue(C) + c.value
<1> DEFINE f == [x \in C |-> x.value]
           h == [x \in C \cup {c} |-> x.value]
<1>1. /\ \A x \in C : f[x] \in Nat /\ h[x] = f[x]
      /\ h[c] = c.value /\ c.value \in Nat
  BY DEF Coin
<1>2. /\ PendingValue(C) = SumFunctionOnSet(f, C)
      /\ PendingValue(C \cup {c}) = SumFunctionOnSet(h, C \cup {c})
  BY DEF PendingValue, SumFunction
<1> HIDE DEF f, h
<1>3. SumFunctionOnSet(h, C \cup {c}) = h[c] + SumFunctionOnSet(h, C)
  BY <1>1, SumAdd
<1>4. SumFunctionOnSet(h, C) = SumFunctionOnSet(f, C)
  BY <1>1, SumAgree
<1>5. SumFunctionOnSet(f, C) \in Nat
  BY <1>1, SumNat
<1>6. QED
  BY <1>1, <1>2, <1>3, <1>4, <1>5, FS_AddElement

\* What the received coin was worth leaves the waiting coins.
LEMMA CoinReceived ==
  ASSUME TypeOK, IsFiniteSet(pending), NEW coin \in pending \cup {NoCoin}
  PROVE  /\ IsFiniteSet(pending \ {coin})
         /\ PendingValue(pending) \in Nat
         /\ PendingValue(pending \ {coin}) \in Nat
         /\ PendingValue(pending)
              = PendingValue(pending \ {coin}) + Received(coin)
<1>1. pending \subseteq Coin /\ NoCoin \notin Coin
  BY VaultAssumption DEF TypeOK
<1>2. CASE coin = NoCoin
  <2>1. pending \ {coin} = pending /\ Received(coin) = 0
    BY <1>1, <1>2 DEF Received
  <2> DEFINE f == [x \in pending |-> x.value]
  <2>2. \A x \in pending : f[x] \in Nat
    BY <1>1 DEF Coin
  <2>3. PendingValue(pending) = SumFunctionOnSet(f, pending)
    BY DEF PendingValue, SumFunction
  <2>4. PendingValue(pending) \in Nat
    BY <2>2, <2>3, SumNat
  <2>5. QED
    BY <2>1, <2>4
<1>3. CASE coin # NoCoin
  <2> DEFINE rest == pending \ {coin}
  <2>1. /\ coin \in Coin /\ Received(coin) = coin.value /\ coin.value \in Nat
        /\ rest \in SUBSET Coin /\ coin \notin rest
        /\ pending = rest \cup {coin}
    BY <1>1, <1>3 DEF Received, Coin
  <2>2. IsFiniteSet(rest)
    BY FS_Subset
  <2> HIDE DEF rest
  <2>3. /\ PendingValue(rest) \in Nat
        /\ PendingValue(pending) = PendingValue(rest) + coin.value
    BY <2>1, <2>2, CoinArrives
  <2>4. QED
    BY <2>1, <2>2, <2>3 DEF rest
<1>4. QED
  BY <1>2, <1>3

\* One balance changes, of an address or of a key.
LEMMA WalletChange ==
  ASSUME wallet \in [Addresses -> Nat], wallet' \in [Addresses -> Nat],
         NEW a \in Addresses, \A b \in Addresses \ {a} : wallet'[b] = wallet[b]
  PROVE  /\ SumFunction(wallet) \in Nat
         /\ SumFunction(wallet') = SumFunction(wallet) - wallet[a] + wallet'[a]
<1>1. IsFiniteSet(Addresses)
  BY VaultAssumption
<1>2. QED
  BY <1>1, SumChange

LEMMA StagedChange ==
  ASSUME staged \in [Keys -> Nat], staged' \in [Keys -> Nat],
         NEW k \in Keys, \A x \in Keys \ {k} : staged'[x] = staged[x]
  PROVE  /\ SumFunction(staged) \in Nat
         /\ SumFunction(staged') = SumFunction(staged) - staged[k] + staged'[k]
<1>1. IsFiniteSet(Keys)
  BY VaultAssumption
<1>2. QED
  BY <1>1, SumChange

\* A withdrawal pays out of the staged balance, to which the received coin was
\* joined; the key it was taken from is in the bag from then on.
LEMMA WithdrawKeepsFunds ==
  ASSUME TypeOK, FundsInv,
         NEW proof \in proofs, NEW nonce \in Nonces, NEW amount \in Amounts,
         NEW recipient \in Addresses, NEW key \in Keys,
         NEW coin \in pending \cup {NoCoin}, NEW dest \in Addresses,
         WithdrawWithProof(proof, nonce, amount, recipient, key, coin, dest)
  PROVE  FundsInv'
<1>1. /\ amount <= staged[key] + Received(coin)
      /\ pending' = pending \ {coin}
      /\ bagKeys' = bagKeys \cup {key}
      /\ staged' = [staged EXCEPT ![key] = staged[key] + Received(coin) - amount]
      /\ wallet' = [wallet EXCEPT ![dest] = wallet[dest] + amount]
  BY DEF WithdrawWithProof
<1>2. amount \in Nat /\ Received(coin) \in Nat
  BY WithdrawEffect
<1>3. staged \in [Keys -> Nat] /\ wallet \in [Addresses -> Nat]
  BY DEF TypeOK
<1>4. /\ staged[key] \in Nat /\ wallet[dest] \in Nat
      /\ staged[key] + Received(coin) - amount \in Nat
      /\ wallet[dest] + amount \in Nat
  BY <1>1, <1>2, <1>3
<1>5. /\ SumFunction(staged) \in Nat
      /\ SumFunction(staged')
           = SumFunction(staged) - staged[key] + staged'[key]
      /\ staged'[key] = staged[key] + Received(coin) - amount
  BY <1>1, <1>3, <1>4, StagedChange
<1>6. /\ SumFunction(wallet) \in Nat
      /\ SumFunction(wallet')
           = SumFunction(wallet) - wallet[dest] + wallet'[dest]
      /\ wallet'[dest] = wallet[dest] + amount
  BY <1>1, <1>3, <1>4, WalletChange
<1>7. /\ IsFiniteSet(pending')
      /\ PendingValue(pending) \in Nat /\ PendingValue(pending') \in Nat
      /\ PendingValue(pending) = PendingValue(pending') + Received(coin)
  BY <1>1, CoinReceived DEF FundsInv
<1>8. SumFunction(wallet) + SumFunction(staged) + PendingValue(pending)
        = SumFunction(InitialWallet)
  BY DEF FundsInv, Conservation, PendingValue
<1>9. SumFunction(wallet') + SumFunction(staged') + PendingValue(pending')
        = SumFunction(InitialWallet)
  BY <1>2, <1>4, <1>5, <1>6, <1>7, <1>8
<1>10. \A k \in Keys : staged'[k] > 0 => k \in bagKeys'
  BY <1>1, <1>3 DEF FundsInv, Conservation
<1>11. QED
  BY <1>7, <1>9, <1>10 DEF FundsInv, Conservation, PendingValue

LEMMA FundsInductive == TypeOK /\ FundsInv /\ [Next]_vars => FundsInv'
<1> SUFFICES ASSUME TypeOK, FundsInv, [Next]_vars PROVE FundsInv'
  OBVIOUS
<1>0. /\ staged \in [Keys -> Nat] /\ wallet \in [Addresses -> Nat]
      /\ pending \subseteq Coin /\ IsFiniteSet(pending)
      /\ SumFunction(wallet) + SumFunction(staged) + PendingValue(pending)
           = SumFunction(InitialWallet)
  BY DEF TypeOK, FundsInv, Conservation, PendingValue
<1>1. CASE UNCHANGED <<bagKeys, staged, pending, wallet>>
  BY <1>1 DEF FundsInv, Conservation
<1>2. ASSUME NEW a \in Addresses, NEW id \in CoinIds, NEW v \in Amounts,
             TransferToObject(a, id, v)
      PROVE  FundsInv'
  <2> DEFINE c == [id |-> id, value |-> v]
  <2>1. /\ v <= wallet[a] /\ \A x \in pending : x.id # id
        /\ pending' = pending \cup {c}
        /\ wallet' = [wallet EXCEPT ![a] = wallet[a] - v]
        /\ UNCHANGED <<staged, bagKeys>>
    BY <1>2 DEF TransferToObject, vaultVars
  <2>2. v \in Nat /\ wallet[a] \in Nat /\ wallet[a] - v \in Nat
    BY <1>0, <2>1, VaultAssumption
  <2>3. c \in Coin /\ c \notin pending /\ c.value = v
    BY <2>1, <2>2 DEF Coin
  <2> HIDE DEF c
  <2>4. /\ IsFiniteSet(pending') /\ PendingValue(pending) \in Nat
        /\ PendingValue(pending') = PendingValue(pending) + v
    BY <1>0, <2>1, <2>3, CoinArrives
  <2>5. /\ SumFunction(wallet) \in Nat
        /\ SumFunction(wallet') = SumFunction(wallet) - wallet[a] + wallet'[a]
        /\ wallet'[a] = wallet[a] - v
    BY <1>0, <2>1, <2>2, WalletChange
  <2>6. SumFunction(staged) \in Nat
    <3>1. \A k \in Keys : staged[k] \in Nat
      BY <1>0
    <3>2. SumFunction(staged) = SumFunctionOnSet(staged, Keys)
      BY <1>0 DEF SumFunction
    <3>3. QED
      BY <3>1, <3>2, SumNat, VaultAssumption
  <2>7. SumFunction(wallet') + SumFunction(staged) + PendingValue(pending')
          = SumFunction(InitialWallet)
    BY <1>0, <2>2, <2>4, <2>5, <2>6
  <2>8. QED
    BY <2>1, <2>4, <2>7 DEF FundsInv, Conservation, PendingValue
<1>3. ASSUME NEW a \in Addresses, NEW v \in Amounts, NEW k \in Keys,
             OwnerWithdraw(a, v, k)
      PROVE  FundsInv'
  <2>1. /\ v <= staged[k] /\ k \in bagKeys
        /\ staged' = [staged EXCEPT ![k] = staged[k] - v]
        /\ wallet' = [wallet EXCEPT ![a] = wallet[a] + v]
        /\ UNCHANGED <<pending, bagKeys>>
    BY <1>3 DEF OwnerWithdraw
  <2>2. /\ v \in Nat /\ staged[k] \in Nat /\ wallet[a] \in Nat
        /\ staged[k] - v \in Nat /\ wallet[a] + v \in Nat
    BY <1>0, <2>1, VaultAssumption
  <2>3. /\ SumFunction(staged) \in Nat
        /\ SumFunction(staged') = SumFunction(staged) - staged[k] + staged'[k]
        /\ staged'[k] = staged[k] - v
    BY <1>0, <2>1, <2>2, StagedChange
  <2>4. /\ SumFunction(wallet) \in Nat
        /\ SumFunction(wallet') = SumFunction(wallet) - wallet[a] + wallet'[a]
        /\ wallet'[a] = wallet[a] + v
    BY <1>0, <2>1, <2>2, WalletChange
  <2>5. SumFunction(wallet') + SumFunction(staged')
          = SumFunction(wallet) + SumFunction(staged)
    BY <2>2, <2>3, <2>4
  <2>6. \A x \in Keys : staged'[x] > 0 => x \in bagKeys'
    BY <1>0, <2>1 DEF FundsInv, Conservation
  <2>7. QED
    BY <1>0, <2>1, <2>5, <2>6 DEF FundsInv, Conservation, PendingValue
<1>4. CASE Withdraw
  BY <1>4, WithdrawKeepsFunds DEF Withdraw
<1>5. QED
  BY <1>1, <1>2, <1>3, <1>4
     DEF Next, vars, vaultVars, identityVars, history, CreateIIdentity,
         SetPolicy, RevokePolicy, GenerateProof, Tick

\* No call mints or loses value, and none strands a balance under a key the
\* bag does not hold.
THEOREM ValueConserved == Spec => []Conservation
<1>1. Init => FundsInv
  <2> SUFFICES ASSUME Init PROVE FundsInv
    OBVIOUS
  <2>1. /\ pending = {} /\ wallet = InitialWallet
        /\ staged = [k \in Keys |-> 0]
    BY DEF Init
  <2>2. IsFiniteSet(pending)
    BY <2>1, FS_EmptySet
  <2>3. SumFunction([c \in pending |-> c.value]) = 0
    <3> DEFINE z == [c \in {} |-> c.value]
    <3>1. SumFunction(z) = SumFunctionOnSet(z, {})
      BY DEF SumFunction
    <3>2. SumFunction(z) = 0
      BY <3>1, SumEmpty
    <3>3. QED
      BY <2>1, <3>2
  <2>4. SumFunction(staged) = 0
    <3>1. \A k \in Keys : staged[k] = 0
      BY <2>1
    <3>2. SumFunction(staged) = SumFunctionOnSet(staged, Keys)
      BY <2>1 DEF SumFunction
    <3>3. QED
      BY <3>1, <3>2, SumZero, VaultAssumption
  <2>5. SumFunction(wallet) \in Nat
    <3>1. /\ wallet \in [Addresses -> Nat]
          /\ \A a \in Addresses : wallet[a] \in Nat
      BY <2>1, VaultAssumption
    <3>2. SumFunction(wallet) = SumFunctionOnSet(wallet, Addresses)
      BY <3>1 DEF SumFunction
    <3>3. QED
      BY <3>1, <3>2, SumNat, VaultAssumption
  <2>6. \A k \in Keys : ~ (staged[k] > 0)
    BY <2>1
  <2>7. QED
    BY <2>1, <2>2, <2>3, <2>4, <2>5, <2>6 DEF FundsInv, Conservation
<1>2. FundsInv => Conservation
  BY DEF FundsInv
<1>3. QED
  BY <1>1, <1>2, FundsInductive, TypeCorrect, PTL DEF Spec
=============================================================================
