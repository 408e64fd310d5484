-------------------------- MODULE CreateFlow_proofs --------------------------
(***************************************************************************)
(* Proofs about CreateFlow, for any accounts and bounds.  Both results     *)
(* rest on one inductive invariant: besides the types, it says what a call *)
(* of onCreate that has not got its identity yet may still add to the      *)
(* chain (Pending), and that one setting the policy has an identity.       *)
(***************************************************************************)
EXTENDS CreateFlow, FiniteSetTheorems, TLAPS

Owners == Accounts \cup {Passkey}
Identity == [owner : Owners, witness : Nat, policy : BOOLEAN]
Form == [source : Sources, witness : Nat, submitting : BOOLEAN, createdId : Nat]
Run == [pc : {"idle", "vk", "create", "policy"}, path : {"sponsored", "direct"},
        source : Sources, owner : Owners \cup {None}, witness : Nat, id : Nat]

Types ==
  /\ chain \in Seq(Identity)
  /\ account \in Accounts
  /\ form \in Form
  /\ run \in Run
  /\ saved \subseteq Ids
  /\ drawn \in 0 .. MaxWitnesses
  /\ clicks \in 0 .. MaxClicks /\ closed \in 0 .. MaxClosed
  /\ faults \in 0 .. MaxFaults

WitnessesDrawn ==
  /\ form.witness \in 0 .. drawn
  /\ \A i \in Ids : chain[i].witness \in 1 .. drawn

RunOK ==
  /\ form.submitting <=> run.pc # "idle"
  /\ run.pc # "idle" => run.owner \in Owners /\ run.witness \in 1 .. drawn
  /\ run.pc = "policy" => run.id \in Ids

Pending ==
  /\ Len(chain) <= clicks + faults
  /\ run.pc \in {"vk", "create"} => Len(chain) + 1 <= clicks + faults

IInv == Types /\ WitnessesDrawn /\ RunOK /\ Pending /\ SavedIsComplete

-----------------------------------------------------------------------------
\* Whoever signs, the sender of a transaction is one of the addresses.
LEMMA SenderIsOwner ==
  ASSUME IInv, Submitting
  PROVE  Sender \in Owners
<1>1. run.owner \in Owners
  BY DEF IInv, RunOK, Submitting
<1>2. account \in Owners
  BY DEF IInv, Types, Owners
<1>3. QED
  BY <1>1, <1>2 DEF Sender

\* What a transaction does to the chain: identities are only added, no
\* policy is taken away, and one that creates uses up what was pending.
LEMMA EffectOnChain ==
  ASSUME IInv, Executes \/ UNCHANGED chain
  PROVE  /\ chain' \in Seq(Identity)
         /\ Ids \subseteq Ids'
         /\ \A i \in Ids : chain[i].policy => chain'[i].policy
         /\ \A i \in Ids' : chain'[i].witness \in 1 .. drawn
         /\ Len(chain') <= clicks + faults
         /\ Len(chain') <= Len(chain) + 1
<1>1. chain \in Seq(Identity) /\ clicks \in Nat /\ faults \in Nat /\ drawn \in Nat
  BY CreateFlowAssumption DEF IInv, Types
<1>2. \A i \in Ids : chain[i].witness \in 1 .. drawn
  BY DEF IInv, WitnessesDrawn
<1>3. Len(chain) <= clicks + faults
  BY DEF IInv, Pending
<1>4. CASE UNCHANGED chain
  BY <1>1, <1>2, <1>3, <1>4 DEF Ids
<1>5. CASE Executes /\ run.pc = "create"
  <2> DEFINE new == [owner |-> Sender, witness |-> run.witness, policy |-> FALSE]
  <2>1. chain' = Append(chain, new)
    BY <1>5 DEF Executes
  <2>2. run.witness \in 1 .. drawn
    BY <1>5 DEF IInv, RunOK
  <2>3. new \in Identity
    BY <1>1, <1>5, <2>2, SenderIsOwner DEF Executes, Identity
  <2>4. new.witness \in 1 .. drawn
    BY <2>2
  <2>5. Len(chain) + 1 <= clicks + faults
    BY <1>5 DEF IInv, Pending
  <2> HIDE DEF new
  <2>6. /\ chain' \in Seq(Identity) /\ Len(chain') = Len(chain) + 1
        /\ \A i \in 1 .. Len(chain) : chain'[i] = chain[i]
        /\ chain'[Len(chain) + 1] = new
    BY <1>1, <2>1, <2>3
  <2>7. DOMAIN chain = 1 .. Len(chain) /\ DOMAIN chain' = 1 .. Len(chain')
    BY <1>1, <2>6
  <2>8. \A i \in Ids' : i \in Ids \/ i = Len(chain) + 1
    BY <1>1, <2>6, <2>7 DEF Ids
  <2>9. QED
    BY <1>1, <1>2, <2>4, <2>5, <2>6, <2>7, <2>8 DEF Ids
<1>6. CASE Executes /\ run.pc = "policy"
  <2>1. chain' = [chain EXCEPT ![run.id].policy = TRUE] /\ run.id \in Ids
    BY <1>6 DEF Executes, IInv, RunOK
  <2> DEFINE old == chain[run.id]
             new == [old EXCEPT !.policy = TRUE]
  <2>2. old \in Identity
    BY <1>1, <2>1 DEF Ids
  <2>3. chain' = [chain EXCEPT ![run.id] = new]
    BY <2>1
  <2> HIDE DEF old
  <2>4. new \in Identity /\ new.policy /\ new.witness = old.witness
    BY <2>2 DEF Identity
  <2> HIDE DEF new
  <2>5. /\ chain' \in Seq(Identity) /\ Len(chain') = Len(chain)
        /\ DOMAIN chain' = DOMAIN chain
    BY <1>1, <2>1, <2>3, <2>4 DEF Ids
  <2>6. \A i \in Ids : chain'[i].witness = chain[i].witness
                       /\ (chain[i].policy => chain'[i].policy)
    <3> SUFFICES ASSUME NEW i \in Ids
                 PROVE  chain'[i].witness = chain[i].witness
                        /\ (chain[i].policy => chain'[i].policy)
      OBVIOUS
    <3>1. CASE i = run.id
      BY <1>1, <2>1, <2>3, <2>4, <3>1 DEF Ids, old
    <3>2. CASE i # run.id
      BY <1>1, <2>1, <2>3, <3>2 DEF Ids
    <3>3. QED
      BY <3>1, <3>2
  <2>7. QED
    BY <1>1, <1>2, <1>3, <2>5, <2>6 DEF Ids
<1>7. QED
  BY <1>4, <1>5, <1>6 DEF Executes

\* A set_policy that executes leaves its identity with a policy.
LEMMA PolicyInForce ==
  ASSUME IInv, run.pc = "policy", Executes
  PROVE  run.id \in Ids /\ chain'[run.id].policy
<1>1. run.id \in Ids /\ chain \in Seq(Identity)
  BY DEF IInv, RunOK, Types
<1> DEFINE old == chain[run.id]
<1>2. old \in Identity
  BY <1>1 DEF Ids
<1>3. chain' = [chain EXCEPT ![run.id] = [old EXCEPT !.policy = TRUE]]
  BY <1>1 DEF Executes
<1> HIDE DEF old
<1>4. QED
  BY <1>1, <1>2, <1>3 DEF Ids, Identity

\* A set_policy completes only the identity of the run; any other call none.
LEMMA OthersIncomplete ==
  ASSUME IInv, Executes \/ UNCHANGED chain
  PROVE  /\ Complete \subseteq Complete'
         /\ Complete' \subseteq Complete \cup {run.id}
         /\ run.pc # "policy" => Complete' = Complete
<1>1. chain \in Seq(Identity)
  BY DEF IInv, Types
<1>2. Complete \subseteq Complete'
  BY EffectOnChain DEF Complete
<1>3. CASE UNCHANGED chain
  BY <1>3 DEF Complete, Ids
<1>4. CASE Executes /\ run.pc = "create"
  <2> DEFINE new == [owner |-> Sender, witness |-> run.witness, policy |-> FALSE]
  <2>1. chain' = Append(chain, new)
    BY <1>4 DEF Executes
  <2>2. ~ new.policy
    OBVIOUS
  <2> HIDE DEF new
  <2>3. /\ \A i \in 1 .. Len(chain) : chain'[i] = chain[i]
        /\ chain'[Len(chain) + 1] = new
        /\ DOMAIN chain = 1 .. Len(chain) /\ DOMAIN chain' = 1 .. Len(chain) + 1
    BY <1>1, <2>1
  <2>4. \A i \in 1 .. Len(chain) + 1 : i \in 1 .. Len(chain) \/ i = Len(chain) + 1
    BY <1>1
  <2>5. Complete' \subseteq Complete
    BY <2>2, <2>3, <2>4 DEF Complete, Ids
  <2>6. QED
    BY <1>2, <2>5
<1>5. CASE Executes /\ run.pc = "policy"
  <2>1. DOMAIN chain' = DOMAIN chain /\ \A i \in Ids : i # run.id => chain'[i] = chain[i]
    BY <1>1, <1>5 DEF Executes, Ids
  <2>2. Complete' \subseteq Complete \cup {run.id}
    BY <2>1 DEF Complete, Ids
  <2>3. QED
    BY <1>2, <1>5, <2>2
<1>6. QED
  BY <1>3, <1>4, <1>5 DEF Executes

\* What is complete and unstored can be counted, before a call and after it.
LEMMA CompleteFinite ==
  ASSUME IInv
  PROVE  IsFiniteSet(Complete \ saved)
<1>1. chain \in Seq(Identity)
  BY DEF IInv, Types
<1>2. IsFiniteSet(1 .. Len(chain))
  BY <1>1, FS_Interval
<1>3. Complete \ saved \subseteq 1 .. Len(chain)
  BY <1>1 DEF Complete, Ids
<1>4. QED
  BY <1>2, <1>3, FS_Subset

LEMMA UnstoredFinite ==
  ASSUME IInv, Executes \/ UNCHANGED chain
  PROVE  IsFiniteSet((Complete \ saved)')
<1>1. chain' \in Seq(Identity)
  BY EffectOnChain
<1>2. IsFiniteSet(1 .. Len(chain'))
  BY <1>1, FS_Interval
<1>3. (Complete \ saved)' \subseteq 1 .. Len(chain')
  BY <1>1 DEF Complete, Ids
<1>4. QED
  BY <1>2, <1>3, FS_Subset

\* A call may leave one more identity complete and unstored: the run's.
LEMMA OneMoreUnstored ==
  ASSUME IInv, Executes \/ UNCHANGED chain, saved' = saved
  PROVE  Cardinality((Complete \ saved)') <= faults + closed + 1
<1> DEFINE U == Complete \ saved
           V == Complete' \ saved'
<1>1. IsFiniteSet(U)
  BY CompleteFinite
<1>2. V \subseteq U \cup {run.id}
  BY OthersIncomplete
<1>3. Cardinality(U) <= faults + closed /\ faults \in Nat /\ closed \in Nat
  BY CreateFlowAssumption DEF IInv, Types, SavedIsComplete
<1> HIDE DEF U, V
<1>4. /\ IsFiniteSet(U \cup {run.id}) /\ Cardinality(U) \in Nat
      /\ \/ Cardinality(U \cup {run.id}) = Cardinality(U)
         \/ Cardinality(U \cup {run.id}) = Cardinality(U) + 1
  BY <1>1, FS_AddElement, FS_CardinalityType
<1>5. /\ Cardinality(V) <= Cardinality(U \cup {run.id})
      /\ IsFiniteSet(V) /\ Cardinality(V) \in Nat
  BY <1>2, <1>4, FS_Subset, FS_CardinalityType
<1>6. Cardinality(V) <= faults + closed + 1
  BY <1>3, <1>4, <1>5
<1>7. QED
  BY <1>6 DEF V

\* An ended or refused call leaves what is stored as it was; if it completed an
\* identity, a fault or a closed tab more is counted.
LEMMA SavedKept ==
  ASSUME IInv, Executes \/ UNCHANGED chain, saved' = saved,
         form'.createdId \in {form.createdId, 0},
         faults' \in Nat, closed' \in Nat, faults' + closed' >= faults + closed,
         run.pc # "policy" \/ UNCHANGED chain
           \/ faults' + closed' >= faults + closed + 1
  PROVE  SavedIsComplete' /\ saved' \subseteq Ids'
<1>1. /\ saved \subseteq Ids /\ SavedIsComplete
      /\ faults \in Nat /\ closed \in Nat
  BY CreateFlowAssumption DEF IInv, Types
<1> DEFINE n == Cardinality(Complete \ saved)
           m == Cardinality((Complete \ saved)')
<1>2. n \in Nat /\ n <= faults + closed
  BY <1>1, CompleteFinite, FS_CardinalityType DEF SavedIsComplete
<1>3. m <= faults' + closed'
  <2> DEFINE before == faults + closed
             after == faults' + closed'
  <2>0. /\ before \in Nat /\ after \in Nat /\ after >= before
    <3>1. \A i, j \in Nat : i + j \in Nat
      OBVIOUS
    <3>2. QED
      BY <1>1, <3>1, Zenon
  <2>1. CASE run.pc # "policy" \/ UNCHANGED chain
    <3>1. Complete' = Complete
      BY <2>1, OthersIncomplete DEF Complete, Ids
    <3>2. m = n
      BY <3>1
    <3>3. n \in Nat /\ n <= before
      BY <1>2
    <3> HIDE DEF m, n, before, after
    <3>4. m <= after
      BY <2>0, <3>2, <3>3
    <3>5. QED
      BY <3>4 DEF after
  <2>2. CASE faults' + closed' >= faults + closed + 1
    <3>1. m <= before + 1 /\ m \in Nat
      <4>1. IsFiniteSet((Complete \ saved)')
        BY UnstoredFinite
      <4>2. QED
        BY <4>1, OneMoreUnstored, FS_CardinalityType
    <3>2. after >= before + 1
      BY <2>2
    <3> HIDE DEF m, n, before, after
    <3>3. m <= after
      BY <2>0, <3>1, <3>2
    <3>4. QED
      BY <3>3 DEF after
  <2>3. QED
    BY <2>1, <2>2
<1>4. saved' \subseteq Complete' /\ saved' \subseteq Ids'
  BY <1>1, EffectOnChain, OthersIncomplete DEF SavedIsComplete
<1>5. form'.createdId # 0 => form'.createdId \in saved'
  BY <1>1 DEF SavedIsComplete
<1>6. QED
  BY <1>3, <1>4, <1>5 DEF SavedIsComplete

\* Nothing was called: the chain and the counts are as they were.
LEMMA SavedUntouched ==
  ASSUME SavedIsComplete, UNCHANGED <<chain, saved, closed, faults>>,
         form'.createdId = form.createdId
  PROVE  SavedIsComplete'
<1>1. Complete' = Complete
  BY DEF Complete, Ids
<1>2. QED
  BY <1>1 DEF SavedIsComplete

LEMMA InitInv == Init => IInv
<1> SUFFICES ASSUME Init PROVE IInv
  OBVIOUS
<1>1. Types
  BY CreateFlowAssumption
  DEF Init, Types, Identity, Ids, Form, Run, BlankForm, NoRun, Sources
<1>2. WitnessesDrawn
  BY DEF Init, WitnessesDrawn, Ids, BlankForm
<1>3. SavedIsComplete
  <2>1. Complete = {} /\ saved = {} /\ faults = 0 /\ closed = 0
        /\ form.createdId = 0
    BY DEF Init, Complete, Ids, BlankForm
  <2>2. Complete \ saved = {}
    BY <2>1
  <2>3. Cardinality(Complete \ saved) = 0
    BY <2>2, FS_EmptySet
  <2>4. QED
    BY <2>1, <2>3 DEF SavedIsComplete
<1>4. RunOK /\ Pending
  BY DEF Init, RunOK, Pending, BlankForm, NoRun
<1>5. QED
  BY <1>1, <1>2, <1>3, <1>4 DEF IInv

LEMMA StepInv == IInv /\ [Next]_vars => IInv'
<1> SUFFICES ASSUME IInv, [Next]_vars PROVE IInv'
  OBVIOUS
<1> USE CreateFlowAssumption
<1>0. /\ Types /\ WitnessesDrawn /\ RunOK /\ Pending /\ SavedIsComplete
      /\ drawn \in Nat /\ clicks \in Nat /\ closed \in Nat /\ faults \in Nat
      /\ Len(chain) \in Nat
  BY DEF IInv, Types
<1>1. ASSUME NEW s \in Sources, PickOwner(s) PROVE IInv'
  <2>1. /\ form' = [form EXCEPT !.source = s] /\ form \in Form
        /\ UNCHANGED <<chain, account, run, saved, files, drawn, clicks, closed,
                       faults>>
    BY <1>0, <1>1 DEF PickOwner, Types
  <2>2. /\ form' \in Form /\ form'.witness = form.witness
        /\ form'.submitting = form.submitting /\ form'.createdId = form.createdId
    BY <2>1 DEF Form
  <2>3. SavedIsComplete'
    BY <1>0, <2>1, <2>2, SavedUntouched
  <2>4. QED
    BY <1>0, <2>1, <2>2, <2>3 DEF IInv, Types, WitnessesDrawn, RunOK, Pending, Ids
<1>2. ASSUME NEW a \in Accounts, SwitchAccount(a) PROVE IInv'
  BY <1>0, <1>2, SavedUntouched
     DEF SwitchAccount, IInv, Types, WitnessesDrawn, RunOK, Pending, Ids
<1>3. CASE OnGenerateWitness
  <2>1. /\ form' = [form EXCEPT !.witness = drawn + 1] /\ drawn' = drawn + 1
        /\ drawn' \in 0 .. MaxWitnesses
        /\ UNCHANGED <<chain, account, run, saved, clicks, closed, faults>>
    BY <1>0, <1>3 DEF OnGenerateWitness, Types
  <2>2. /\ form' \in Form /\ form'.witness = drawn'
        /\ form'.submitting = form.submitting /\ form'.createdId = form.createdId
    BY <1>0, <2>1 DEF Types, Form
  <2>3. \A n : n \in 1 .. drawn => n \in 1 .. drawn'
    BY <1>0, <2>1
  <2>4. Types' /\ Pending' /\ SavedIsComplete'
    BY <1>0, <2>1, <2>2, SavedUntouched DEF Types, Pending, Ids
  <2>5. WitnessesDrawn'
    BY <1>0, <2>1, <2>2, <2>3 DEF WitnessesDrawn, Ids
  <2>6. RunOK'
    BY <1>0, <2>1, <2>2, <2>3 DEF RunOK, Ids
  <2>7. QED
    BY <2>4, <2>5, <2>6 DEF IInv
<1>4. CASE OnDownloadRecovery
  BY <1>0, <1>4, SavedUntouched
     DEF OnDownloadRecovery, IInv, Types, WitnessesDrawn, RunOK, Pending, Ids
<1>5. CASE OnCreate
  <2>1. form.witness \in 1 .. drawn
    BY <1>0, <1>5 DEF OnCreate, WitnessesDrawn
  <2>2. OwnerAddress \in Owners
    BY <1>0, <1>5 DEF OnCreate, OwnerAddress, Owners, Types, Form, Sources
  <2>3. run' \in Run /\ run'.pc = "vk" /\ run'.witness = form.witness
        /\ run'.owner = OwnerAddress
    BY <1>0, <1>5, <2>1, <2>2 DEF OnCreate, Run, NoRun, Types, Form
  <2>4. form' \in Form /\ form'.submitting /\ form'.witness = form.witness
        /\ form'.createdId = form.createdId
    BY <1>0, <1>5 DEF OnCreate, Types, Form
  <2>5. SavedIsComplete'
    BY <1>0, <1>5, <2>4, SavedUntouched DEF OnCreate
  <2>6. QED
    BY <1>0, <1>5, <2>1, <2>2, <2>3, <2>4, <2>5
    DEF OnCreate, IInv, Types, WitnessesDrawn, RunOK, Pending, Ids
<1>6. CASE FetchVerificationKey
  <2>1. /\ run.pc = "vk" /\ run' = [run EXCEPT !.pc = "create", !.path = FirstPath]
        /\ UNCHANGED <<chain, account, form, saved, drawn, clicks, closed, faults>>
    BY <1>6 DEF FetchVerificationKey
  <2>2. /\ run' \in Run /\ run'.pc = "create"
        /\ run'.owner = run.owner /\ run'.witness = run.witness
    BY <1>0, <2>1 DEF Types, Run, FirstPath
  <2>3. Types' /\ WitnessesDrawn' /\ SavedIsComplete'
    BY <1>0, <2>1, <2>2, SavedUntouched DEF Types, WitnessesDrawn, Ids
  <2>4. RunOK' /\ Pending'
    BY <1>0, <2>1, <2>2 DEF RunOK, Pending, Ids
  <2>5. QED
    BY <2>3, <2>4 DEF IInv
<1>7. CASE IdentityCreated
  <2>1. /\ chain' \in Seq(Identity) /\ saved' \subseteq Ids'
        /\ \A i \in Ids' : chain'[i].witness \in 1 .. drawn
        /\ Len(chain') <= clicks + faults
        /\ SavedIsComplete'
    BY <1>0, <1>7, EffectOnChain, SavedKept DEF IdentityCreated
  <2>2. Len(chain') \in Ids'
    <3>1. \E x : chain' = Append(chain, x)
      BY <1>7 DEF IdentityCreated, Executes
    <3>2. DOMAIN chain' = 1 .. Len(chain') /\ Len(chain') = Len(chain) + 1
      BY <1>0, <2>1, <3>1 DEF Types
    <3>3. QED
      BY <1>0, <3>2 DEF Ids
  <2>3. run' \in Run /\ run'.pc = "policy" /\ run'.id \in Ids'
        /\ run'.owner = run.owner /\ run'.witness = run.witness
    <3>1. Len(chain') \in Nat
      BY <2>1
    <3>2. QED
      BY <1>0, <1>7, <2>2, <3>1 DEF IdentityCreated, FirstPath, Types, Run
  <2>4. /\ run.pc = "create"
        /\ UNCHANGED <<account, form, saved, files, drawn, clicks, closed, faults>>
    BY <1>7 DEF IdentityCreated
  <2>5. QED
    BY <1>0, <2>1, <2>3, <2>4
    DEF IInv, Types, WitnessesDrawn, RunOK, Pending
<1>8. CASE PolicySet
  <2>1. /\ chain' \in Seq(Identity) /\ Ids \subseteq Ids'
        /\ \A i \in Ids : chain[i].policy => chain'[i].policy
        /\ \A i \in Ids' : chain'[i].witness \in 1 .. drawn
        /\ Len(chain') <= clicks + faults
    BY <1>8, EffectOnChain DEF PolicySet
  <2>2. run.id \in Ids /\ chain'[run.id].policy
    BY <1>8, PolicyInForce DEF PolicySet
  <2>3. saved' = saved \cup {run.id} /\ run' = NoRun
        /\ UNCHANGED <<account, files, drawn, clicks, closed, faults>>
    BY <1>8 DEF PolicySet
  <2>4. form' \in Form /\ ~ form'.submitting /\ form'.witness = form.witness
        /\ form'.createdId = run.id
    BY <1>0, <1>8 DEF PolicySet, Types, Form, Run
  <2>5. NoRun \in Run /\ NoRun.pc = "idle"
    BY DEF NoRun, Run, Sources
  <2>6. SavedIsComplete'
    <3> DEFINE U == Complete \ saved
               V == Complete' \ saved'
    <3>1. V \subseteq U
      BY <1>8, <2>3, OthersIncomplete DEF PolicySet
    <3>2. IsFiniteSet(U) /\ Cardinality(U) <= faults + closed
      BY <1>0, CompleteFinite DEF SavedIsComplete
    <3>3. saved' \subseteq Complete'
      BY <1>0, <1>8, <2>1, <2>2, <2>3, OthersIncomplete
         DEF SavedIsComplete, Complete, PolicySet
    <3>4. form'.createdId \in saved'
      BY <2>3, <2>4
    <3> HIDE DEF U, V
    <3>5. /\ Cardinality(V) <= Cardinality(U)
          /\ Cardinality(V) \in Nat /\ Cardinality(U) \in Nat
      BY <3>1, <3>2, FS_Subset, FS_CardinalityType
    <3>6. Cardinality(V) <= faults + closed
      BY <1>0, <3>2, <3>5
    <3>7. QED
      BY <2>3, <3>3, <3>4, <3>6 DEF SavedIsComplete, V
  <2>7. QED
    BY <1>0, <2>1, <2>2, <2>3, <2>4, <2>5, <2>6
    DEF IInv, Types, WitnessesDrawn, RunOK, Pending
<1>9. CASE FallsBack
  <2>1. /\ Executes \/ UNCHANGED chain
        /\ faults' = faults \/ faults' = faults + 1
        /\ faults' \in 0 .. MaxFaults
        /\ (UNCHANGED chain /\ faults' = faults) \/ faults' = faults + 1
        /\ Submitting
    BY <1>0, <1>9 DEF FallsBack, Fails, Fault, Types
  <2>2. UNCHANGED <<account, form, saved, files, drawn, clicks, closed>>
    BY <1>9 DEF FallsBack
  <2>3. /\ chain' \in Seq(Identity) /\ Ids \subseteq Ids'
        /\ \A i \in Ids' : chain'[i].witness \in 1 .. drawn
        /\ Len(chain') <= clicks + faults /\ Len(chain') <= Len(chain) + 1
    BY <2>1, EffectOnChain
  <2>4. SavedIsComplete' /\ saved' \subseteq Ids'
    <3>1. /\ faults' \in Nat /\ closed' \in Nat
          /\ faults' + closed' >= faults + closed
          /\ UNCHANGED chain \/ faults' + closed' >= faults + closed + 1
      BY <1>0, <2>1, <2>2
    <3>2. QED
      BY <2>1, <2>2, <3>1, SavedKept
  <2>5. run' \in Run /\ run'.pc = run.pc /\ run'.id = run.id
        /\ run'.owner = run.owner /\ run'.witness = run.witness
    BY <1>0, <1>9 DEF FallsBack, Types, Run
  <2>6. Pending'
    <3>1. Len(chain') \in Nat
      BY <2>3
    <3>2. QED
      BY <1>0, <2>1, <2>2, <2>3, <2>5, <3>1 DEF Pending
  <2>7. QED
    BY <1>0, <2>1, <2>2, <2>3, <2>4, <2>5, <2>6
    DEF IInv, Types, WitnessesDrawn, RunOK
<1>10. ASSUME StoreRefused \/ GivesUp \/ CloseTab PROVE IInv'
  <2>1. /\ Executes \/ UNCHANGED chain
        /\ faults' \in 0 .. MaxFaults /\ faults' >= faults
        /\ closed' \in 0 .. MaxClosed /\ faults' + closed' >= faults + closed
        /\ UNCHANGED chain \/ faults' + closed' >= faults + closed + 1
    BY <1>0, <1>10 DEF StoreRefused, GivesUp, CloseTab, Fails, Fault, Types
  <2>2. run' = NoRun /\ UNCHANGED <<account, saved, files, drawn, clicks>>
    BY <1>10 DEF StoreRefused, GivesUp, CloseTab
  <2>3. form' \in Form /\ ~ form'.submitting /\ form'.witness \in 0 .. drawn
        /\ form'.createdId \in {form.createdId, 0}
    <3>1. CASE StoreRefused \/ GivesUp
      BY <1>0, <3>1 DEF StoreRefused, GivesUp, Types, WitnessesDrawn, Form
    <3>2. CASE CloseTab
      BY <1>0, <3>2 DEF CloseTab, BlankForm, Form, Sources
    <3>3. QED
      BY <1>10, <3>1, <3>2
  <2>4. /\ chain' \in Seq(Identity)
        /\ \A i \in Ids' : chain'[i].witness \in 1 .. drawn
        /\ Len(chain') <= clicks + faults
    BY <2>1, EffectOnChain
  <2>5. SavedIsComplete' /\ saved' \subseteq Ids'
    BY <2>1, <2>2, <2>3, SavedKept
  <2>6. NoRun \in Run /\ NoRun.pc = "idle"
    BY DEF NoRun, Run, Sources
  <2>7. Pending'
    <3>1. Len(chain') \in Nat
      BY <2>4
    <3>2. QED
      BY <1>0, <2>1, <2>2, <2>4, <2>6, <3>1 DEF Pending
  <2>8. QED
    BY <1>0, <2>1, <2>2, <2>3, <2>4, <2>5, <2>6, <2>7
    DEF IInv, Types, WitnessesDrawn, RunOK
<1>11. CASE UNCHANGED vars
  BY <1>0, <1>11, SavedUntouched
     DEF vars, IInv, Types, WitnessesDrawn, RunOK, Pending, Ids
<1>12. QED
  BY <1>1, <1>2, <1>3, <1>4, <1>5, <1>6, <1>7, <1>8, <1>9, <1>10, <1>11 DEF Next

THEOREM Invariance == Spec => []IInv
<1>1. QED
  BY InitInv, StepInv, PTL DEF Spec

-----------------------------------------------------------------------------
\* The wizard's state is well-formed: the form is busy exactly while a call
\* of onCreate is going on, and set_policy has an identity to act on.
THEOREM TypeCorrect == Spec => []TypeOK
<1>1. ASSUME IInv PROVE TypeOK
  <2>1. \A i \in Ids : /\ chain[i].owner \in Accounts \cup {Passkey}
                       /\ chain[i].witness \in 1 .. drawn
                       /\ chain[i].policy \in BOOLEAN
    <3>1. \A i \in Ids : chain[i] \in Identity
      BY <1>1 DEF IInv, Types, Ids
    <3>2. QED
      BY <1>1, <3>1 DEF IInv, WitnessesDrawn, Identity, Owners
  <2>2. form.createdId \in Ids \cup {0}
    BY <1>1 DEF IInv, Types, SavedIsComplete, Complete
  <2>3. form.source \in Sources /\ run.pc \in {"idle", "vk", "create", "policy"}
    BY <1>1 DEF IInv, Types, Form, Run
  <2>4. QED
    BY <1>1, <2>1, <2>2, <2>3 DEF IInv, Types, WitnessesDrawn, RunOK, TypeOK
<1>2. QED
  BY <1>1, Invariance, PTL

\* Sponsored, direct, retried or interrupted: never more identities than
\* clicks on "Create iWallet" and failed calls.
THEOREM CreatesBounded == Spec => []IdentitiesBounded
<1>1. IInv => IdentitiesBounded
  BY DEF IInv, Pending, IdentitiesBounded
<1>2. QED
  BY <1>1, Invariance, PTL

\* What the wizard stores and shows always has its mandate on chain, and what
\* has it is stored but for failed calls and closed tabs.
THEOREM SavedAlwaysComplete == Spec => []SavedIsComplete
<1>1. IInv => SavedIsComplete
  BY DEF IInv
<1>2. QED
  BY <1>1, Invariance, PTL
=============================================================================
