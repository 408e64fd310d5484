----------------------------- MODULE CreateFlow -----------------------------
(***************************************************************************)
(* The wizard that creates an iWallet:                                     *)
(* frontend/src/components/create-iwallet-flow.tsx, with the sponsored     *)
(* submission of lib/enoki.ts.  What the wizard adds to the registry of    *)
(* lib/local-identities.ts is kept; the registry itself, which discovery,  *)
(* import and restore write as well, is Dashboard's.                       *)
(*                                                                         *)
(* onCreate sends two transactions, create_iidentity and set_policy.  Each *)
(* is first tried sponsored and, on any failure, signed and paid for by    *)
(* the owner.  Between the calls the page stays alive: the steps of the    *)
(* wizard can be clicked, the witness regenerated, the wallet switched to  *)
(* another account, the recovery file downloaded, the tab closed.          *)
(*                                                                         *)
(* An identity is what matters of IIdentity here: its owner (the sender),  *)
(* the witness its hash is of, and whether it has a policy.  External: the *)
(* chain, Enoki, the wallet (which signs with its current account).        *)
(***************************************************************************)
EXTENDS Naturals, Sequences, FiniteSets

CONSTANTS
  Accounts,       \* accounts of the connected wallet
  Passkey,        \* the address of the passkey
  Sponsored,      \* enokiConfigured()
  None,           \* no owner picked
  MaxWitnesses,   \* bound: witnesses generated
  MaxClicks,      \* bound: clicks on "Create iWallet"
  MaxClosed,      \* bound: tabs closed
  MaxFaults       \* bound: failed external calls

ASSUME CreateFlowAssumption ==
  /\ Passkey \notin Accounts
  /\ Sponsored \in BOOLEAN
  /\ \A n \in {MaxWitnesses, MaxClicks, MaxClosed, MaxFaults} : n \in Nat

VARIABLES
  chain,     \* the identities on chain, in the order of their creation
  account,   \* the wallet's current account
  form,      \* the state of the React component
  run,       \* the call of onCreate in progress, with what it closed over
  saved,     \* history: the ids the wizard has stored with addLocalIdentityId
  files,     \* recovery files downloaded
  drawn,     \* number of witnesses generated; they are 1 .. drawn
  clicks, closed, faults  \* history: calls of onCreate, tabs closed, faults

vars == <<chain, account, form, run, saved, files, drawn,
          clicks, closed, faults>>

Sources == {None, "wallet", "passkey"}
Ids == DOMAIN chain

\* Witness 0 and id 0 stand for null.
BlankForm == [source |-> None, witness |-> 0, submitting |-> FALSE, createdId |-> 0]
NoRun == [pc |-> "idle", path |-> "direct", source |-> None, owner |-> None,
          witness |-> 0, id |-> 0]

Init ==
  /\ chain = <<>>
  /\ account \in Accounts
  /\ form = BlankForm
  /\ run = NoRun
  /\ saved = {}
  /\ files = {}
  /\ drawn = 0
  /\ clicks = 0 /\ closed = 0 /\ faults = 0

Fault == faults < MaxFaults /\ faults' = faults + 1

OwnerAddress ==
  CASE form.source = "wallet" -> account
    [] form.source = "passkey" -> Passkey
    [] OTHER -> None

-----------------------------------------------------------------------------
(***************************************************************************)
(* The clicks that are possible at any time.                               *)
(***************************************************************************)
PickOwner(s) ==
  /\ form' = [form EXCEPT !.source = s]
  /\ UNCHANGED <<chain, account, run, saved, files, drawn, clicks, closed, faults>>

SwitchAccount(a) ==
  /\ account' = a
  /\ UNCHANGED <<chain, form, run, saved, files, drawn, clicks, closed, faults>>

\* "Generate secret witness" and, later, "Regenerate".
OnGenerateWitness ==
  /\ drawn < MaxWitnesses
  /\ drawn' = drawn + 1
  /\ form' = [form EXCEPT !.witness = drawn + 1]
  /\ UNCHANGED <<chain, account, run, saved, files, clicks, closed, faults>>

OnDownloadRecovery ==
  /\ form.witness # 0
  /\ files' = files \cup {[id |-> form.createdId, witness |-> form.witness]}
  /\ UNCHANGED <<chain, account, form, run, saved, drawn, clicks, closed, faults>>

-----------------------------------------------------------------------------
(***************************************************************************)
(* onCreate.                                                               *)
(***************************************************************************)
OnCreate ==
  /\ form.createdId = 0 /\ ~ form.submitting
  /\ form.source # None /\ form.witness # 0
  /\ clicks < MaxClicks
  /\ clicks' = clicks + 1
  /\ form' = [form EXCEPT !.submitting = TRUE]
  /\ run' = [NoRun EXCEPT !.pc = "vk", !.source = form.source,
                          !.owner = OwnerAddress, !.witness = form.witness]
  /\ UNCHANGED <<chain, account, saved, files, drawn, closed, faults>>

FirstPath == IF Sponsored THEN "sponsored" ELSE "direct"

FetchVerificationKey ==
  /\ run.pc = "vk"
  /\ run' = [run EXCEPT !.pc = "create", !.path = FirstPath]
  /\ UNCHANGED <<chain, account, form, saved, files, drawn, clicks, closed, faults>>

Submitting == run.pc \in {"create", "policy"}

\* Enoki binds the sender the run started with; the owner's own transaction
\* has whatever account the wallet signs with.
Sender ==
  IF run.path = "direct" /\ run.source = "wallet" THEN account ELSE run.owner

\* The signature is the sender's, and set_policy is sent by the owner.
Acceptable ==
  /\ run.source = "wallet" => account = Sender
  /\ run.pc = "policy" => chain[run.id].owner = Sender

Executes ==
  /\ Submitting
  /\ Acceptable
  /\ \/ /\ run.pc = "create"
        /\ chain' = Append(chain, [owner |-> Sender, witness |-> run.witness,
                                   policy |-> FALSE])
     \/ /\ run.pc = "policy"
        /\ chain' = [chain EXCEPT ![run.id].policy = TRUE]

\* Mutation: submit lacks its "return", and goes on to the direct path.
IdentityCreated_NoReturn ==
  /\ run.pc = "create" /\ Executes
  /\ run' = IF run.path = "sponsored" THEN [run EXCEPT !.path = "direct"]
            ELSE [run EXCEPT !.pc = "policy", !.path = FirstPath, !.id = Len(chain')]
  /\ UNCHANGED <<account, form, saved, files, drawn, clicks, closed, faults>>

\* Mutation: the id is stored as soon as it is known.
IdentityCreated_StoredEarly ==
  /\ run.pc = "create" /\ Executes
  /\ run' = [run EXCEPT !.pc = "policy", !.path = FirstPath, !.id = Len(chain')]
  /\ saved' = saved \cup {Len(chain')}
  /\ UNCHANGED <<account, form, files, drawn, clicks, closed, faults>>

\* create_iidentity comes back with the new id; set_policy is next.
IdentityCreated ==
  /\ run.pc = "create" /\ Executes
  /\ run' = [run EXCEPT !.pc = "policy", !.path = FirstPath, !.id = Len(chain')]
  /\ UNCHANGED <<account, form, saved, files, drawn, clicks, closed, faults>>

PolicySet ==
  /\ run.pc = "policy" /\ Executes
  /\ saved' = saved \cup {run.id}
  /\ form' = [form EXCEPT !.createdId = run.id, !.submitting = FALSE]
  /\ run' = NoRun
  /\ UNCHANGED <<account, files, drawn, clicks, closed, faults>>

\* The browser refuses to store the id, after the policy was set: the error is
\* shown, and no created id.
StoreRefused ==
  /\ run.pc = "policy" /\ Executes /\ Fault
  /\ form' = [form EXCEPT !.submitting = FALSE]
  /\ run' = NoRun
  /\ UNCHANGED <<account, saved, files, drawn, clicks, closed>>

\* The call throws or reports a failure: the transaction was not acceptable,
\* or something failed, with the transaction executed or not.
Fails ==
  \/ Submitting /\ ~ Acceptable /\ UNCHANGED <<chain, faults>>
  \/ Submitting /\ Fault /\ (UNCHANGED chain \/ Executes)

FallsBack ==
  /\ run.path = "sponsored"
  /\ Fails
  /\ run' = [run EXCEPT !.path = "direct"]
  /\ UNCHANGED <<account, form, saved, files, drawn, clicks, closed>>

\* Mutation: setSubmitting(false) is not in a "finally".
GivesUp_StaysBusy ==
  /\ \/ run.pc = "vk" /\ Fault /\ UNCHANGED chain
     \/ run.path = "direct" /\ Fails
     \/ Submitting /\ run.path = "sponsored" /\ Fault /\ UNCHANGED chain
  /\ run' = NoRun
  /\ UNCHANGED <<account, form, saved, files, drawn, clicks, closed>>

\* The error is shown and the form is free again.  A sponsored transaction
\* that comes back with a failure status is not tried again.
GivesUp ==
  /\ \/ run.pc = "vk" /\ Fault /\ UNCHANGED chain
     \/ run.path = "direct" /\ Fails
     \/ Submitting /\ run.path = "sponsored" /\ Fault /\ UNCHANGED chain
  /\ run' = NoRun
  /\ form' = [form EXCEPT !.submitting = FALSE]
  /\ UNCHANGED <<account, saved, files, drawn, clicks, closed>>

\* The tab goes, with a transaction that was sent executed or not; the
\* wizard starts blank.
CloseTab ==
  /\ closed < MaxClosed
  /\ closed' = closed + 1
  /\ UNCHANGED chain \/ Executes
  /\ form' = BlankForm
  /\ run' = NoRun
  /\ UNCHANGED <<account, saved, files, drawn, clicks, faults>>

Next ==
  \/ \E s \in Sources : PickOwner(s)
  \/ \E a \in Accounts : SwitchAccount(a)
  \/ OnGenerateWitness \/ OnDownloadRecovery \/ OnCreate
  \/ FetchVerificationKey \/ IdentityCreated \/ PolicySet \/ StoreRefused
  \/ FallsBack \/ GivesUp \/ CloseTab

Spec == Init /\ [][Next]_vars

-----------------------------------------------------------------------------
\* The form is busy exactly while a call of onCreate is going on, and an
\* identity being given its policy exists.
TypeOK ==
  /\ \A i \in Ids :
       /\ chain[i].owner \in Accounts \cup {Passkey}
       /\ chain[i].witness \in 1 .. drawn
       /\ chain[i].policy \in BOOLEAN
  /\ account \in Accounts
  /\ form.source \in Sources /\ form.witness \in 0 .. drawn
  /\ form.createdId \in Ids \cup {0}
  /\ form.submitting <=> run.pc # "idle"
  /\ run.pc \in {"idle", "vk", "create", "policy"}
  /\ run.pc = "policy" => run.id \in Ids
  /\ saved \subseteq Ids
  /\ clicks \in 0 .. MaxClicks /\ closed \in 0 .. MaxClosed
  /\ faults \in 0 .. MaxFaults

\* However often the sponsored path falls back to the direct one, and whatever
\* account signs by then, at most one identity is created per click, plus one
\* per failed call: a transaction is sent again only when its answer was lost.
IdentitiesBounded == Len(chain) <= clicks + faults

Complete == {i \in Ids : chain[i].policy}

\* What the wizard stores in the browser, and the identity of its success
\* screen, has its mandate set.  An identity that has it goes unstored only by a
\* call that failed or a tab that was closed, at most one for each.
SavedIsComplete ==
  /\ saved \subseteq Complete
  /\ Cardinality(Complete \ saved) <= faults + closed
  /\ form.createdId # 0 => form.createdId \in saved

-----------------------------------------------------------------------------
\* create-iwallet-flow.tsx:117-118 and 406, the file "includes this object id
\* + the witness, so you can restore control later": the witness in a file
\* with an id is the one that identity was created with.
RecoveryRestores ==
  \A f \in files : f.id # 0 => chain[f.id].witness = f.witness
=============================================================================
