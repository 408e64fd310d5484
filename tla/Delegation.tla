----------------------------- MODULE Delegation -----------------------------
(***************************************************************************)
(* What an iWallet promises, with no word about policies, proofs or coins. *)
(*                                                                         *)
(* An owner delegates spending to an agent by a grant: an allowance and    *)
(* the payees it may be drawn for.  There is one grant at a time.  The     *)
(* agent draws on it, each draw under a fresh nonce, until the allowance   *)
(* is used up or the grant ends; a new grant replaces what was left of the *)
(* old one.                                                                *)
(***************************************************************************)
EXTENDS Naturals

CONSTANTS Payees, Nonces, Grants

VARIABLES
  live,       \* is there a grant?
  allowance,  \* what is left of it
  payees,     \* whom it may be drawn for
  consumed,   \* nonces of the draws made so far, under any grant
  drawn       \* total of all draws

Init ==
  /\ live = FALSE
  /\ allowance = 0
  /\ payees = {}
  /\ consumed = {}
  /\ drawn = 0

Grant(n, R) ==
  /\ live' = TRUE
  /\ allowance' = n
  /\ payees' = R
  /\ UNCHANGED <<consumed, drawn>>

\* Revocation or expiry.
End ==
  /\ live' = FALSE
  /\ allowance' = 0
  /\ payees' = {}
  /\ UNCHANGED <<consumed, drawn>>

Draw(nonce, amount, payee) ==
  /\ live
  /\ amount <= allowance
  /\ payee \in payees
  /\ nonce \notin consumed
  /\ allowance' = allowance - amount
  /\ consumed' = consumed \cup {nonce}
  /\ drawn' = drawn + amount
  /\ UNCHANGED <<live, payees>>

Next ==
  \/ \E n \in Grants, R \in SUBSET Payees : Grant(n, R)
  \/ End
  \/ \E nonce \in Nonces, amount \in 0 .. allowance, payee \in payees :
       Draw(nonce, amount, payee)

vars == <<live, allowance, payees, consumed, drawn>>
Spec == Init /\ [][Next]_vars
=============================================================================
