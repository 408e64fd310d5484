----------------------------- MODULE FieldOrder -----------------------------
(***************************************************************************)
(* The prime of the witness program, `Fr_q` of fr.asm, and the numbers its *)
(* elements stand for.  FieldElement is how the program computes with      *)
(* them, Circuit what it computes.                                         *)
(***************************************************************************)
EXTENDS Integers

CONSTANT q

ASSUME OrderAssumption == q \in Nat /\ q > 2 /\ \A d \in 2 .. q - 1 : q % d # 0

Field == 0 .. q - 1
=============================================================================
