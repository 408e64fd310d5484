----------------------------- MODULE PrimeField -----------------------------
(***************************************************************************)
(* What the field arithmetic of the witness program promises: cells that   *)
(* hold numbers modulo q, and operations on those numbers.  Nothing is     *)
(* said of how a number is represented.                                    *)
(***************************************************************************)
EXTENDS Integers

CONSTANTS q,        \* the prime, odd
          Numerals    \* integers that may be read

Field == 0 .. q - 1

VARIABLES x, y,     \* two numbers
          instr,    \* the instruction to execute, NoInstr between two
          aborted   \* the process died in an operation

vars == <<x, y, instr, aborted>>

(* The upper half of the field stands for the negative numbers. *)
Signed(v) == IF v > (q - 1) \div 2 THEN v - q ELSE v

Bit(b) == IF b THEN 1 ELSE 0

Inverses(a) == {v \in Field : (a * v) % q = 1}

(* a to the power b modulo q. *)
PowerMod(a, b) == LET power[n \in 0 .. b] == IF n = 0 THEN 1 ELSE (a * power[n - 1]) % q
                  IN  power[b]

Ops == {"add", "sub", "mul", "neg", "square", "eq", "lt",
        "idiv", "mod", "pow", "inv", "div",
        "toMontgomery", "toNormal", "toLongNormal"}

NoInstr == [op |-> "none", second |-> "x", n |-> 0]

(* The results an operation may give: one, except that the inverse of 0 is  *)
(* any number, and that a division of integers by 0 has no result at all.   *)
Results(op, a, b) ==
  CASE op = "add"    -> {(a + b) % q}
    [] op = "sub"    -> {(a - b) % q}
    [] op = "mul"    -> {(a * b) % q}
    [] op = "neg"    -> {(0 - a) % q}
    [] op = "square" -> {(a * a) % q}
    [] op = "eq"     -> {Bit(a = b)}
    [] op = "lt"     -> {Bit(Signed(a) < Signed(b))}
    [] op = "idiv"   -> IF b = 0 THEN {} ELSE {a \div b}
    [] op = "mod"    -> IF b = 0 THEN {} ELSE {a % b}
    [] op = "pow"    -> {PowerMod(a, b)}
    [] op = "inv"    -> IF a = 0 THEN Field ELSE Inverses(a)
    [] op = "div"    -> IF b = 0 THEN {(a * v) % q : v \in Field}
                        ELSE {(a * v) % q : v \in Inverses(b)}
    [] OTHER         -> {a}

Init == x \in Field /\ y \in Field /\ instr = NoInstr /\ aborted = FALSE

(* Read a number, apply an operation to x and to x or y, exchange the two.  *)
Fetch == /\ instr = NoInstr
         /\ \/ \E n \in Numerals : instr' = [NoInstr EXCEPT !.op = "read", !.n = n]
            \/ \E op \in Ops, second \in {"x", "y"} :
                 instr' = [NoInstr EXCEPT !.op = op, !.second = second]
            \/ instr' = [NoInstr EXCEPT !.op = "swap"]
         /\ UNCHANGED <<x, y, aborted>>

Read == /\ instr.op = "read"
        /\ x' = instr.n % q
        /\ UNCHANGED <<y, aborted>>

Operate ==
  /\ instr.op \in Ops
  /\ LET results == Results(instr.op, x, IF instr.second = "x" THEN x ELSE y)
     IN  IF results = {} THEN aborted' = TRUE /\ UNCHANGED x
         ELSE x' \in results /\ UNCHANGED aborted
  /\ UNCHANGED y

Swap == instr.op = "swap" /\ x' = y /\ y' = x /\ UNCHANGED aborted

Next == /\ ~ aborted
        /\ \/ Fetch
           \/ (Read \/ Operate \/ Swap) /\ instr' = NoInstr

Spec == Init /\ [][Next]_vars
=============================================================================
