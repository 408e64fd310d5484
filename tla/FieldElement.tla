---------------------------- MODULE FieldElement ----------------------------
(***************************************************************************)
(* The field elements of the witness program (fr.hpp, fr.cpp, fr.asm).  An *)
(* element has two places for its number, a machine integer and a long     *)
(* one, and a type that says which counts and whether the long one is in   *)
(* Montgomery form (multiplied by R).  Every operation looks at the types  *)
(* of its operands and has its own path, and its own type of result, for   *)
(* each pair of them.  What the type does not name is left as it was: the  *)
(* memory of an auxiliary element nobody initialised.  The generated code  *)
(* computes into such an element and copies it to its place.               *)
(***************************************************************************)
EXTENDS FieldOrder

CONSTANTS R,                   \* the Montgomery radix, 2^256
          ShortMax,            \* the largest int32_t
          Numerals,            \* integers the program reads as text
          Leftovers            \* long numbers found in unwritten memory

ShortMin == 0 - ShortMax - 1

ASSUME WidthAssumption ==
  /\ R \in Nat /\ R > q /\ R % q # 0
  /\ ShortMax \in Nat \ {0}
  /\ ShortMin * ShortMin < q /\ 0 - 2 * ShortMin < q
  /\ Numerals \subseteq Int /\ Leftovers \subseteq 0 .. q - 1

Shorts == ShortMin .. ShortMax
Types == {"SHORT", "SHORTMONTGOMERY", "LONG", "LONGMONTGOMERY"}
Element == [type : Types, shortVal : Shorts, longVal : Field]

VARIABLES x, y,     \* two elements: a signal, a local variable
          instr,    \* the instruction to execute, NoInstr between two
          aborted   \* the process died in an operation

frVars == <<x, y, instr, aborted>>

IsLong(e) == e.type \in {"LONG", "LONGMONTGOMERY"}
IsMont(e) == e.type \in {"SHORTMONTGOMERY", "LONGMONTGOMERY"}

RInv == CHOOSE v \in Field : (v * R) % q = 1
(* Montgomery product of two long numbers. *)
Fr_rawMMul(a, b) == (a * b * RInv) % q
R2 == (R * R) % q
R3 == (R * R * R) % q
(* The same with a machine integer; the caller takes care of the sign.      *)
MMulShort(a, s) == IF s < 0 THEN (0 - Fr_rawMMul(a, 0 - s)) % q ELSE Fr_rawMMul(a, s)

(* The same with an element that is not in Montgomery form.                 *)
MMulBy(a, e) == IF IsLong(e) THEN Fr_rawMMul(a, e.longVal) ELSE MMulShort(a, e.shortVal)

(* Elements written over junk: only the named part is new.                  *)
ShortOver(junk, n) == [junk EXCEPT !.type = "SHORT", !.shortVal = n]
LongOver(junk, n) == [junk EXCEPT !.type = "LONG", !.longVal = n]
MontOver(junk, n) == [junk EXCEPT !.type = "LONGMONTGOMERY", !.longVal = n]
rawCopyS2L(n) == [type |-> "LONG", shortVal |-> 0,
                  longVal |-> IF n < 0 THEN n + q ELSE n]

-----------------------------------------------------------------------------
(* Conversions. *)

(* Mutant: the long number of a short element is left unconverted. *)
Fr_toMontgomery_ShortUnscaled(junk, e) ==
  CASE IsMont(e) -> e
    [] e.type = "LONG" -> [MontOver(junk, Fr_rawMMul(e.longVal, R2))
                             EXCEPT !.shortVal = e.shortVal]
    [] OTHER -> [type |-> "SHORTMONTGOMERY", shortVal |-> e.shortVal,
                 longVal |-> e.shortVal % q]

Fr_toMontgomery(junk, e) ==
  CASE IsMont(e) -> e
    [] e.type = "LONG" -> [MontOver(junk, Fr_rawMMul(e.longVal, R2))
                             EXCEPT !.shortVal = e.shortVal]
    [] OTHER -> [type |-> "SHORTMONTGOMERY", shortVal |-> e.shortVal,
                 longVal |-> MMulShort(R2, e.shortVal)]

Fr_toNormal(junk, e) ==
  IF e.type = "LONGMONTGOMERY" THEN LongOver(junk, Fr_rawMMul(e.longVal, 1)) ELSE e

Fr_toLongNormal(junk, e) ==
  CASE e.type = "LONG" -> e
    [] e.type = "LONGMONTGOMERY" -> LongOver(junk, Fr_rawMMul(e.longVal, 1))
    [] OTHER -> rawCopyS2L(e.shortVal)

(* mpz integers, of any size. *)
Fr_toMpz(e) == LET tmp == Fr_toNormal(e, e)
               IN  IF IsLong(tmp) THEN tmp.longVal
                   ELSE IF tmp.shortVal < 0 THEN tmp.shortVal + q ELSE tmp.shortVal

Fr_fromMpz(junk, v) == IF v \in Shorts THEN ShortOver(junk, v) ELSE LongOver(junk, v)

Fr_str2element(junk, n) == Fr_fromMpz(junk, n % q)

(* Mutant: a long number is printed as it is stored. *)
Fr_element2str_AsStored(e) ==
  IF ~ IsLong(e) THEN (IF e.shortVal >= 0 THEN e.shortVal ELSE e.shortVal + q)
  ELSE e.longVal

Fr_element2str(e) ==
  IF ~ IsLong(e) THEN (IF e.shortVal >= 0 THEN e.shortVal ELSE e.shortVal + q)
  ELSE Fr_toNormal(e, e).longVal

(* An array index; Fr_fail stops the program when it does not fit.          *)
Fail == "Fr_fail"
Fr_toInt(e) ==
  IF ~ IsLong(e) THEN e.shortVal
  ELSE LET v == Fr_toNormal(e, e).longVal
       IN  CASE v <= ShortMax -> v [] v - q >= ShortMin -> v - q [] OTHER -> Fail

Fr_isTrue(e) == IF IsLong(e) THEN e.longVal # 0 ELSE e.shortVal # 0

-----------------------------------------------------------------------------
(* Arithmetic, dispatched on the two types. *)

(* A long number plus or minus a machine integer, or another long number.   *)
(* f is the operation on integers.                                          *)
Linear(f(_, _), junk, a, b) ==
  CASE ~ IsLong(a) /\ ~ IsLong(b) ->
         LET n == f(a.shortVal, b.shortVal)
         IN  IF n \in Shorts THEN ShortOver(junk, n) ELSE rawCopyS2L(n)
    [] a.type = "LONGMONTGOMERY" \/ b.type = "LONGMONTGOMERY" ->
         MontOver(junk, f(Fr_toMontgomery(a, a).longVal,
                          Fr_toMontgomery(b, b).longVal) % q)
    [] OTHER -> LongOver(junk, f(Fr_toLongNormal(a, a).longVal,
                                 Fr_toLongNormal(b, b).longVal) % q)

Fr_add(junk, a, b) == Linear(LAMBDA m, n : m + n, junk, a, b)
Fr_sub(junk, a, b) == Linear(LAMBDA m, n : m - n, junk, a, b)

(* Mutant: the negation of a long number forgets that it is in Montgomery form. *)
Fr_neg_TypeLost(junk, a) ==
  IF IsLong(a) THEN LongOver(junk, (0 - a.longVal) % q)
  ELSE IF 0 - a.shortVal \in Shorts THEN ShortOver(junk, 0 - a.shortVal)
       ELSE rawCopyS2L(0 - a.shortVal)

Fr_neg(junk, a) ==
  IF IsLong(a)
  THEN [junk EXCEPT !.type = a.type, !.shortVal = a.shortVal,
                    !.longVal = (0 - a.longVal) % q]
  ELSE IF 0 - a.shortVal \in Shorts THEN ShortOver(junk, 0 - a.shortVal)
       ELSE rawCopyS2L(0 - a.shortVal)

(* The path of two machine integers stores the product and runs on into     *)
(* the one for overflows, so that the result is always long.                *)
Fr_mul(junk, a, b) ==
  IF ~ IsLong(a) /\ ~ IsLong(b) THEN rawCopyS2L(a.shortVal * b.shortVal)
  ELSE CASE IsMont(a) /\ IsMont(b)   -> MontOver(junk, Fr_rawMMul(a.longVal, b.longVal))
         [] IsMont(a) /\ ~ IsMont(b) -> LongOver(junk, MMulBy(a.longVal, b))
         [] IsMont(b) /\ ~ IsMont(a) -> LongOver(junk, MMulBy(b.longVal, a))
         [] OTHER -> MontOver(junk, Fr_rawMMul(IF IsLong(b) THEN MMulBy(b.longVal, a)
                                               ELSE MMulBy(a.longVal, b), R3))

Fr_square(junk, a) ==
  CASE ~ IsLong(a) -> rawCopyS2L(a.shortVal * a.shortVal)
    [] a.type = "LONG" ->
         MontOver(junk, Fr_rawMMul(Fr_rawMMul(a.longVal, a.longVal), R3))
    [] OTHER -> MontOver(junk, Fr_rawMMul(a.longVal, a.longVal))

-----------------------------------------------------------------------------
(* Comparisons give 0 or 1, as a machine integer. *)

Bit(b) == IF b THEN 1 ELSE 0

Half == (q - 1) \div 2
Less(m, n) == CASE m > Half /\ n <= Half -> TRUE
                [] m <= Half /\ n > Half -> FALSE
                [] OTHER -> m < n

Fr_rlt(a, b) ==
  IF ~ IsLong(a) /\ ~ IsLong(b) THEN a.shortVal < b.shortVal
  ELSE Less(Fr_toLongNormal(a, a).longVal, Fr_toLongNormal(b, b).longVal)

(* Two numbers are compared in Montgomery form when one of them has it.     *)
Fr_req(a, b) ==
  CASE ~ IsLong(a) /\ ~ IsLong(b) -> a.shortVal = b.shortVal
    [] a.type = "LONGMONTGOMERY" \/ b.type = "LONGMONTGOMERY" ->
         Fr_toMontgomery(a, a).longVal = Fr_toMontgomery(b, b).longVal
    [] OTHER -> Fr_toLongNormal(a, a).longVal = Fr_toLongNormal(b, b).longVal

(* Integer division, remainder, powers and inverses go through mpz.  An     *)
(* inverse that does not exist leaves an undefined number behind.           *)
InverseOf(v) == IF v = 0 THEN Field ELSE {w \in Field : (v * w) % q = 1}

(* a to the power b modulo q. *)
PowerMod(a, b) == LET power[n \in 0 .. b] == IF n = 0 THEN 1 ELSE (a * power[n - 1]) % q
                  IN  power[b]

(* The elements an operation may leave in an auxiliary element; none where  *)
(* gmp stops the program.                                                   *)
Outcomes(op, junk, a, b) ==
  LET ma == Fr_toMpz(a)
      mb == Fr_toMpz(b)
  IN  CASE op = "add"    -> {Fr_add(junk, a, b)}
        [] op = "sub"    -> {Fr_sub(junk, a, b)}
        [] op = "mul"    -> {Fr_mul(junk, a, b)}
        [] op = "neg"    -> {Fr_neg(junk, a)}
        [] op = "square" -> {Fr_square(junk, a)}
        [] op = "eq"     -> {ShortOver(junk, Bit(Fr_req(a, b)))}
        [] op = "lt"     -> {ShortOver(junk, Bit(Fr_rlt(a, b)))}
        [] op = "idiv"   -> IF mb = 0 THEN {} ELSE {Fr_fromMpz(junk, ma \div mb)}
        [] op = "mod"    -> IF mb = 0 THEN {} ELSE {Fr_fromMpz(junk, ma % mb)}
        [] op = "pow"    -> {Fr_fromMpz(junk, PowerMod(ma, mb))}
        [] op = "inv"    -> {Fr_fromMpz(junk, v) : v \in InverseOf(ma)}
        [] op = "div"    -> {Fr_mul(junk, a, Fr_fromMpz(junk, v)) : v \in InverseOf(mb)}
        [] op = "toMontgomery" -> {Fr_toMontgomery(junk, a)}
        [] op = "toNormal"     -> {Fr_toNormal(junk, a)}
        [] op = "toLongNormal" -> {Fr_toLongNormal(junk, a)}

Ops == {"add", "sub", "mul", "neg", "square", "eq", "lt", "idiv", "mod", "pow",
        "inv", "div", "toMontgomery", "toNormal", "toLongNormal"}

Junk == [type : {"SHORT"}, shortVal : Shorts, longVal : Leftovers]

-----------------------------------------------------------------------------
NoInstr == [op |-> "none", second |-> "x", n |-> 0]

FrInit ==
  /\ \E junk \in Junk, m, n \in Numerals :
       x = Fr_str2element(junk, m) /\ y = Fr_str2element(junk, n)
  /\ instr = NoInstr
  /\ aborted = FALSE

(* The next instruction of the program: any sequence of them.               *)
Fetch == /\ instr = NoInstr
         /\ \/ \E n \in Numerals : instr' = [NoInstr EXCEPT !.op = "read", !.n = n]
            \/ \E op \in Ops, second \in {"x", "y"} :
                 instr' = [NoInstr EXCEPT !.op = op, !.second = second]
            \/ instr' = [NoInstr EXCEPT !.op = "swap"]
         /\ UNCHANGED <<x, y, aborted>>

(* A number is read as text into an element. *)
Read == /\ instr.op = "read"
        /\ \E junk \in Junk : x' = Fr_str2element(junk, instr.n)
        /\ UNCHANGED <<y, aborted>>

(* op(&aux, &x, &b), then Fr_copy(&x, &aux). *)
Operate ==
  /\ instr.op \in Ops
  /\ \E junk \in Junk :
       LET results == Outcomes(instr.op, junk, x, IF instr.second = "x" THEN x ELSE y)
       IN  IF results = {} THEN aborted' = TRUE /\ UNCHANGED x
           ELSE x' \in results /\ UNCHANGED aborted
  /\ UNCHANGED y

(* Fr_copy through a third element. *)
Swap == instr.op = "swap" /\ x' = y /\ y' = x /\ UNCHANGED aborted

FrNext == /\ ~ aborted
          /\ \/ Fetch
             \/ (Read \/ Operate \/ Swap) /\ instr' = NoInstr

FrSpec == FrInit /\ [][FrNext]_frVars

-----------------------------------------------------------------------------
(* The number an element stands for. *)
Value(e) == CASE e.type = "LONG" -> e.longVal
              [] e.type = "LONGMONTGOMERY" -> (e.longVal * RInv) % q
              [] OTHER -> e.shortVal % q

(* Type invariant: parts in range, and a short element marked as Montgomery *)
(* has its number in both places.                                           *)
FrTypeOK ==
  \A e \in {x, y} :
    /\ e \in Element
    /\ e.type = "SHORTMONTGOMERY" => e.longVal = (e.shortVal * R) % q

(* Whatever path led to an element, its readers agree on the number: the    *)
(* text printed, the integer given to gmp, the long number the witness file *)
(* gets, the truth value, and the index wherever it fits a machine integer. *)
ReadersAgree ==
  \A e \in {x, y} :
    /\ Fr_element2str(e) = Value(e)
    /\ Fr_toMpz(e) = Value(e)
    /\ Fr_toLongNormal(e, e).longVal = Value(e)
    /\ Fr_isTrue(e) = (Value(e) # 0)
    /\ Fr_toInt(e) = IF \E n \in Shorts : n % q = Value(e)
                     THEN CHOOSE n \in Shorts : n % q = Value(e) ELSE Fail

(* Operations on representations are operations on numbers: over every      *)
(* sequence of operations, types of operands and junk left in memory, the   *)
(* numbers behave as PrimeField says.                                       *)
Numbers == INSTANCE PrimeField WITH x <- Value(x), y <- Value(y)
ImplementsPrimeField == Numbers!Spec
=============================================================================
