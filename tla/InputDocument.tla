--------------------------- MODULE InputDocument ----------------------------
(***************************************************************************)
(* The input document of the witness program: how loadJson (main.cpp)      *)
(* flattens the JSON into keys and values, and how the values become       *)
(* elements of the field.  WitnessCalc is what the program does with them. *)
(* The walk over a document is recursive; this module is for TLC.          *)
(***************************************************************************)
EXTENDS FieldOrder, SequencesExt, TLC

CONSTANTS KeyRank,       \* the order of the keys in a JSON object
          MaxExact       \* integers above it lose their last bit in a double

ASSUME ExactAssumption == MaxExact \in Nat

-----------------------------------------------------------------------------
(* JSON values: [t |-> "string", base, digits], [t |-> "integer", n],       *)
(* [t |-> "float", n] with n what precision 0 prints, [t |-> "boolean"],    *)
(* [t |-> "array", v], [t |-> "object", v] with v a function of keys.       *)

RECURSIVE TypeOf(_)
(* "null" for an empty array, "mixed" where the elements differ. *)
TypeOf(x) ==
  IF x.t # "array" THEN (IF x.t = "string" THEN "integer" ELSE x.t)
  ELSE IF x.v = <<>> THEN "null"
  ELSE LET types == {TypeOf(x.v[i]) : i \in DOMAIN x.v}
       IN  IF Cardinality(types) = 1 THEN CHOOSE t \in types : TRUE ELSE "mixed"

InOrder(keys) == SetToSortSeq(keys, LAMBDA a, b : KeyRank[a] < KeyRank[b])

RECURSIVE Qualify(_, _, _), QualifyList(_, _, _)
(* The items of value x under a prefix, added to those of flat: a later     *)
(* value of the same qualified key replaces an earlier one.                 *)
Qualify(prefix, x, flat) ==
  CASE x.t = "array" /\ TypeOf(x) = "object" -> QualifyList(prefix, x, flat)
    [] x.t = "object" ->
         FoldLeft(LAMBDA acc, k :
                    Qualify(IF prefix = "" THEN k ELSE prefix \o "." \o k, x.v[k], acc),
                  flat, InOrder(DOMAIN x.v))
    [] OTHER -> (prefix :> x) @@ flat

QualifyList(prefix, x, flat) ==
  IF x.t = "array"
  THEN FoldLeft(LAMBDA acc, i :
                  QualifyList(prefix \o "[" \o ToString(i - 1) \o "]", x.v[i], acc),
                flat, [i \in DOMAIN x.v |-> i])
  ELSE Qualify(prefix, x, flat)

RECURSIVE Mixed(_)
(* check_type fails somewhere in x: qualify_input asserts before loading. *)
Mixed(x) == CASE x.t = "array"  -> \/ TypeOf(x) = "mixed"
                                   \/ \E i \in DOMAIN x.v : Mixed(x.v[i])
              [] x.t = "object" -> \E k \in DOMAIN x.v : Mixed(x.v[k])
              [] OTHER          -> FALSE

-----------------------------------------------------------------------------
(* A number in the field.  Text is checked digit by digit; a JSON number    *)
(* passes through a double, and is never checked.                           *)

check_valid_number(x) == \A i \in DOMAIN x.digits : x.digits[i] < x.base

Fr_str2element(n) == n % q

TextValue(x) == FoldLeft(LAMBDA n, d : n * x.base + d, 0, x.digits)

ThroughDouble(n) == IF n > MaxExact THEN n - (n % 2) ELSE n

FrOf(x) == Fr_str2element(IF x.t = "string" THEN TextValue(x)
                          ELSE IF x.t = "integer" THEN ThroughDouble(x.n) ELSE x.n)

RECURSIVE Flat(_), Readable(_)
(* The elements of a value, arrays of any depth laid flat. *)
Flat(x) == IF x.t = "array" THEN FlattenSeq([i \in DOMAIN x.v |-> Flat(x.v[i])])
           ELSE <<FrOf(x)>>
Readable(x) == CASE x.t = "array"  -> \A i \in DOMAIN x.v : Readable(x.v[i])
                 [] x.t = "string" -> check_valid_number(x)
                 [] OTHER          -> x.t \in {"integer", "float"}

-----------------------------------------------------------------------------
Flattening(d) == Qualify("", d, <<>>)

(* What the loader goes through: for each key, in order, whether its value  *)
(* can be read and the elements read from it.                               *)
LoadItems(d) ==
  LET flat == Flattening(d)
      keys == InOrder(DOMAIN flat)
      Item(k) == [key |-> k, readable |-> Readable(flat[k]),
                  values |-> IF Readable(flat[k]) THEN Flat(flat[k]) ELSE <<>>]
  IN  [i \in DOMAIN keys |-> Item(keys[i])]

Loaded(d) == [mixed |-> Mixed(d), items |-> IF Mixed(d) THEN <<>> ELSE LoadItems(d)]

RECURSIVE Number(_)
(* The number a value stands for, before any conversion. *)
Number(x) == CASE x.t = "array"   -> Number(x.v[1])
               [] x.t = "string"  -> TextValue(x)
               [] OTHER           -> x.n
Exact(x) == Number(x) <= MaxExact \/ x.t = "string"
=============================================================================
