----------------------------- MODULE MCWitness -----------------------------
(* Instances for TLC: a field of 13 elements, the input hash map of         *)
(* iwallet.dat and documents that take every path of the loader.            *)
EXTENDS WitnessProgram

MCq == 13
MCC == [i \in 0 .. 71 |-> (5 * i + 3) % 13]
MCS == [i \in 0 .. 167 |-> (7 * i * i + i + 1) % 13]
MCM == [i \in 0 .. 1 |-> [j \in 0 .. 1 |-> 2 + 3 * i + 5 * i * j + j]]
MCP == [i \in 0 .. 1 |-> [j \in 0 .. 1 |-> 3 + 2 * i + 4 * i * j + 3 * j]]

(* Slots 44, 86 and 156 of 256 are taken; "zeta" falls on the slot of       *)
(* identity_hash, "a" on an empty one.                                      *)
MCFnv == [k \in {"identity_hash", "intent_hash", "w", "zeta", "a", "", "w[0].n",
                     "a.identity_hash", "a.intent_hash", "a.w"} |->
            CASE k = "identity_hash" -> 44 [] k = "w" -> 86
              [] k = "intent_hash" -> 156 [] k = "zeta" -> 300 [] OTHER -> 7]
MCHashMap ==
  [p \in 0 .. 255 |->
     CASE p = 44  -> [hash |-> 44, signalid |-> 1, signalsize |-> 1]
       [] p = 86  -> [hash |-> 86, signalid |-> 3, signalsize |-> 1]
       [] p = 156 -> [hash |-> 156, signalid |-> 2, signalsize |-> 1]
       [] OTHER   -> [hash |-> 0, signalid |-> 0, signalsize |-> 0]]
MCKeyRank == [k \in DOMAIN MCFnv \union {"n"} |->
                CASE k = "" -> 0 [] k = "a" -> 1 [] k = "a.identity_hash" -> 2
                  [] k = "a.intent_hash" -> 3 [] k = "a.w" -> 4
                  [] k = "identity_hash" -> 5 [] k = "intent_hash" -> 6
                  [] k = "n" -> 7 [] k = "w" -> 8 [] k = "w[0].n" -> 9
                  [] OTHER -> 10]

Dec(ds) == [t |-> "string", base |-> 10, digits |-> ds]
Hex(ds) == [t |-> "string", base |-> 16, digits |-> ds]
Num(n) == [t |-> "integer", n |-> n]
Arr(s) == [t |-> "array", v |-> s]
Obj(f) == [t |-> "object", v |-> f]
Id(w) == Dec(<<PoseidonHash(w) \div 10, PoseidonHash(w) % 10>>)
Doc(id, intent, w) ==
  Obj([k \in {"identity_hash", "intent_hash", "w"} |->
         CASE k = "w" -> w [] k = "intent_hash" -> intent [] OTHER -> id])
With(d, k, x) == Obj((k :> x) @@ d.v)
Base == Doc(Id(5), Dec(<<9>>), Dec(<<5>>))

MCDocuments ==
  {Doc(Id(w), Dec(<<1, i>>), Hex(<<w>>)) : w \in {0, 3, 12}, i \in {2}}
    \union {Base,
            Doc(Id(6), Dec(<<9>>), Dec(<<5>>)),            \* wrong identity
            Doc(Id(31 % 13), Dec(<<>>), Dec(<<3, 1>>)),    \* w above q, empty text
            Doc(Id(30 % 13), Dec(<<4>>), Num(31)),         \* rounded by the double
            Doc(Id(12), Dec(<<4>>), Num(-1)),              \* negative number
            Doc(Id(5), Num(3), Arr(<<Arr(<<Dec(<<5>>)>>)>>)),
            Doc(Id(5), Arr(<<>>), Dec(<<5>>)),
            Doc(Id(5), Arr(<<Num(1), Num(2)>>), Dec(<<5>>)),
            Doc(Id(5), Dec(<<11>>), Dec(<<5>>)),           \* not a digit
            Doc(Id(5), [t |-> "boolean"], Dec(<<5>>)),
            Doc(Id(5), Arr(<<Num(1), Obj(<<>>)>>), Dec(<<5>>)),
            Doc(Id(5), Dec(<<4>>), Arr(<<Obj(("n" :> Num(5)))>>)),
            Obj(<<>>), Num(4),
            Obj(("w" :> Dec(<<5>>))),
            With(Base, "zeta", Dec(<<1>>)), With(Base, "a", Dec(<<1>>)),
            Obj(("" :> Base)), Obj(("a" :> Base))}

MCFlattened == [d \in MCDocuments |-> Loaded(d)]
=============================================================================
