------------------------------ MODULE Circuit ------------------------------
(***************************************************************************)
(* The generated witness program src/circuits/iwallet_cpp/iwallet.cpp: the *)
(* component tree of IWalletAuth (main, its Poseidon hasher, PoseidonEx    *)
(* and the 144 components of the permutation), the array of 585 signals    *)
(* they share and the loops that copy a signal from one component to an    *)
(* input of another.  A component runs when its last input is copied.  The *)
(* layout (component numbers, signal offsets, round counts) has its real   *)
(* size; the field and the round constants are parameters.                 *)
(***************************************************************************)
EXTENDS FieldOrder, FiniteSets

CONSTANTS C, S,    \* round constants of the full and of the sparse layers
          M, P     \* the two matrices

ASSUME ConstantsAssumption ==
  /\ C \in [0 .. 71 -> Field] /\ S \in [0 .. 167 -> Field]
  /\ {M, P} \subseteq [0 .. 1 -> [0 .. 1 -> Field]]

Undef == q         \* what an element nobody has written yet stands for

VARIABLES signalValues,   \* the shared array, [0..584 -> Field or Undef]
          inputCounter,   \* inputs still missing, of the components created
          runs,           \* how often each component has run
          released,       \* components whose memory was released
          at              \* the loop reached, its counters r and j

circuitVars == <<signalValues, inputCounter, runs, released, at>>

-----------------------------------------------------------------------------
(* Arithmetic; whatever is computed from an unwritten element is unwritten. *)

(* Mutant: a sum that is not reduced. *)
Add_NoReduction(a, b) == IF Undef \in {a, b} THEN Undef ELSE a + b

Add(a, b) == IF Undef \in {a, b} THEN Undef ELSE (a + b) % q
Mul(a, b) == IF Undef \in {a, b} THEN Undef ELSE (a * b) % q

(* The component tree.  Main is 0, the hasher 1, PoseidonEx 2.              *)

Main == 0
Poseidon == 1
PoseidonEx == 2
Ark(i) == 3 + i
Mix(i) == 11 + i
MixLast == 18
MixS(r) == 19 + r
SigmaF(r, j) == 75 + 2 * r + j
SigmaP(r) == 91 + r

Arks == {Ark(i) : i \in 0 .. 7}
Mixes == {Mix(i) : i \in 0 .. 6}
MixSs == {MixS(r) : r \in 0 .. 55}
Sigmas == {SigmaF(r, j) : r \in 0 .. 7, j \in 0 .. 1}
            \union {SigmaP(r) : r \in 0 .. 55}
SubComponents == Arks \union Mixes \union {MixLast} \union MixSs \union Sigmas
Components == {Main, Poseidon, PoseidonEx} \union SubComponents

(* Where the signals of a component begin in signalValues.                  *)
signalStart ==
  [c \in Components |->
     CASE c = Main       -> 1
       [] c = Poseidon   -> 1 + 4
       [] c = PoseidonEx -> 5 + 2
       [] c \in Arks     -> 7 + 3 + 4 * (c - Ark(0))
       [] c \in Mixes    -> 7 + 35 + 4 * (c - Mix(0))
       [] c = MixLast    -> 7 + 63
       [] c \in MixSs    -> 7 + 66 + 4 * (c - MixS(0))
       [] c \in Sigmas /\ c < SigmaP(0) -> 7 + 290 + 4 * (c - SigmaF(0, 0))
       [] OTHER          -> 7 + 354 + 4 * (c - SigmaP(0))]

(* Mutant: a component that runs before its last input is there. *)
Inputs_OneShort(c) == IF c \in Sigmas \union MixSs \union {Poseidon} THEN 1
                      ELSE IF c = Main THEN 3 ELSE 2

(* Inputs a component waits for, and where its k-th input is.               *)
Inputs(c) == IF c \in Sigmas \union {Poseidon} THEN 1
             ELSE IF c = Main THEN 3 ELSE 2
(* Mutant: components with two outputs keep their inputs one place early. *)
InputOffset_AllOne(c) == IF c = Main THEN 0 ELSE 1

InputOffset(c) == IF c \in Arks \union Mixes \union MixSs THEN 2
                  ELSE IF c = Main THEN 0 ELSE 1
In(c, k) == signalStart[c] + InputOffset(c) + k
Out(c, k) == signalStart[c] + k

Signals == 0 .. 584
SignalsOf(c) ==
  signalStart[c] .. signalStart[c] + (IF c = Poseidon THEN 1
                                      ELSE IF c \in {PoseidonEx, MixLast} THEN 2 ELSE 3)

-----------------------------------------------------------------------------
(* The templates: what running a component writes, given the signals sv.    *)

WriteAll(sv, f) == [s \in Signals |-> IF s \in DOMAIN f THEN f[s] ELSE sv[s]]

ArkConstant == [i \in 0 .. 7 |-> <<0, 2, 4, 6, 8, 66, 68, 70>>[i + 1]]

RunArk(c, sv) ==
  WriteAll(sv, [s \in {Out(c, 0), Out(c, 1)} |->
                  LET j == s - Out(c, 0)
                  IN  Add(sv[In(c, j)], C[ArkConstant[c - Ark(0)] + j])])

RunSigma(c, sv) ==
  LET in2 == Mul(sv[In(c, 0)], sv[In(c, 0)])
      in4 == Mul(in2, in2)
      start == signalStart[c]
  IN  [sv EXCEPT ![start + 2] = in2, ![start + 3] = in4,
                 ![start] = Mul(in4, sv[In(c, 0)])]

Row(m, i, a, b) == Add(Mul(m[0][i], a), Mul(m[1][i], b))

RunMix(c, sv) ==
  LET m == IF c = Mix(3) THEN P ELSE M
  IN  WriteAll(sv, [s \in {Out(c, 0), Out(c, 1)} |->
                      Row(m, s - Out(c, 0), sv[In(c, 0)], sv[In(c, 1)])])

RunMixS(c, sv) ==
  LET r == c - MixS(0)
      a == sv[In(c, 0)]
      b == sv[In(c, 1)]
  IN  [sv EXCEPT ![Out(c, 0)] = Add(Mul(S[3 * r], a), Mul(S[3 * r + 1], b)),
                 ![Out(c, 1)] = Add(b, Mul(a, S[3 * r + 2]))]

RunMixLast(c, sv) ==
  [sv EXCEPT ![Out(c, 0)] = Row(M, 0, sv[In(c, 0)], sv[In(c, 1)])]

Run(c, sv) == CASE c \in Arks   -> RunArk(c, sv)
                [] c \in Sigmas -> RunSigma(c, sv)
                [] c \in Mixes  -> RunMix(c, sv)
                [] c \in MixSs  -> RunMixS(c, sv)
                [] OTHER        -> RunMixLast(c, sv)

(* Copy v to input k of component c; run c when that was its last input.    *)
Feed(c, k, v) ==
  LET sv == [signalValues EXCEPT ![In(c, k)] = v]
      last == inputCounter[c] = 1
  IN  /\ inputCounter' = [inputCounter EXCEPT ![c] = @ - 1]
      /\ signalValues' = IF last THEN Run(c, sv) ELSE sv
      /\ runs' = [runs EXCEPT ![c] = @ + (IF last THEN 1 ELSE 0)]
      /\ UNCHANGED released

(* A loop body ends: the other j, and after both the loop that follows.     *)
At(loop) == at.loop = loop
Then(loop, r) == at' = IF at.j = 0 THEN [at EXCEPT !.j = 1]
                       ELSE [loop |-> loop, r |-> r, j |-> 0]

-----------------------------------------------------------------------------
(* The top of the tree: main creates and feeds the hasher, the hasher       *)
(* creates PoseidonEx, which creates all of its 144 components.             *)

Start(sv) ==
  LET main == [sv EXCEPT ![In(Poseidon, 0)] = sv[In(Main, 2)]]
      hash == [main EXCEPT ![signalStart[PoseidonEx] + 2] = 0,
                           ![In(PoseidonEx, 0)] = main[In(Poseidon, 0)]]
  IN  /\ signalValues' = hash
      /\ inputCounter' = [c \in Components |->
                            IF c = Main THEN 3
                            ELSE IF c \in {Poseidon, PoseidonEx} THEN 0
                            ELSE Inputs(c)]
      /\ runs' = [runs EXCEPT ![Main] = @ + 1, ![Poseidon] = @ + 1,
                              ![PoseidonEx] = @ + 1]
      /\ at' = [loop |-> "first", r |-> 0, j |-> 0]
      /\ UNCHANGED released

FirstArk ==
  /\ At("first")
  /\ Feed(Ark(0), at.j,
          signalValues[signalStart[PoseidonEx] + (IF at.j > 0 THEN 1 ELSE 2)])
  /\ Then("sigma", 0)

(* The first three full rounds. *)
FullSigma ==
  /\ At("sigma")
  /\ Feed(SigmaF(at.r, at.j), 0,
          signalValues[Out(IF at.r = 0 THEN Ark(0) ELSE Mix(at.r - 1), at.j)])
  /\ Then("ark", at.r)

FullArk ==
  /\ At("ark")
  /\ Feed(Ark(at.r + 1), at.j, signalValues[Out(SigmaF(at.r, at.j), 0)])
  /\ Then("mix", at.r)

FullMix ==
  /\ At("mix")
  /\ Feed(Mix(at.r), at.j, signalValues[Out(Ark(at.r + 1), at.j)])
  /\ IF at.r < 2 THEN Then("sigma", at.r + 1) ELSE Then("sigma3", 0)

(* The fourth, which ends in the matrix P. *)
FourthSigma ==
  /\ At("sigma3")
  /\ Feed(SigmaF(3, at.j), 0, signalValues[Out(Mix(2), at.j)])
  /\ Then("ark4", 0)

FourthArk ==
  /\ At("ark4")
  /\ Feed(Ark(4), at.j, signalValues[Out(SigmaF(3, at.j), 0)])
  /\ Then("mix3", 0)

FourthMix ==
  /\ At("mix3")
  /\ Feed(Mix(3), at.j, signalValues[Out(Ark(4), at.j)])
  /\ Then("sigmaP", 0)

(* The 56 partial rounds: one S-box, then a sparse matrix. *)
PartialSigma ==
  /\ At("sigmaP")
  /\ Feed(SigmaP(at.r), 0,
          signalValues[Out(IF at.r = 0 THEN Mix(3) ELSE MixS(at.r - 1), 0)])
  /\ at' = [at EXCEPT !.loop = "mixS"]

PartialMix ==
  /\ At("mixS")
  /\ Feed(MixS(at.r), at.j,
          IF at.j = 0
          THEN Add(signalValues[Out(SigmaP(at.r), 0)], C[10 + at.r])
          ELSE signalValues[Out(IF at.r = 0 THEN Mix(3) ELSE MixS(at.r - 1), 1)])
  /\ IF at.r < 55 THEN Then("sigmaP", at.r + 1) ELSE Then("sigma4", 0)

(* The last four full rounds; the fourth of them ends in one output. *)
LateSigma ==
  /\ At("sigma4")
  /\ Feed(SigmaF(4 + at.r, at.j), 0,
          signalValues[Out(IF at.r = 0 THEN MixS(55) ELSE Mix(4 + at.r - 1), at.j)])
  /\ Then("ark5", at.r)

LateArk ==
  /\ At("ark5")
  /\ Feed(Ark(4 + at.r + 1), at.j, signalValues[Out(SigmaF(4 + at.r, at.j), 0)])
  /\ Then("mix4", at.r)

LateMix ==
  /\ At("mix4")
  /\ Feed(Mix(4 + at.r), at.j, signalValues[Out(Ark(4 + at.r + 1), at.j)])
  /\ IF at.r < 2 THEN Then("sigma4", at.r + 1) ELSE Then("sigma7", 0)

LastSigma ==
  /\ At("sigma7")
  /\ Feed(SigmaF(7, at.j), 0, signalValues[Out(Mix(6), at.j)])
  /\ Then("mixLast", 0)

LastMix ==
  /\ At("mixLast")
  /\ Feed(MixLast, at.j, signalValues[Out(SigmaF(7, at.j), 0)])
  /\ Then("endEx", 0)

Goto(loop) == at' = [loop |-> loop, r |-> 0, j |-> 0]

(* A component that ends asserts that none of its own children still waits  *)
(* for an input, then releases them.                                        *)
Release(children, loop) ==
  IF \A c \in children : inputCounter[c] = 0
  THEN released' = released \union children /\ Goto(loop)
  ELSE UNCHANGED released /\ Goto("abort")

EndPoseidonEx ==
  /\ At("endEx")
  /\ signalValues' = [signalValues EXCEPT ![Out(PoseidonEx, 0)] =
                                            signalValues[Out(MixLast, 0)]]
  /\ Release(SubComponents, "endPoseidon")
  /\ UNCHANGED <<inputCounter, runs>>

EndPoseidon ==
  /\ At("endPoseidon")
  /\ signalValues' = [signalValues EXCEPT ![Out(Poseidon, 0)] =
                                            signalValues[Out(PoseidonEx, 0)]]
  /\ Release({PoseidonEx}, "endMain")
  /\ UNCHANGED <<inputCounter, runs>>

(* Mutant: the constraint on the identity is not checked. *)
EndMain_Unchecked ==
  /\ At("endMain")
  /\ signalValues' = [signalValues EXCEPT ![signalStart[Main] + 3] =
                        Mul(signalValues[In(Main, 1)], signalValues[In(Main, 1)])]
  /\ Release({Poseidon}, "done")
  /\ UNCHANGED <<inputCounter, runs>>

(* identity_hash must be the hash of w, or the program aborts; then the     *)
(* square of intent_hash is the last signal of main.                        *)
EndMain ==
  /\ At("endMain")
  /\ IF signalValues[In(Main, 0)] # signalValues[Out(Poseidon, 0)]
     THEN Goto("abort") /\ UNCHANGED <<signalValues, released>>
     ELSE /\ signalValues' = [signalValues EXCEPT ![signalStart[Main] + 3] =
                                Mul(signalValues[In(Main, 1)], signalValues[In(Main, 1)])]
          /\ Release({Poseidon}, "done")
  /\ UNCHANGED <<inputCounter, runs>>

CircuitStep ==
  \/ FirstArk \/ FullSigma \/ FullArk \/ FullMix
  \/ FourthSigma \/ FourthArk \/ FourthMix
  \/ PartialSigma \/ PartialMix
  \/ LateSigma \/ LateArk \/ LateMix \/ LastSigma \/ LastMix
  \/ EndPoseidonEx \/ EndPoseidon \/ EndMain

CircuitInit ==
  /\ signalValues = [s \in Signals |-> IF s = 0 THEN 1 % q ELSE Undef]
  /\ inputCounter = <<>>
  /\ runs = [c \in Components |-> 0]
  /\ released = {}
  /\ at = [loop |-> "idle", r |-> 0, j |-> 0]

(* What the loader does to the circuit: it sets inputs of main, none twice, *)
(* and the one that completes them runs it; or it gives up, before or after.*)
SetInputs ==
  /\ At("idle")
  /\ \E set \in SUBSET {s \in 1 .. 3 : signalValues[s] = Undef} :
       /\ set # {}
       /\ \E f \in [set -> Field] :
            LET sv == WriteAll(signalValues, f)
            IN  IF \A s \in 1 .. 3 : sv[s] # Undef THEN Start(sv)
                ELSE /\ signalValues' = sv
                     /\ UNCHANGED <<inputCounter, runs, released, at>>

GiveUp == /\ At("idle") \/ At("done")
          /\ Goto("abort")
          /\ UNCHANGED <<signalValues, inputCounter, runs, released>>

CircuitNext == SetInputs \/ CircuitStep \/ GiveUp

(* The circuit by itself, given any inputs in any order.  WitnessCalc is an *)
(* implementation of it.                                                    *)
CircuitSpec == CircuitInit /\ [][CircuitNext]_circuitVars

-----------------------------------------------------------------------------
(* The reference: Poseidon over two elements, as one function of w.         *)

Sbox(x) == LET x2 == (x * x) % q IN (((x2 * x2) % q) * x) % q
Times(m, s) == <<(m[0][0] * s[1] + m[1][0] * s[2]) % q,
                 (m[0][1] * s[1] + m[1][1] * s[2]) % q>>
FullRound(s, c, m) == Times(m, <<(Sbox(s[1]) + C[c]) % q, (Sbox(s[2]) + C[c + 1]) % q>>)
PartialRound(r) ==
  [s \in Field \X Field |->
     LET x == (Sbox(s[1]) + C[10 + r]) % q
     IN  <<(s[2] * S[3 * r + 1] + S[3 * r] * x) % q, (s[2] + S[3 * r + 2] * x) % q>>]

PoseidonHash(w) ==
  LET early == FullRound(FullRound(FullRound(<<C[0] % q, (w + C[1]) % q>>,
                                             2, M), 4, M), 6, M)
      half  == FullRound(early, 8, P)
      part[k \in 0 .. 56] == IF k = 0 THEN half ELSE PartialRound(k - 1)[part[k - 1]]
      late  == FullRound(FullRound(FullRound(part[56], 66, M), 68, M), 70, M)
  IN  Times(M, <<Sbox(late[1]), Sbox(late[2])>>)[1]

-----------------------------------------------------------------------------
(* Dataflow: a component runs exactly once, exactly when every input it     *)
(* waits for was written; from then on no signal it owns is unwritten, and  *)
(* none is freed before.  A wrong counter, offset or loop order would run   *)
(* a template on memory nobody wrote.                                       *)
RunsOnWrittenInputs ==
  /\ \A c \in SubComponents :
       LET missing == {k \in 0 .. Inputs(c) - 1 : signalValues[In(c, k)] = Undef}
       IN  /\ runs[c] <= 1
           /\ inputCounter # <<>> => inputCounter[c] = Cardinality(missing)
           /\ runs[c] = 1 <=> \A s \in SignalsOf(c) : signalValues[s] # Undef
  /\ \A c \in released : runs[c] = 1 /\ inputCounter[c] = 0

(* The signals of 147 components share one array: no step overwrites a      *)
(* signal that has a value, so that the offsets of the layout never clash.  *)
SingleAssignment ==
  [][\A s \in Signals :
       signalValues[s] # Undef => signalValues'[s] = signalValues[s]]_circuitVars

(* What the circuit asks of the signals of main: the identity is the hash   *)
(* of w, and the fourth the square of the intent.                           *)
Satisfied(sv) == /\ sv[1] = PoseidonHash(sv[3])
                 /\ sv[4] = (sv[2] * sv[2]) % q

(* A circuit that ends has computed what it asks for, through all of its    *)
(* components, as the one function of w that Poseidon is.                   *)
ComputesPoseidon == at.loop = "done" => Satisfied(signalValues)
=============================================================================
