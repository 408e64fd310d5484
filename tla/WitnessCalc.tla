---------------------------- MODULE WitnessCalc ----------------------------
(***************************************************************************)
(* The witness calculator around the circuit (main.cpp, calcwit.cpp): it   *)
(* goes through the items of the flattened input document, finds the       *)
(* signal of each key through the hash map, runs the circuit as soon as    *)
(* the last input is set and writes the witness.  Whatever goes wrong ends *)
(* the process: an exception or a failed assertion, both "abort".          *)
(***************************************************************************)
EXTENDS Circuit, Sequences

CONSTANTS Documents,     \* the documents the program may be given
          Flattened,     \* what is read from each (module InputDocument)
          Fnv,           \* fnv1a of a key
          HashSize,      \* slots of the input hash map
          InputHashMap   \* [0..HashSize-1 -> [hash, signalid, signalsize]]

(* One key of a document; values is <<>> when they cannot be read. *)
Item == [key : DOMAIN Fnv, readable : BOOLEAN, values : Seq(Field)]

ASSUME DocumentAssumption ==
  \A d \in Documents : Flattened[d] \in [mixed : BOOLEAN, items : Seq(Item)]

ASSUME HashMapAssumption ==
  /\ HashSize \in Nat \ {0}
  /\ \A k \in DOMAIN Fnv : Fnv[k] \in Nat
  /\ \A p \in 0 .. HashSize - 1 :
       LET e == InputHashMap[p]
       IN  /\ e.signalid \in Nat /\ e.signalsize \in Nat
           /\ e.signalsize > 0 => e.signalid >= 1 /\ e.signalid + e.signalsize <= 4

VARIABLES doc,                   \* the document (ghost after the start)
          items,                 \* items of the document still to be loaded
          inputSignalAssigned,   \* main inputs already set
          witness                \* what was written, <<>> before

vars == <<circuitVars, doc, items, inputSignalAssigned, witness>>

-----------------------------------------------------------------------------
(* The hash map: open addressing, empty slots have signal id 0.             *)

Slot(h, i) == InputHashMap[(h + i) % HashSize]

(* How far from its own slot a hash is found: the first slot is not tested  *)
(* for being empty, the later ones are.                                     *)
Found(h) == {i \in 0 .. HashSize - 1 :
               /\ Slot(h, i).hash = h
               /\ \A k \in 1 .. i - 1 : Slot(h, k).signalid # 0}

getInputSignalHashPosition(h) ==
  (h + (CHOOSE i \in Found(h) : \A k \in Found(h) : i <= k)) % HashSize

(* Mutant: one input less is waited for. *)
Remaining_OneShort == 2 - Cardinality(inputSignalAssigned)

Remaining == 3 - Cardinality(inputSignalAssigned)

(* Where the values of a key go.                                            *)
Entry(it) == InputHashMap[getInputSignalHashPosition(Fnv[it.key])]
Targets(it) == {Entry(it).signalid + i - 1 : i \in DOMAIN it.values}

Init ==
  /\ CircuitInit
  /\ doc \in Documents
  /\ items = Flattened[doc].items
  /\ inputSignalAssigned = {}
  /\ witness = <<>>

Loading == at.loop \in {"idle", "done"} /\ witness = <<>>

Abort == /\ Goto("abort")
         /\ UNCHANGED <<signalValues, inputCounter, runs, released,
                        items, inputSignalAssigned>>

(* The values are readable, as many as the signal has, and not set yet.     *)
Accepts(it) ==
  /\ it.readable
  /\ Found(Fnv[it.key]) # {}
  /\ Len(it.values) = Entry(it).signalsize
  /\ Len(it.values) > 0 => Remaining > 0
  /\ Targets(it) \cap inputSignalAssigned = {}

SetSignals(it) ==
  LET sv == WriteAll(signalValues, [s \in Targets(it) |->
                                      it.values[s - Entry(it).signalid + 1]])
  IN  /\ inputSignalAssigned' = inputSignalAssigned \cup Targets(it)
      /\ items' = Tail(items)
      /\ IF Targets(it) # {} /\ Remaining = Cardinality(Targets(it))
         THEN Start(sv)
         ELSE /\ signalValues' = sv
              /\ UNCHANGED <<inputCounter, runs, released, at>>

(* One pass of loadJson's loop; the third input that is set runs the        *)
(* circuit before the next item is looked at.                               *)
LoadItem ==
  /\ Loading /\ items # <<>>
  /\ IF Accepts(Head(items)) THEN SetSignals(Head(items)) ELSE Abort
  /\ UNCHANGED <<doc, witness>>

(* main after loadJson: all inputs must be set, then the witness is written *)
(* signal by signal, in the order of witness2SignalList.                    *)
witness2SignalList ==
  (0 .. 4)
    \union {Out(Ark(0), j) : j \in 0 .. 1}
    \union (UNION {SignalsOf(Ark(i)) : i \in 1 .. 7})
    \union {Out(c, j) : c \in Mixes, j \in 0 .. 1}
    \union {In(MixLast, j) : j \in 0 .. 1}
    \union {Out(c, j) : c \in MixSs, j \in 0 .. 2}
    \union {Out(c, j) : c \in Sigmas, j \in 2 .. 3}
    \union {Out(SigmaP(r), 0) : r \in 0 .. 55}

(* Mutant: a witness is written also when inputs are missing. *)
Finish_Incomplete ==
  /\ Loading /\ items = <<>>
  /\ witness' = [s \in witness2SignalList |-> signalValues[s]]
  /\ UNCHANGED <<circuitVars, doc, items, inputSignalAssigned>>

Finish ==
  /\ Loading /\ items = <<>>
  /\ IF Remaining # 0 \/ Flattened[doc].mixed
     THEN Abort /\ UNCHANGED witness
     ELSE /\ witness' = [s \in witness2SignalList |-> signalValues[s]]
          /\ UNCHANGED <<circuitVars, items, inputSignalAssigned>>
  /\ UNCHANGED doc

Compute == CircuitStep /\ UNCHANGED <<doc, items, inputSignalAssigned, witness>>

Next == LoadItem \/ Finish \/ Compute

Spec == Init /\ [][Next]_vars /\ WF_vars(Next)

-----------------------------------------------------------------------------
(* Type invariant: signals hold field elements or nothing, counters count   *)
(* down from what the template waits for.                                   *)
TypeOK ==
  /\ signalValues \in [Signals -> Field \union {Undef}]
  /\ inputCounter # <<>> => /\ DOMAIN inputCounter = Components
                            /\ \A c \in Components : inputCounter[c] \in 0 .. Inputs(c)
  /\ runs \in [Components -> Nat]
  /\ released \subseteq Components
  /\ doc \in Documents /\ items \in Seq(Item)
  /\ inputSignalAssigned \subseteq 1 .. 3

(* A witness that is written satisfies the circuit: the identity is the     *)
(* hash of w and the last signal the square of the intent, whatever the     *)
(* document was, and no entry is memory that nobody wrote.                  *)
WitnessSatisfies ==
  witness # <<>> =>
    /\ \A s \in DOMAIN witness : witness[s] \in Field
    /\ witness[0] = 1
    /\ Satisfied(witness)
=============================================================================
