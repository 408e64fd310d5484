-------------------------- MODULE WitnessProgram ---------------------------
(***************************************************************************)
(* The whole program, from the JSON document to the witness: WitnessCalc   *)
(* with the items InputDocument reads.                                     *)
(***************************************************************************)
EXTENDS WitnessCalc, InputDocument

ASSUME FlattenedAssumption == Flattened = [d \in Documents |-> Loaded(d)]

(* A document with exactly the three inputs, each readable, and an identity *)
(* that is the hash of w.                                                   *)
Proves ==
  /\ ~ Mixed(doc)
  /\ LET flat == Flattening(doc)
     IN  /\ DOMAIN flat = {"identity_hash", "intent_hash", "w"}
         /\ \A k \in DOMAIN flat : Readable(flat[k]) /\ Len(Flat(flat[k])) = 1
         /\ Flat(flat["identity_hash"])[1] = PoseidonHash(Flat(flat["w"])[1])

(* The public inputs and w of the witness are the numbers of the document,  *)
(* those written as JSON numbers only as far as a double holds them.        *)
OfTheDocument ==
  \A s \in 1 .. 3 :
    LET x == Flattening(doc)[<<"identity_hash", "intent_hash", "w">>[s]]
    IN  Exact(x) => witness[s] = Number(x) % q

(* Every run ends, with a witness of its numbers for the documents that     *)
(* prove something and without one for all others: a missing, unknown,      *)
(* repeated, unreadable or wrong input never leaves a witness behind.       *)
WitnessOnlyAndAlwaysForProofs ==
  <>[](IF Proves THEN witness # <<>> /\ OfTheDocument
                 ELSE at.loop = "abort" /\ witness = <<>>)
=============================================================================
