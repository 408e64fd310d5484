SPECIFICATION Spec
CONSTANTS
  q <- MCq
  C <- MCC
  S <- MCS
  M <- MCM
  P <- MCP
  Fnv <- MCFnv
  HashSize = 256
  InputHashMap <- MCHashMap
  KeyRank <- MCKeyRank
  MaxExact = 20
  Documents <- MCDocuments
  Flattened <- MCFlattened
INVARIANTS TypeOK RunsOnWrittenInputs WitnessSatisfies
PROPERTIES CircuitSpec SingleAssignment WitnessOnlyAndAlwaysForProofs
CHECK_DEADLOCK FALSE
