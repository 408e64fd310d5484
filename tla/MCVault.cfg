SPECIFICATION Spec
CONSTANTS
  ownerA = ownerA  agentA = agentA  managerA = managerA
  Nobody = Nobody  NoPolicy = NoPolicy  NoCoin = NoCoin
  Addresses = {ownerA, agentA, managerA}
  RecipientLists <- MCRecipientLists
  InitialWallet <- MCInitialWallet
  Witnesses = {w1, w2}
  Nonces = {n1, n2}
  Keys = {k1, k2}
  CoinIds = {c1, c2}
  Amounts = {1, 2}
  Caps = {2}
  Expiries = {0, 1}
  U64Max = 7
  MaxTime = 1
  MaxGrants = 2
INVARIANTS
  TypeOK
  ExtractionWithinGrants
  SpentMatchesLog
  Conservation
  SingleUse
  ExecutionsAuthorised
PROPERTIES
  ImplementsDelegation
SYMMETRY Symmetry
\* The bounds on time and grants end every behaviour.
CHECK_DEADLOCK FALSE
