SPECIFICATION RSpec
CONSTANTS
  ownerA = ownerA  agentA = agentA
  Nobody = Nobody  NoPolicy = NoPolicy  NoCoin = NoCoin
  Addresses = {ownerA, agentA}
  RecipientLists <- MCRecipientLists
  InitialWallet <- MCInitialWallet
  Witnesses = {w1}
  Nonces = {n1, n2, o1, o2}
  OwnerNonces = {o1, o2}
  Keys = {k1}
  CoinIds = {c1, c2}
  Amounts = {1, 2}
  Caps = {2}
  Expiries = {1}
  U64Max = 7
  MaxTime = 2
  MaxGrants = 2
PROPERTIES
  NeverBricked
CHECK_DEADLOCK FALSE
