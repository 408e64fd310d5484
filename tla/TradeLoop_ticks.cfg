SPECIFICATION FairSpec
CONSTANTS
  Qty = 2
  Buffer = 2
  Fee = 1
  OwnFunds = 4
  CoinValues = {8, 10}
  MaxCoins = 3
  PageSize = 2
  Grants = {5, 24}
  MaxGrants = 2
  MaxFaults = 2
INVARIANTS
  TypeOK
  DepositsAuthorised
  ExposureBounded
PROPERTIES
  KeepsTrading
