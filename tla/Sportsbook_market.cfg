SPECIFICATION FairSpec
CONSTANTS
  Bettors = {b1, b2, b3}
  Stakes = {1, 3}
  OddsChoices = {0, 5}
  Bps = 2
  U64Max = 12
  MaxTime = 1
  NoBet = NoBet
INVARIANTS
  TypeOK
  RefundsCovered
  PaidWithinTerms
  ShortOnlyWhenDry
PROPERTIES
  BetsSettle
\* Odds are in halves (Bps = 2): 0 is not offered, 5 is 2.50.
\* A market with every bet claimed has nothing left to do.
CHECK_DEADLOCK FALSE
