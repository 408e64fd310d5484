SPECIFICATION FrSpec
CONSTANTS
  q = 11
  R = 16
  ShortMax = 1
  Numerals = {0, 1, 4, 9, 10, 13}
  Leftovers = {0, 3, 10}
INVARIANTS FrTypeOK ReadersAgree
PROPERTY ImplementsPrimeField
CHECK_DEADLOCK FALSE
