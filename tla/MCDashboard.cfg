SPECIFICATION Spec
CONSTANTS
  ownerA = ownerA  ownerB = ownerB  oldA = oldA  newB = newB
  NoOwner = NoOwner
  Owners = {ownerA, ownerB}
  Ids = {oldA, newB}
  OwnerOf <- MCOwnerOf
  TxWindow = {newB}
  EventWindow = {newB}
  MaxLoads = 4
  MaxAdding = 1
  MaxReloads = 1
  MaxFaults = 1
INVARIANTS
  TypeOK
  SettledList
  RegistryRecovers
PROPERTIES
  LoadingEnds
\* The user may stop clicking.
CHECK_DEADLOCK FALSE
