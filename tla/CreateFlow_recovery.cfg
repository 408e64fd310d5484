SPECIFICATION Spec
CONSTANTS
  Accounts = {a1, a2}
  Passkey = Passkey  None = None
  Sponsored = TRUE
  MaxWitnesses = 2  MaxClicks = 2  MaxClosed = 0  MaxFaults = 0
INVARIANTS
  RecoveryRestores
CHECK_DEADLOCK FALSE
