SPECIFICATION Spec
CONSTANTS
  Accounts = {a1, a2}
  Passkey = Passkey  None = None
  Sponsored = TRUE
  MaxWitnesses = 2  MaxClicks = 2  MaxClosed = 1  MaxFaults = 2
INVARIANTS
  TypeOK
  IdentitiesBounded
  SavedIsComplete
\* The bounds on clicks and witnesses end every run.
CHECK_DEADLOCK FALSE
