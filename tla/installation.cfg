SPECIFICATION Spec
CONSTANTS
  Capacity <- Sizes
  Installed <- Written
  Edits <- Editor
  Limit <- Bounds
  Patches <- Turns
  MaxFaults = 2
INVARIANTS TypeOK EveryLedOnce
PROPERTIES BackupIsPrevious IsRegister
\* A configuration that does not validate never starts.
CHECK_DEADLOCK FALSE
