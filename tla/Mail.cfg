SPECIFICATION NarrowSpec
CONSTANTS
  Reservation = {1}
  NoAddress = {}
  SwitchedOff = {}
  MaxTasks = 4  MaxOpen = 1
  MaxRetries <- Retries
  MaxEmails = 2
  MaxContracts = 1
  MaxSweeps = 2
  MaxFaults = 1
  MaxClicks = 1
INVARIANTS TypeOK DuplicatesHaveACause RemindedOnce ContractMailsCarryIt
PROPERTY EveryMailEnds
CHECK_DEADLOCK FALSE
