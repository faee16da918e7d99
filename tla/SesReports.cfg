SPECIFICATION FairSpec
CONSTANTS
  Rental = {1}
  Payload <- Payloads
  NoPayload = NoPayload
  MaxTasks = 4  MaxOpen = 2
  MaxRetries <- Retries
  MaxEdits = 2
  MaxFaults = 2
INVARIANTS TypeOK DeclaredOnce
PROPERTIES KeepsProof EveryReportArrives
CHECK_DEADLOCK FALSE
