SPECIFICATION FairSpec
CONSTANTS
  Key = {k1, k2}
  Body <- Bodies
  Customer = {"ana"}
  Group = {"small", "large"}
  Places <- Places1
  Nobody = Nobody
  MaxRequests = 2
  MaxFaults = 1
  MaxCounter = 1
INVARIANT TypeOK
PROPERTIES OneBookingPerKey TheCounterIsHeard EveryRequestIsAnswered
CHECK_DEADLOCK FALSE
