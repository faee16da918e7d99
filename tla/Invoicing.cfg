SPECIFICATION Spec
CONSTANTS
  c1 = c1  c2 = c2  c3 = c3
  r1 = r1  r2 = r2
  NoReservation = NoReservation
  Clerk = {c1, c2}
  Reservation = {r1}
  Ordinary = {"F"}
  Rectifying = {"R"}
  Prices = {1, 2}
  MaxQuantity = 1
  MaxCharges = 2
  MaxInvoices = 3
  MaxTicks = 3
SYMMETRY SymClerks
INVARIANTS TypeOK Gapless OneInForce ChainReachesTheFirst
PROPERTIES AgreedPriceIsKept InvoiceMatchesReservation
CHECK_DEADLOCK FALSE
