SPECIFICATION Spec
CONSTANTS
  None = None
  Gone = Gone
  Pool <- Pool1
  Extra <- Extra1
  Supplement <- Supplement1
  Discount <- Discount1
  Courtesy = 59
  TaxRate = 21
  KmPrice = 15
  LitrePrice = 163
  DefaultTank = 50
  Rate = {1, 2, 3}
  Season = {"high", "bridge"}
  Editor = {e1, e2}
  Typed <- Typed1
  SeasonRows <- SeasonRows1
  TierChoices <- Tiers1
  Initial <- Initial1
  Calendars <- Calendars1
  Requests <- Requests1
  Days = {1, 2, 3, 4}
  MaxEdits = 2
SYMMETRY Symmetric
INVARIANTS TypeOK EveryDayIsPricedOnce PricedByTheDay DiscountsStopAtZero TiesAreForeseen
CHECK_DEADLOCK FALSE
