SPECIFICATION Spec
CONSTANTS
  c1 = c1  c2 = c2
  r1 = r1
  deposit = deposit  rental = rental
  NoLink = NoLink
  Clerk = {c1, c2}
  Reservation = {r1}
  Link = {deposit, rental}
  Hold = {deposit}
  Stripe = {rental}
  ResOf <- OneReservation
  AmountOf <- DepositOfTwo
  Owed <- OwesTwo
  Amounts = {2}
  MaxTyped = 1
  MaxAttempts = 2
INVARIANTS TypeOK RecordedOnce OnlyRealMoney DepositsAreSettled
SYMMETRY Clerks
CHECK_DEADLOCK FALSE
