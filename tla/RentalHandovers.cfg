SPECIFICATION CarefulSpec
CONSTANTS
  c1 = c1  c2 = c2
  r1 = r1  r2 = r2
  v1 = v1  v2 = v2
  m1 = m1
  NoVehicle = NoVehicle
  Clerk = {c1}
  Reservation = {r1, r2}
  Vehicle = {v1, v2}
  Record = {}
  Slot <- TodayAndLater
  VehicleOf <- FirstCar
  AfterCheckOut = "cleaning"
  MaxBlocks = 1
SYMMETRY SymCars
INVARIANTS OutIsRented RentedOncePerDelivery
PROPERTY RentedUntilReturned
CHECK_DEADLOCK FALSE
