SPECIFICATION Spec
CONSTANTS
  c1 = c1  c2 = c2
  r1 = r1  r2 = r2
  v1 = v1  v2 = v2
  m1 = m1
  NoVehicle = NoVehicle
  Clerk = {c1, c2}
  Reservation = {r1}
  Vehicle = {v1}
  Record = {m1}
  Slot <- TodayAndLater
  VehicleOf <- FirstCar
  AfterCheckOut = "available"
  MaxBlocks = 2
SYMMETRY SymClerks
INVARIANTS TypeOK PapersFollowStatus WorkshopBlocks
CHECK_DEADLOCK FALSE
