SPECIFICATION Spec
CONSTANTS
  c1 = c1  c2 = c2
  r1 = r1  r2 = r2  r3 = r3
  v1 = v1  v2 = v2
  compact = compact  suv = suv
  centre = centre  airport = airport  harbour = harbour
  city = city  port = port
  NoVehicle = NoVehicle
  Clerk = {c1, c2}
  Reservation = {r1, r2}
  Vehicle = {v1, v2}
  Category = {compact, suv}
  Office = {centre, harbour}
  Pool = {city, port}
  CategoryOf <- OneOfEach
  PoolOf <- OnePoolOf
  Home <- AllCentre
  Horizon = 2
  Rotation = 0
  Requests <- FleetRequests
  FirstRow <- BlankRow
  FirstBlocks = {}
  MaxBlocks = 1
SYMMETRY SymClerks
INVARIANT CountStillHolds
CHECK_DEADLOCK FALSE
