SPECIFICATION SalesSpec
CONSTANTS
  c1 = c1  c2 = c2
  r1 = r1  r2 = r2  r3 = r3
  v1 = v1  v2 = v2
  compact = compact  suv = suv
  centre = centre  airport = airport  harbour = harbour
  city = city  port = port
  NoVehicle = NoVehicle
  Clerk = {c1, c2}
  Reservation = {r1, r2, r3}
  Vehicle = {v1, v2}
  Category = {compact}
  Office = {centre, airport}
  Pool = {city}
  CategoryOf <- AllCompact
  PoolOf <- OnePoolOf
  Home <- AllCentre
  Horizon = 2
  Rotation = 1
  Requests <- CityRequests
  FirstRow <- BlankRow
  FirstBlocks = {}
  MaxBlocks = 0
SYMMETRY SymClerks
INVARIANTS NeverOversold NoCarPromisedTwice
PROPERTY KeepsTheBook
CHECK_DEADLOCK FALSE
