-------------------------- MODULE MCAvailability --------------------------
(* Small instances of Availability: two offices that share a pool, one apart. *)
EXTENDS Availability, TLC

CONSTANTS c1, c2, r1, r2, r3, v1, v2, compact, suv, centre, airport, harbour, city, port

OnePoolOf == [o \in Office |-> IF o = harbour THEN port ELSE city]
SymClerks == Permutations(Clerk) \cup Permutations(Reservation)

Ask(cat, p, o, f, t, v, over) ==
    [category |-> cat, pickup |-> p, return |-> o, from |-> f, to |-> t,
     vehicle |-> v, overbooked |-> over]

BlankRow == Ask(compact, centre, centre, 0, 1, NoVehicle, FALSE)

\* One category.  Two adjacent days, both of them, a return to the other office
\* of the pool, a sale with the car already chosen and one above capacity.
AllCompact == [v \in Vehicle |-> compact]
AllCentre == [v \in Vehicle |-> centre]
CityRequests ==
    {Ask(compact, centre, centre, 0, 1, NoVehicle, FALSE),
     Ask(compact, airport, centre, 1, 2, v1, FALSE),
     Ask(compact, centre, airport, 0, 2, NoVehicle, TRUE)}

\* Two categories and two pools, a rental that ends in the other pool, and the
\* fleet changing underneath: v1 is a compact of the centre, v2 an SUV.
OneOfEach == [v \in Vehicle |-> IF v = v2 THEN suv ELSE compact]
FleetRequests ==
    {Ask(compact, centre, centre, 0, 1, NoVehicle, FALSE),
     Ask(compact, centre, harbour, 0, 1, v1, FALSE),
     Ask(suv, centre, centre, 1, 2, NoVehicle, TRUE)}

-----------------------------------------------------------------------------
(* The planning, in windows of four columns *)

Plan == INSTANCE Planning WITH Any <- "any"

Columns == 1 .. 4
Bars == {b \in [start: Columns, span: Columns] : b.start + b.span - 1 \in Columns}
Placed == {bars \in UNION {[1 .. n -> Bars] : n \in 0 .. 4} : Plan!Sorted(bars)}
Crossing(bars, col) == {n \in DOMAIN bars : bars[n].start <= col /\ col <= Plan!End(bars[n])}

\* _repartir_en_carriles uses no more lanes than there are bars on the fullest day, and that
\* day needs them all.
ASSUME LanesAreFew ==
    \A bars \in Placed :
        LET lanes == Plan!Lanes(bars)
            used == {lanes[n] : n \in DOMAIN bars}
        IN /\ \A col \in Columns : Cardinality(Crossing(bars, col)) <= Cardinality(used)
           /\ bars # <<>> => \E col \in Columns : Cardinality(Crossing(bars, col)) = Cardinality(used)
           /\ used = 1 .. Cardinality(used)

=============================================================================
