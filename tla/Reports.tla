------------------------------- MODULE Reports -------------------------------
(***************************************************************************)
(* The reports of the management (apps/reports/services.py): what each car *)
(* has earned in a period and how much the fleet is used, month by month.  *)
(* Days, and the months of the calendar, are numbers; money is in cents. A *)
(* reservation is a row of the table and has its id: two of them may have  *)
(* the same hours and the same price, and count twice.                     *)
(***************************************************************************)
EXTENDS Integers, FiniteSets, Functions

CONSTANT FirstDay    \* month -> its first day; it ends where the next one starts

Productive == {"pending", "confirmed", "in_progress", "finished"}

Bigger(a, b) == IF a > b THEN a ELSE b
Lesser(a, b) == IF a < b THEN a ELSE b
Halves(num, den) == (2 * num + den) \div (2 * den)    \* ROUND_HALF_UP, of what is not negative

MonthOf(day) == CHOOSE m \in DOMAIN FirstDay :
                    FirstDay[m] <= day /\ (m + 1 \in DOMAIN FirstDay => day < FirstDay[m + 1])
DaysIn(m) == FirstDay[m + 1] - FirstDay[m]

\* months_between, both ends included
MonthsBetween(from, to) == MonthOf(from) .. MonthOf(to)

\* default_range: this month, or this one and the 2 or the 11 before it, up to today.
DefaultRange(code, today) ==
    LET back == CASE code = "mes" -> 0 [] code = "trimestre" -> 2 [] OTHER -> 11
    IN [from |-> FirstDay[MonthOf(today) - back], to |-> today]

-----------------------------------------------------------------------------
(* What each car has earned *)

\* rented_days: a day that has started counts; pickup and return are in hours.
RentedDays(r) == Bigger(1, -((-(r.return - r.pickup)) \div 24))

\* revenue_by_vehicle: a rental counts whole, on the day of its pickup.
Counted(reservations, from, to) ==
    {r \in reservations : /\ r.vehicle # "none" /\ r.status \in Productive
                          /\ from * 24 <= r.pickup /\ r.pickup < (to + 1) * 24}

\* revenue_rows
VehicleRevenue(counted, v) ==
    LET mine == {r \in counted : r.vehicle = v}
    IN [vehicle |-> v, reservations |-> Cardinality(mine),
        days |-> SumFunction([r \in mine |-> RentedDays(r)]), revenue |-> SumFunction([r \in mine |-> r.total])]
RevenueRows(counted) == {VehicleRevenue(counted, r.vehicle) : r \in counted}

PerDay(row) == IF row.days = 0 THEN 0 ELSE Halves(row.revenue, row.days)

\* summarize
RevenueSummary(rows) ==
    [vehicles |-> Cardinality(rows), reservations |-> SumFunction([row \in rows |-> row.reservations]),
     days |-> SumFunction([row \in rows |-> row.days]), revenue |-> SumFunction([row \in rows |-> row.revenue])]

-----------------------------------------------------------------------------
(* How much the fleet is used *)

\* A stay is the first and the last day the car of a reservation is out.
Stay(r) == [id |-> r.id, from |-> r.pickup \div 24, to |-> r.return \div 24]

\* The rentals that touch some days.
Touching(reservations, from, to) ==
    {r \in reservations : /\ r.vehicle # "none" /\ r.status \in Productive
                          /\ r.pickup < (to + 1) * 24 /\ from * 24 <= r.return}

Overlap(p, m) == Lesser(p.to, FirstDay[m + 1] - 1) - Bigger(p.from, FirstDay[m]) + 1

Occupied(periods, m) ==
    SumFunction([p \in periods |-> Bigger(Overlap(p, m), 0)])

\* occupancy_rows
MonthOccupancy(periods, vehicles, m) ==
    [available |-> vehicles * DaysIn(m), rented |-> Occupied(periods, m)]

\* occupancy_by_month: whole months, against the cars that are in the fleet today.
OccupancyByMonth(reservations, vehicles, from, to) ==
    LET months == MonthsBetween(from, to)
        stays == {Stay(r) : r \in Touching(reservations, FirstDay[MonthOf(from)],
                                           FirstDay[MonthOf(to) + 1] - 1)}
    IN [m \in months |-> MonthOccupancy(stays, vehicles, m)]

\* rate, in tenths of a percent
Rate(row) == IF row.available = 0 THEN 0 ELSE Halves(row.rented * 1000, row.available)

=============================================================================
