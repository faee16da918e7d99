--------------------------- MODULE MCInvoicing ---------------------------
(* Small instances of Invoicing. *)
EXTENDS Invoicing, TLC, FiniteSetsExt, Functions

CONSTANTS c1, c2, c3, r1, r2

SymClerks == Permutations(Clerk)

-----------------------------------------------------------------------------
(* The reports of the management, in a calendar whose months have two or four days *)

Months == [m \in 0 .. 14 |-> 3 * m + (m % 2)]
Report == INSTANCE Reports WITH FirstDay <- Months

\* A period is shared out among the months it touches without losing or repeating a day,
\* and no month gets more days than it has.
ASSUME MonthsShareTheDays ==
    \A from \in 0 .. 11 : \A to \in from .. 11 :
        LET months == Report!MonthsBetween(from, to)
            p == [id |-> 1, from |-> from, to |-> to]
            Share(m) == Report!Occupied({p}, m)
        IN /\ SumFunction([m \in months |-> Share(m)]) = to - from + 1
           /\ \A m \in months : Share(m) \in 1 .. Report!DaysIn(m)
           /\ \A m \in (0 .. 13) \ months : Share(m) = 0

\* The named periods are the months they say, ending today.
ASSUME PeriodsAreMonths ==
    \A today \in 36 .. 41 :
        LET months(code) == LET range == Report!DefaultRange(code, today)
                            IN Report!MonthsBetween(range.from, range.to)
        IN /\ Cardinality(months("mes")) = 1 /\ Cardinality(months("trimestre")) = 3
           /\ Cardinality(months("ano")) = 12

\* A day that has started counts as a day, and one more never does.
ASSUME StartedDaysCount ==
    \A pickup \in 0 .. 30, return \in 0 .. 80 : pickup < return =>
        LET days == Report!RentedDays([pickup |-> pickup, return |-> return])
        IN (days - 1) * 24 < return - pickup /\ return - pickup <= days * 24

\* Three reservations of 30 hours, which may differ in their id alone.
Looks(pickups) ==
    {[id |-> 0, vehicle |-> v, status |-> s, pickup |-> p, return |-> p + 30, total |-> p + 100] :
        v \in {"none", "a", "b"}, s \in {"finished", "cancelled"}, p \in pickups}
Rentals(pickups) ==
    {{[look[i] EXCEPT !.id = i] : i \in 1 .. 3} : look \in [1 .. 3 -> Looks(pickups)]}

\* The head of the report adds up to the rentals of the period, each counted once whatever
\* cars they are grouped by.
ASSUME RevenueAddsUp ==
    \A rentals \in Rentals({23, 24, 47, 48}) :
        LET counted == Report!Counted(rentals, 1, 1)
            summary == Report!RevenueSummary(Report!RevenueRows(counted))
        IN /\ summary.reservations = Cardinality(counted)
           /\ summary.revenue = SumFunction([r \in counted |-> r.total])
           /\ summary.vehicles = Cardinality({r.vehicle : r \in counted})
           /\ \A r \in counted : r.vehicle # "none" /\ r.status = "finished"

\* What the months have is what the rentals were, day by day, and two cars out on the same
\* days are out twice: the month of the days 4 and 5, alone or with that of the days 6 to 9.
ASSUME OccupancyAddsUp ==
    \A rentals \in Rentals({65, 66, 119, 144}), to \in {4, 6} :
        LET months == Report!MonthsBetween(4, to)
            report == Report!OccupancyByMonth(rentals, 2, 4, to)
            Days(r) == {day \in r.pickup \div 24 .. r.return \div 24 : Report!MonthOf(day) \in months}
            out == {r \in rentals : r.vehicle # "none" /\ r.status = "finished"}
        IN SumFunction([m \in months |-> report[m].rented])
              = SumFunction([r \in out |-> Cardinality(Days(r))])

=============================================================================
